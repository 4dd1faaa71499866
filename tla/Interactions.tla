---------------------------- MODULE Interactions ----------------------------
(***************************************************************************)
(* What a session promises about the requests its agent makes of the owner *)
(* (permission prompts, plan approvals, questions): each is put to the     *)
(* owner once, is settled once -- by the decision of one owner's tab or by *)
(* the end of its turn -- and is then answered to the agent and reported   *)
(* as resolved once, with what settled it.                                 *)
(***************************************************************************)
CONSTANTS Requests,  \* the requests the agent may make
          Owners     \* the owner's tabs that may answer them

VARIABLES phase,     \* how far each request has come
          outcome    \* what settled it

TurnEnded == "the turn ended"
Unsettled == "unsettled"

Phases == {"unasked", "open", "settled", "resolved"}

Init == /\ phase = [r \in Requests |-> "unasked"]
        /\ outcome = [r \in Requests |-> Unsettled]

Ask(r) == /\ phase[r] = "unasked"
          /\ phase' = [phase EXCEPT ![r] = "open"]
          /\ UNCHANGED outcome

Settle(r, o) == /\ phase[r] = "open"
                /\ phase' = [phase EXCEPT ![r] = "settled"]
                /\ outcome' = [outcome EXCEPT ![r] = o]

\* A turn that ends settles every request that is open, at once.
EndTurn == /\ \E r \in Requests : phase[r] = "open"
           /\ phase' = [r \in Requests |-> IF phase[r] = "open" THEN "settled" ELSE phase[r]]
           /\ outcome' = [r \in Requests |-> IF phase[r] = "open" THEN TurnEnded ELSE outcome[r]]

Resolve(r) == /\ phase[r] = "settled"
              /\ phase' = [phase EXCEPT ![r] = "resolved"]
              /\ UNCHANGED outcome

Next == \/ \E r \in Requests : \/ Ask(r)
                               \/ \E o \in Owners : Settle(r, o)
                               \/ Resolve(r)
        \/ EndTurn

Spec == Init /\ [][Next]_<<phase, outcome>>

=============================================================================
