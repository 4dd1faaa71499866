--------------------------- MODULE PromptService ---------------------------
(***************************************************************************)
(* How the service keeps a prompt from running twice                       *)
(* (backend/internal/chat/service.go): the ledger of client_message_ids    *)
(* and the prompt branch of Handle, which looks in the ledger, calls the   *)
(* backend and records the id, each under no common lock.                  *)
(*                                                                         *)
(* The backend is external here: a prompt is refused without effect, or    *)
(* delivered and accepted, or delivered and yet reported as an error: the  *)
(* Pi and Codex backends wait for the agent's verdict in the context of    *)
(* the HTTP request, which ends with the client's connection.              *)
(***************************************************************************)
EXTENDS Integers, Sequences, FiniteSets

CONSTANTS Handlers,          \* HTTP handlers that may run at the same time
          Ids,               \* client_message_ids
          Digests,           \* payload digests
          RememberedPrompts, \* the ledger's size, 4096 in the code
          MaxCuts,           \* bound: connections lost inside a backend call
          MaxRestarts,       \* bound: restarts of the server
          MaxTurns           \* bound: prompts delivered in a run

ASSUME ServiceAssumption == /\ IsFiniteSet(Handlers)
                            /\ RememberedPrompts \in Nat \ {0}
                            /\ MaxCuts \in Nat
                            /\ MaxRestarts \in Nat
                            /\ MaxTurns \in Nat

Prompts == [id : Ids, digest : Digests]

VARIABLES order,     \* promptLedger.order
          digests,   \* promptLedger.digests
          at,        \* where each handler is
          cmd,       \* the prompt each handler serves
          delivered, \* history: the prompts given to the backend, in order
          title,     \* the prompt the thread's title was taken from, if any
          acked,     \* history: the prompts answered with a 204
          recorded,  \* history: the ids recorded since the last restart
          evicted,   \* history: how often the ledger dropped each id
          cuts,      \* how many backend calls were cut
          restarts   \* how many times the server was restarted

vars == <<order, digests, at, cmd, delivered, title, acked, recorded, evicted,
          cuts, restarts>>

ledger == <<order, digests, recorded, evicted>>

HandlerSteps == {"idle", "look", "call", "record", "name"}

TypeOK ==
    /\ order \in Seq(Ids)
    /\ DOMAIN digests \subseteq Ids
    /\ \A i \in DOMAIN digests : digests[i] \in Digests
    /\ at \in [Handlers -> HandlerSteps]
    /\ \A h \in Handlers : at[h] # "idle" => cmd[h] \in Prompts
    /\ DOMAIN cmd = Handlers
    /\ delivered \in Seq(Prompts)
    /\ title \in SUBSET Prompts
    /\ acked \in SUBSET Prompts
    /\ recorded \in Seq(Ids)
    /\ evicted \in [Ids -> Nat]
    /\ cuts \in 0..MaxCuts
    /\ restarts \in 0..MaxRestarts

NoLedger == [i \in {} |-> CHOOSE d \in Digests : TRUE]

Init ==
    /\ order = <<>>
    /\ digests = NoLedger
    /\ at = [h \in Handlers |-> "idle"]
    /\ cmd = [h \in Handlers |-> <<>>]
    /\ delivered = <<>>
    /\ title = {}
    /\ acked = {}
    /\ recorded = <<>>
    /\ evicted = [i \in Ids |-> 0]
    /\ cuts = 0
    /\ restarts = 0

-----------------------------------------------------------------------------
(* The prompt branch of Handle.                                            *)

Goto(h, step) == at' = [at EXCEPT ![h] = step]

\* A prompt arrives: a new one, a retry, or an old id over a new payload.
Receive(h, p) ==
    /\ at[h] = "idle"
    /\ Goto(h, "look")
    /\ cmd' = [cmd EXCEPT ![h] = p]
    /\ UNCHANGED <<ledger, delivered, title, acked, cuts, restarts>>

\* seen: an unknown id goes on to the backend ...
SeenUnknown(h) ==
    /\ at[h] = "look"
    /\ cmd[h].id \notin DOMAIN digests
    /\ Goto(h, "call")
    /\ UNCHANGED <<ledger, cmd, delivered, title, acked, cuts, restarts>>

\* ... one that carried something else is refused as a conflict ...
SeenConflict(h) ==
    /\ at[h] = "look"
    /\ cmd[h].id \in DOMAIN digests
    /\ digests[cmd[h].id] # cmd[h].digest
    /\ Goto(h, "idle")
    /\ UNCHANGED <<ledger, cmd, delivered, title, acked, cuts, restarts>>

\* ... and a replay is answered as done.
SeenReplay(h) ==
    /\ at[h] = "look"
    /\ cmd[h].id \in DOMAIN digests
    /\ digests[cmd[h].id] = cmd[h].digest
    /\ Goto(h, "idle")
    /\ acked' = acked \union {cmd[h]}
    /\ UNCHANGED <<ledger, cmd, delivered, title, cuts, restarts>>

\* Mistake: the error of the backend is overlooked.
BackendRefusesUnnoticed(h) ==
    /\ at[h] = "call"
    /\ Goto(h, "record")
    /\ UNCHANGED <<ledger, cmd, delivered, title, acked, cuts, restarts>>

\* backend.Prompt refuses: nothing reached the agent (thread_busy, no process).
BackendRefuses(h) ==
    /\ at[h] = "call"
    /\ Goto(h, "idle")
    /\ UNCHANGED <<ledger, cmd, delivered, title, acked, cuts, restarts>>

BackendAccepts(h) ==
    /\ at[h] = "call"
    /\ Len(delivered) < MaxTurns
    /\ delivered' = Append(delivered, cmd[h])
    /\ Goto(h, "record")
    /\ UNCHANGED <<ledger, cmd, title, acked, cuts, restarts>>

\* The agent has the prompt, but the request's context ends before its verdict
\* is in: backend.Prompt fails and so does Handle.
BackendCut(h) ==
    /\ at[h] = "call"
    /\ Len(delivered) < MaxTurns
    /\ cuts < MaxCuts
    /\ delivered' = Append(delivered, cmd[h])
    /\ cuts' = cuts + 1
    /\ Goto(h, "idle")
    /\ UNCHANGED <<ledger, cmd, title, acked, restarts>>

\* Mistake: the id is stored for the digest.
RememberId(p) ==
    IF p.id \in DOMAIN digests THEN UNCHANGED ledger
    ELSE /\ order' = Append(order, p.id)
         /\ digests' = [i \in DOMAIN digests \union {p.id} |->
                          IF i = p.id THEN p.id ELSE digests[i]]
         /\ recorded' = Append(recorded, p.id)
         /\ UNCHANGED evicted

\* Mistake: what is evicted from the list stays in the map.
RememberStrands(p) ==
    IF p.id \in DOMAIN digests THEN UNCHANGED ledger
    ELSE /\ order' = Append(IF Len(order) >= RememberedPrompts THEN Tail(order) ELSE order, p.id)
         /\ digests' = [i \in DOMAIN digests \union {p.id} |->
                          IF i = p.id THEN p.digest ELSE digests[i]]
         /\ recorded' = Append(recorded, p.id)
         /\ UNCHANGED evicted

\* Mistake: a full ledger takes nothing more in.
RememberOldest(p) ==
    IF p.id \in DOMAIN digests THEN UNCHANGED ledger
    ELSE LET full == Len(order) >= RememberedPrompts
         IN /\ order' = IF full THEN order ELSE Append(order, p.id)
            /\ digests' = [i \in DOMAIN digests \union (IF full THEN {} ELSE {p.id}) |->
                             IF i = p.id THEN p.digest ELSE digests[i]]
            /\ recorded' = Append(recorded, p.id)
            /\ UNCHANGED evicted

\* record, at the end of an accepted prompt: an id already there is left alone,
\* and a full ledger drops its oldest.
Remember(p) ==
    IF p.id \in DOMAIN digests THEN UNCHANGED ledger
    ELSE LET full == Len(order) >= RememberedPrompts
             kept == IF full THEN Tail(order) ELSE order
             old  == IF full THEN {Head(order)} ELSE {}
         IN /\ order' = Append(kept, p.id)
            /\ digests' = [i \in (DOMAIN digests \ old) \union {p.id} |->
                             IF i = p.id THEN p.digest ELSE digests[i]]
            /\ recorded' = Append(recorded, p.id)
            /\ evicted' = [i \in Ids |-> IF i \in old THEN evicted[i] + 1 ELSE evicted[i]]

\* Mistake: an accepted prompt is not recorded.
RecordNothing(h) ==
    /\ at[h] = "record"
    /\ Goto(h, "name")
    /\ UNCHANGED <<ledger, cmd, delivered, title, acked, cuts, restarts>>

Record(h) ==
    /\ at[h] = "record"
    /\ Remember(cmd[h])
    /\ Goto(h, "name")
    /\ UNCHANGED <<cmd, delivered, title, acked, cuts, restarts>>

\* The prompt names a thread that has no title, if it holds any text, and is
\* answered.
NameThread(h) ==
    /\ at[h] = "name"
    /\ title' \in IF title = {} THEN {{}, {cmd[h]}} ELSE {title}
    /\ acked' = acked \union {cmd[h]}
    /\ Goto(h, "idle")
    /\ UNCHANGED <<ledger, cmd, delivered, cuts, restarts>>

\* The server is restarted: the ledger and the requests in flight are gone.
Restart ==
    /\ restarts < MaxRestarts
    /\ restarts' = restarts + 1
    /\ order' = <<>>
    /\ digests' = NoLedger
    /\ recorded' = <<>>
    /\ at' = [h \in Handlers |-> "idle"]
    /\ UNCHANGED <<cmd, delivered, title, acked, evicted, cuts>>

-----------------------------------------------------------------------------

Handle(h) ==
    \/ \E p \in Prompts : Receive(h, p)
    \/ SeenUnknown(h) \/ SeenConflict(h) \/ SeenReplay(h)
    \/ BackendRefuses(h) \/ BackendAccepts(h) \/ BackendCut(h)
    \/ Record(h) \/ NameThread(h)

Next == (\E h \in Handlers : Handle(h)) \/ Restart

Spec == Init /\ [][Next]_vars

-----------------------------------------------------------------------------
(* Properties.                                                             *)

Delivered == {delivered[i] : i \in 1..Len(delivered)}

Times(i) == Cardinality({k \in 1..Len(delivered) : delivered[k].id = i})

\* The list and the map of the ledger hold the same ids, each once, and never
\* more than the bound: an eviction can neither strand an id in the map nor
\* drop one that is still listed (service.go:49-61).
LedgerAgrees ==
    /\ DOMAIN digests = {order[i] : i \in 1..Len(order)}
    /\ \A i, j \in 1..Len(order) : order[i] = order[j] => i = j
    /\ Len(order) <= RememberedPrompts

\* What the ledger forgets is the oldest: it holds the ids recorded last, in the
\* order they were recorded.
RemembersNewest ==
    /\ Len(order) <= Len(recorded)
    /\ Len(order) < RememberedPrompts => Len(order) = Len(recorded)
    /\ \A i \in 1..Len(order) :
          order[i] = recorded[Len(recorded) - Len(order) + i]

\* The two halves of the ledger hold the same ids, and these are the newest
\* (service.go:34-61).
LedgerSound == LedgerAgrees /\ RemembersNewest

\* A prompt answered with a 204 was given to the agent, with that very payload:
\* neither the replay check nor a restart can lose a turn (service.go:17-20).  Nor
\* is a thread named after a prompt its agent never got.
NeverLost == acked \union title \subseteq Delivered

\* An id runs again only for a reason: the ledger forgot it, in a restart or an
\* eviction, a call was cut, or copies of it were in flight together, which each
\* handler can do once before one of them is recorded (service.go:309-331).
DuplicatesHaveReasons ==
    \A i \in Ids :
        Times(i) <= Cardinality(Handlers) * (1 + restarts + evicted[i]) + cuts

=============================================================================
