------------------------ MODULE PromptServiceProofs ------------------------
(***************************************************************************)
(* The ledger's consistency, the promise that an answered prompt was given *)
(* to the agent, and how often an id may run, for any number of handlers   *)
(* and any ledger size.                                                    *)
(***************************************************************************)
EXTENDS PromptService, FiniteSetTheorems, TLAPS

\* Whatever says that a prompt is through -- the ledger, a handler past the
\* backend call, an answer -- has a delivery behind it.
DeliveryBehind ==
    /\ \A h \in Handlers : at[h] \in {"record", "name"} => cmd[h] \in Delivered
    /\ \A i \in DOMAIN digests : [id |-> i, digest |-> digests[i]] \in Delivered

IInv == /\ TypeOK
        /\ LedgerAgrees
        /\ RemembersNewest
        /\ DeliveryBehind
        /\ NeverLost

\* The part of the invariant that speaks of the ledger alone.
LedgerInv == /\ order \in Seq(Ids)
             /\ recorded \in Seq(Ids)
             /\ DOMAIN digests \subseteq Ids
             /\ LedgerAgrees
             /\ RemembersNewest

LEMMA DeliveredGrows ==
    ASSUME NEW p \in Prompts, delivered \in Seq(Prompts), delivered' = Append(delivered, p)
    PROVE  /\ delivered' \in Seq(Prompts)
           /\ Delivered' = Delivered \union {p}
<1>1. /\ Len(delivered') = Len(delivered) + 1
      /\ \A i \in 1..Len(delivered) : delivered'[i] = delivered[i]
      /\ delivered'[Len(delivered) + 1] = p
      /\ Len(delivered) \in Nat
  OBVIOUS
<1> QED BY <1>1 DEF Delivered

\* Remembering a prompt keeps the ledger's list and map in agreement and the
\* list a suffix of what was recorded (promptLedger.record).
LEMMA RememberKeepsLedger ==
    ASSUME LedgerInv, NEW p \in Prompts, Remember(p), evicted \in [Ids -> Nat]
    PROVE  /\ LedgerInv'
           /\ evicted' \in [Ids -> Nat]
           /\ DOMAIN digests' \subseteq DOMAIN digests \union {p.id}
           /\ \A i \in DOMAIN digests' :
                 \/ i \in DOMAIN digests /\ digests'[i] = digests[i]
                 \/ i = p.id /\ digests'[i] = p.digest
<1>0. p.id \in Ids /\ RememberedPrompts \in Nat \ {0}
  BY ServiceAssumption DEF Prompts
<1>1. CASE p.id \in DOMAIN digests
  BY <1>1 DEF Remember, ledger, LedgerInv, LedgerAgrees, RemembersNewest
<1>2. CASE p.id \notin DOMAIN digests
  <2> DEFINE full == Len(order) >= RememberedPrompts
             kept == IF full THEN Tail(order) ELSE order
             old  == IF full THEN {Head(order)} ELSE {}
  <2>1. /\ order' = Append(kept, p.id)
        /\ digests' = [i \in (DOMAIN digests \ old) \union {p.id} |->
                         IF i = p.id THEN p.digest ELSE digests[i]]
        /\ recorded' = Append(recorded, p.id)
        /\ evicted' = [i \in Ids |-> IF i \in old THEN evicted[i] + 1 ELSE evicted[i]]
    BY <1>2 DEF Remember
  <2>2. /\ order \in Seq(Ids) /\ recorded \in Seq(Ids)
        /\ Len(order) \in Nat /\ Len(recorded) \in Nat
        /\ Len(order) <= RememberedPrompts /\ Len(order) <= Len(recorded)
        /\ DOMAIN digests = {order[i] : i \in 1..Len(order)}
        /\ \A i, j \in 1..Len(order) : order[i] = order[j] => i = j
        /\ Len(order) < RememberedPrompts => Len(order) = Len(recorded)
        /\ \A i \in 1..Len(order) : order[i] = recorded[Len(recorded) - Len(order) + i]
        /\ DOMAIN digests \subseteq Ids
    BY DEF LedgerInv, LedgerAgrees, RemembersNewest
  \* n is how many are dropped: none, or the oldest
  <2> DEFINE n == IF full THEN 1 ELSE 0
  <2>3. /\ n \in {0, 1} /\ n <= Len(order)
        /\ kept \in Seq(Ids)
        /\ Len(kept) = Len(order) - n
        /\ \A i \in 1..Len(kept) : i + n \in 1..Len(order) /\ kept[i] = order[i + n]
        /\ \A k \in 1..Len(order) : k - n \in 1..Len(kept) \/ (k = 1 /\ n = 1)
        /\ n = 1 => old = {order[1]}
        /\ n = 0 => old = {}
        /\ Len(kept) < RememberedPrompts
        /\ n = 1 => Len(kept) + 1 = RememberedPrompts
        /\ n = 0 => Len(order) < RememberedPrompts
    BY <1>0, <2>2
  <2> HIDE DEF full, kept, old, n
  <2>4. /\ order' \in Seq(Ids)
        /\ Len(order') = Len(kept) + 1
        /\ \A i \in 1..Len(kept) : order'[i] = order[i + n]
        /\ order'[Len(kept) + 1] = p.id
        /\ Len(kept) \in Nat
        /\ \A i \in 1..Len(order') : i \in 1..Len(kept) \/ i = Len(kept) + 1
    BY <1>0, <2>1, <2>3
  <2>5. /\ recorded' \in Seq(Ids)
        /\ Len(recorded') = Len(recorded) + 1
        /\ \A i \in 1..Len(recorded) : recorded'[i] = recorded[i]
        /\ recorded'[Len(recorded) + 1] = p.id
    BY <1>0, <2>1, <2>2
  <2>6. DOMAIN digests' = (DOMAIN digests \ old) \union {p.id}
    BY <2>1
  <2>7. DOMAIN digests' = {order'[i] : i \in 1..Len(order')}
    <3>1. ASSUME NEW x \in DOMAIN digests \ old
          PROVE  \E i \in 1..Len(order') : order'[i] = x
      <4>1. PICK k \in 1..Len(order) : order[k] = x
        BY <3>1, <2>2
      <4>2. k - n \in 1..Len(kept)
        BY <4>1, <3>1, <2>2, <2>3
      <4>3. order'[k - n] = x /\ k - n \in 1..Len(order')
        <5>1. order'[k - n] = order[(k - n) + n]
          BY <4>2, <2>4
        <5>2. (k - n) + n = k
          BY <2>3
        <5> QED BY <5>1, <5>2, <4>1, <4>2, <2>4
      <4> QED BY <4>3
    <3>2. \E i \in 1..Len(order') : order'[i] = p.id
      BY <2>2, <2>3, <2>4
    <3>3. ASSUME NEW i \in 1..Len(order')
          PROVE  order'[i] \in (DOMAIN digests \ old) \union {p.id}
      <4>1. CASE i = Len(kept) + 1
        BY <4>1, <2>4
      <4>2. CASE i \in 1..Len(kept)
        <5>1. order'[i] = order[i + n] /\ i + n \in 1..Len(order)
          BY <4>2, <2>3, <2>4
        <5>2. order[i + n] \notin old
          <6>1. CASE n = 0
            BY <6>1, <2>3
          <6>2. CASE n = 1
            <7>1. i + n # 1 /\ 1 \in 1..Len(order)
              BY <4>2, <5>1, <6>2, <2>2
            <7> QED BY <7>1, <5>1, <6>2, <2>2, <2>3
          <6> QED BY <6>1, <6>2, <2>3
        <5> QED BY <5>1, <5>2, <2>2
      <4> QED BY <4>1, <4>2, <2>4
    <3> QED BY <3>1, <3>2, <3>3, <2>6
  <2>8. \A i, j \in 1..Len(order') : order'[i] = order'[j] => i = j
    <3>1. ASSUME NEW i \in 1..Len(kept), NEW j \in 1..Len(kept), order'[i] = order'[j]
          PROVE  i = j
      <4>1. /\ order[i + n] = order[j + n]
            /\ i + n \in 1..Len(order) /\ j + n \in 1..Len(order)
        BY <3>1, <2>3, <2>4
      <4>2. i + n = j + n
        BY <4>1, <2>2
      <4> QED BY <4>2, <2>3
    <3>2. ASSUME NEW i \in 1..Len(kept) PROVE order'[i] # p.id
      <4>1. order'[i] = order[i + n] /\ i + n \in 1..Len(order)
        BY <2>3, <2>4
      <4> QED BY <4>1, <1>2, <2>2
    <3> QED BY <3>1, <3>2, <2>4
  <2>9. LedgerAgrees'
    BY <1>0, <2>2, <2>3, <2>4, <2>7, <2>8 DEF LedgerAgrees
  <2>10. RemembersNewest'
    <3>1. /\ Len(order') <= Len(recorded')
          /\ Len(order') < RememberedPrompts => Len(order') = Len(recorded')
      <4>1. /\ Len(order') = Len(order) - n + 1
            /\ Len(recorded') = Len(recorded) + 1
        BY <2>3, <2>4, <2>5
      <4>2. CASE n = 0
        BY <4>1, <4>2, <2>2, <2>3
      <4>3. CASE n = 1
        BY <4>1, <4>3, <1>0, <2>2, <2>3
      <4> QED BY <4>2, <4>3, <2>3
    <3>2. ASSUME NEW i \in 1..Len(order')
          PROVE  order'[i] = recorded'[Len(recorded') - Len(order') + i]
      <4>1. CASE i = Len(kept) + 1
        BY <4>1, <2>2, <2>3, <2>4, <2>5
      <4>2. CASE i \in 1..Len(kept)
        <5>1. i + n \in 1..Len(order)
          BY <4>2, <2>3
        <5>2. order'[i] = recorded[Len(recorded) - Len(order) + (i + n)]
          <6>1. order'[i] = order[i + n]
            BY <4>2, <2>4
          <6> QED BY <6>1, <5>1, <2>2
        <5>3. Len(recorded) - Len(order) + (i + n) = Len(recorded') - Len(order') + i
          BY <2>2, <2>3, <2>4, <2>5
        <5>4. Len(recorded) - Len(order) + (i + n) \in 1..Len(recorded)
          BY <5>1, <2>2
        <5> QED BY <5>2, <5>3, <5>4, <2>5
      <4> QED BY <4>1, <4>2, <2>4
    <3> QED BY <3>1, <3>2 DEF RemembersNewest
  <2>11. LedgerInv'
    BY <1>0, <2>2, <2>4, <2>5, <2>6, <2>9, <2>10 DEF LedgerInv
  <2>12. evicted' \in [Ids -> Nat]
    BY <2>1
  <2> QED BY <2>1, <2>6, <2>11, <2>12
<1> QED BY <1>1, <1>2

-----------------------------------------------------------------------------
(* The invariant is inductive.                                             *)

LEMMA InitEstablishes == Init => IInv
<1> SUFFICES ASSUME Init PROVE IInv
  OBVIOUS
<1>1. TypeOK
  BY ServiceAssumption DEF Init, TypeOK, NoLedger, HandlerSteps
<1>2. LedgerAgrees
  BY ServiceAssumption DEF Init, LedgerAgrees, NoLedger
<1>3. RemembersNewest
  BY ServiceAssumption DEF Init, RemembersNewest
<1>4. DeliveryBehind
  BY DEF Init, DeliveryBehind, NoLedger
<1>5. NeverLost
  BY DEF Init, NeverLost
<1> QED BY <1>1, <1>2, <1>3, <1>4, <1>5 DEF IInv

\* A step that leaves the ledger alone leaves what is said of it alone.
LEMMA LedgerUntouched ==
    ASSUME LedgerAgrees, RemembersNewest, UNCHANGED ledger
    PROVE  LedgerAgrees' /\ RemembersNewest'
  BY DEF ledger, LedgerAgrees, RemembersNewest

\* Receive, the three outcomes of the look and a refusal: nothing is delivered,
\* remembered or named, and no handler comes to be past its backend call.
LEMMA BeforeTheCall ==
    ASSUME IInv, NEW h \in Handlers,
           \/ \E p \in Prompts : Receive(h, p)
           \/ SeenUnknown(h) \/ SeenConflict(h) \/ SeenReplay(h)
           \/ BackendRefuses(h)
    PROVE  IInv'
<1>1. /\ UNCHANGED <<ledger, delivered, title, cuts, restarts>>
      /\ at' = [at EXCEPT ![h] = at'[h]]
      /\ at'[h] \in {"idle", "look", "call"}
      /\ at[h] \in {"idle", "look", "call"}
      /\ \A g \in Handlers : cmd'[g] = cmd[g] \/ (g = h /\ at'[h] = "look" /\ cmd'[h] \in Prompts)
      /\ DOMAIN cmd' = Handlers
      /\ at'[h] = "idle" \/ cmd'[h] \in Prompts
      /\ acked' \subseteq acked \union
            (IF cmd[h].id \in DOMAIN digests /\ digests[cmd[h].id] = cmd[h].digest
                /\ cmd[h] \in Prompts THEN {cmd[h]} ELSE {})
  BY DEF IInv, TypeOK, Receive, SeenUnknown, SeenConflict, SeenReplay,
         BackendRefuses, Goto
<1>2. Delivered' = Delivered /\ DOMAIN digests' = DOMAIN digests /\ digests' = digests
  BY <1>1 DEF Delivered, ledger
<1>3. acked' \subseteq acked \union Delivered
  BY <1>1 DEF IInv, DeliveryBehind, Prompts
<1>4. TypeOK'
  BY <1>1, <1>3 DEF IInv, TypeOK, HandlerSteps, ledger, Delivered
<1>5. DeliveryBehind'
  BY <1>1, <1>2 DEF IInv, TypeOK, DeliveryBehind
<1>6. NeverLost'
  BY <1>1, <1>2, <1>3 DEF IInv, NeverLost
<1> QED BY <1>1, <1>4, <1>5, <1>6, LedgerUntouched DEF IInv

\* The backend gets the prompt, whatever Handle hears of it.
LEMMA TheCall ==
    ASSUME IInv, NEW h \in Handlers, BackendAccepts(h) \/ BackendCut(h)
    PROVE  IInv'
<1>1. /\ UNCHANGED <<ledger, title, acked, cmd, restarts>>
      /\ delivered' = Append(delivered, cmd[h])
      /\ cmd[h] \in Prompts
      /\ at' = [at EXCEPT ![h] = at'[h]]
      /\ at'[h] \in {"record", "idle"}
      /\ cuts' \in 0..MaxCuts
  BY ServiceAssumption DEF IInv, TypeOK, BackendAccepts, BackendCut, Goto
<1>2. /\ delivered' \in Seq(Prompts)
      /\ Delivered' = Delivered \union {cmd[h]}
  BY <1>1, DeliveredGrows DEF IInv, TypeOK
<1>3. TypeOK'
  BY <1>1, <1>2 DEF IInv, TypeOK, HandlerSteps, ledger
<1>4. DeliveryBehind'
  BY <1>1, <1>2 DEF IInv, TypeOK, DeliveryBehind, ledger
<1>5. NeverLost'
  BY <1>1, <1>2 DEF IInv, NeverLost
<1> QED BY <1>1, <1>3, <1>4, <1>5, LedgerUntouched DEF IInv

LEMMA TheRecord ==
    ASSUME IInv, NEW h \in Handlers, Record(h)
    PROVE  IInv'
<1>1. /\ UNCHANGED <<cmd, delivered, title, acked, cuts, restarts>>
      /\ at[h] = "record"
      /\ at' = [at EXCEPT ![h] = "name"]
      /\ Remember(cmd[h])
      /\ cmd[h] \in Prompts
  BY DEF IInv, TypeOK, Record, Goto
<1>2. /\ LedgerInv'
      /\ evicted' \in [Ids -> Nat]
      /\ \A i \in DOMAIN digests' :
            \/ i \in DOMAIN digests /\ digests'[i] = digests[i]
            \/ i = cmd[h].id /\ digests'[i] = cmd[h].digest
  <2>1. LedgerInv /\ evicted \in [Ids -> Nat]
    BY DEF IInv, TypeOK, LedgerInv
  <2> QED BY <1>1, <2>1, RememberKeepsLedger
<1>3. Delivered' = Delivered
  BY <1>1 DEF Delivered
<1>4. TypeOK'
  BY <1>1, <1>2 DEF IInv, TypeOK, LedgerInv, HandlerSteps, Prompts
<1>5. DeliveryBehind'
  <2>1. ASSUME NEW g \in Handlers, at'[g] \in {"record", "name"}
        PROVE  cmd'[g] \in Delivered'
    BY <1>1, <1>3, <2>1 DEF IInv, TypeOK, DeliveryBehind
  <2>2. ASSUME NEW i \in DOMAIN digests'
        PROVE  [id |-> i, digest |-> digests'[i]] \in Delivered'
    <3>1. [id |-> cmd[h].id, digest |-> cmd[h].digest] = cmd[h] /\ cmd[h] \in Delivered
      BY <1>1 DEF IInv, DeliveryBehind, Prompts
    <3> QED BY <1>2, <1>3, <3>1, <2>2 DEF IInv, DeliveryBehind
  <2> QED BY <2>1, <2>2 DEF DeliveryBehind
<1>6. NeverLost'
  BY <1>1, <1>3 DEF IInv, NeverLost
<1> QED BY <1>2, <1>4, <1>5, <1>6 DEF IInv, LedgerInv

LEMMA TheName ==
    ASSUME IInv, NEW h \in Handlers, NameThread(h)
    PROVE  IInv'
<1>1. /\ UNCHANGED <<ledger, cmd, delivered, cuts, restarts>>
      /\ at[h] = "name"
      /\ at' = [at EXCEPT ![h] = "idle"]
      /\ title' \subseteq title \union {cmd[h]}
      /\ acked' = acked \union {cmd[h]}
      /\ cmd[h] \in Prompts
  BY DEF IInv, TypeOK, NameThread, Goto
<1>2. Delivered' = Delivered /\ cmd[h] \in Delivered
  BY <1>1 DEF IInv, DeliveryBehind, Delivered
<1>3. TypeOK'
  BY <1>1 DEF IInv, TypeOK, HandlerSteps, ledger
<1>4. DeliveryBehind'
  BY <1>1, <1>2 DEF IInv, TypeOK, DeliveryBehind, ledger
<1>5. NeverLost'
  BY <1>1, <1>2 DEF IInv, NeverLost
<1> QED BY <1>1, <1>3, <1>4, <1>5, LedgerUntouched DEF IInv

LEMMA TheRestart ==
    ASSUME IInv, Restart
    PROVE  IInv'
<1>1. /\ UNCHANGED <<cmd, delivered, title, acked, evicted, cuts>>
      /\ order' = <<>> /\ recorded' = <<>> /\ digests' = NoLedger
      /\ at' = [h \in Handlers |-> "idle"]
      /\ restarts' \in 0..MaxRestarts
  BY ServiceAssumption DEF IInv, TypeOK, Restart
<1>2. TypeOK'
  BY <1>1 DEF IInv, TypeOK, HandlerSteps, NoLedger
<1>3. LedgerAgrees'
  BY <1>1, ServiceAssumption DEF LedgerAgrees, NoLedger
<1>4. RemembersNewest'
  BY <1>1, ServiceAssumption DEF RemembersNewest
<1>5. DeliveryBehind'
  BY <1>1 DEF DeliveryBehind, NoLedger
<1>6. NeverLost'
  BY <1>1 DEF IInv, NeverLost, Delivered
<1> QED BY <1>2, <1>3, <1>4, <1>5, <1>6 DEF IInv

LEMMA NextKeeps == IInv /\ [Next]_vars => IInv'
<1> SUFFICES ASSUME IInv, [Next]_vars PROVE IInv'
  OBVIOUS
<1>1. ASSUME NEW h \in Handlers, Handle(h) PROVE IInv'
  BY <1>1, BeforeTheCall, TheCall, TheRecord, TheName DEF Handle
<1>2. CASE Restart
  BY <1>2, TheRestart
<1>3. CASE UNCHANGED vars
  <2>1. /\ UNCHANGED <<at, cmd, delivered, title, acked, cuts, restarts>>
        /\ UNCHANGED ledger
        /\ Delivered' = Delivered
    BY <1>3 DEF vars, ledger, Delivered
  <2>2. TypeOK'
    BY <2>1 DEF IInv, TypeOK, ledger
  <2>3. DeliveryBehind' /\ NeverLost'
    BY <2>1 DEF IInv, DeliveryBehind, NeverLost, ledger
  <2> QED BY <2>1, <2>2, <2>3, LedgerUntouched DEF IInv
<1> QED BY <1>1, <1>2, <1>3 DEF Next

LEMMA Invariance == Spec => []IInv
  BY InitEstablishes, NextKeeps, PTL DEF Spec

-----------------------------------------------------------------------------

\* The variables of the ledger and of its handlers keep their types.
THEOREM TypeCorrect == Spec => []TypeOK
<1>1. IInv => TypeOK
  BY DEF IInv
<1> QED BY <1>1, Invariance, PTL

\* The ledger's list and its map always hold the same ids, whatever handlers
\* record at the same time (service.go:49-61).
THEOREM LedgerConsistent == Spec => []LedgerAgrees
<1>1. IInv => LedgerAgrees
  BY DEF IInv
<1> QED BY <1>1, Invariance, PTL

\* What the ledger holds is what was recorded last (service.go:49-61).
THEOREM OldestForgottenFirst == Spec => []RemembersNewest
<1>1. IInv => RemembersNewest
  BY DEF IInv
<1> QED BY <1>1, Invariance, PTL

\* The halves of the ledger agree, on the newest ids.
THEOREM LedgerIsSound == Spec => []LedgerSound
<1>1. LedgerAgrees /\ RemembersNewest => LedgerSound
  BY DEF LedgerSound
<1> QED BY <1>1, LedgerConsistent, OldestForgottenFirst, PTL

\* No prompt is answered as done, or names its thread, without having been given
\* to the agent with the payload it was sent with (service.go:308-331).
THEOREM AnsweredMeansDelivered == Spec => []NeverLost
<1>1. IInv => NeverLost
  BY DEF IInv
<1> QED BY <1>1, Invariance, PTL

-----------------------------------------------------------------------------
(* How often an id may run.                                                *)

\* The handlers that may still give the prompt i to the backend before the
\* ledger forgets it (again): while the ledger has it, those that looked before;
\* while it does not, all but the ones that did so and have yet to record it.
Able(i) == IF i \in DOMAIN digests
           THEN {h \in Handlers : at[h] = "call" /\ cmd[h].id = i}
           ELSE {h \in Handlers : ~(at[h] = "record" /\ cmd[h].id = i)}

\* What i ran, and may still run, is within what its reasons allow.
Allowed(i) == Cardinality(Handlers) * (1 + restarts + evicted[i]) + cuts
WithinReason == \A i \in Ids : Times(i) + Cardinality(Able(i)) <= Allowed(i)

LEMMA AbleFinite ==
    ASSUME NEW i
    PROVE  IsFiniteSet(Able(i)) /\ Cardinality(Able(i)) \in Nat
           /\ Cardinality(Able(i)) <= Cardinality(Handlers)
<1>1. Able(i) \in SUBSET Handlers
  BY DEF Able
<1> QED BY <1>1, ServiceAssumption, FS_Subset, FS_CardinalityType

\* One delivery counts for its own id, once.
LEMMA OneMore ==
    ASSUME delivered \in Seq(Prompts), NEW p \in Prompts, delivered' = Append(delivered, p),
           NEW i \in Ids
    PROVE  /\ Times(i) \in Nat
           /\ Times(i)' = IF p.id = i THEN Times(i) + 1 ELSE Times(i)
<1> DEFINE n == Len(delivered)
           K == {k \in 1..n : delivered[k].id = i}
           L == {k \in 1..Len(delivered') : delivered'[k].id = i}
<1>1. n \in Nat /\ Len(delivered') = n + 1
  OBVIOUS
<1>2. delivered'[n + 1] = p /\ \A k \in 1..n : delivered'[k] = delivered[k]
  OBVIOUS
<1>3. IsFiniteSet(K) /\ Cardinality(K) \in Nat
  <2>1. IsFiniteSet(1..n) /\ K \in SUBSET (1..n)
    BY <1>1, FS_Interval
  <2> QED BY <2>1, FS_Subset, FS_CardinalityType
<1>4. 1..Len(delivered') = (1..n) \union {n + 1} /\ n + 1 \notin K
  BY <1>1
<1>5. L = IF p.id = i THEN K \union {n + 1} ELSE K
  BY <1>2, <1>4
<1>6. Cardinality(K \union {n + 1}) = Cardinality(K) + 1
  BY <1>3, <1>4, FS_AddElement
<1>7. Times(i) = Cardinality(K) /\ Times(i)' = Cardinality(L)
  BY DEF Times
<1> HIDE DEF K, L, n
<1> QED BY <1>3, <1>5, <1>6, <1>7

LEMMA TimesCounted ==
    ASSUME delivered \in Seq(Prompts), NEW i
    PROVE  Times(i) \in Nat
<1> DEFINE n == Len(delivered)
           K == {k \in 1..n : delivered[k].id = i}
<1>1. n \in Nat
  OBVIOUS
<1>2. IsFiniteSet(1..n) /\ K \in SUBSET (1..n)
  BY <1>1, FS_Interval
<1>3. Cardinality(K) \in Nat
  BY <1>2, FS_Subset, FS_CardinalityType
<1> QED BY <1>3 DEF Times

\* A handler more than is able is within what one more reason allows.
LEMMA OneReasonMore ==
    ASSUME NEW n \in Nat, NEW k \in Nat
    PROVE  n * (k + 1) = n * k + n
  OBVIOUS

\* Ways in which a step keeps an id within reason: nothing was delivered that
\* was not allowed for, or the step is itself a reason.
LEMMA StaysWithin ==
    ASSUME TypeOK, TypeOK', NEW i \in Ids,
           Times(i) + Cardinality(Able(i)) <= Allowed(i),
           UNCHANGED restarts, cuts' >= cuts, Times(i)' \in Nat,
           \/ /\ Able(i)' \subseteq Able(i)
              /\ Times(i)' - Times(i) <= cuts' - cuts
              /\ evicted'[i] = evicted[i]
           \/ /\ \E h \in Able(i) : Able(i)' \subseteq Able(i) \ {h}
              /\ Times(i)' = Times(i) + 1
              /\ evicted'[i] = evicted[i]
           \/ /\ Times(i)' = Times(i)
              /\ evicted'[i] = evicted[i] + 1
    PROVE  (Times(i) + Cardinality(Able(i)) <= Allowed(i))'
<1> DEFINE H == Cardinality(Handlers)
           a == Cardinality(Able(i))
           z == Cardinality(Able(i)')
<1>1. a \in Nat /\ a <= H /\ IsFiniteSet(Able(i))
  BY AbleFinite
<1>2. z \in Nat /\ z <= H
  <2>1. Able(i)' \in SUBSET Handlers
    BY DEF Able
  <2> QED BY <2>1, ServiceAssumption, FS_Subset, FS_CardinalityType
<1>3. /\ Times(i) \in Nat /\ H \in Nat
      /\ restarts \in Nat /\ evicted[i] \in Nat /\ cuts \in Nat /\ cuts' \in Nat
  BY TimesCounted, ServiceAssumption, FS_CardinalityType DEF TypeOK
<1>4. Allowed(i) = H * (1 + restarts + evicted[i]) + cuts
      /\ Allowed(i)' = H * (1 + restarts + evicted'[i]) + cuts'
  BY DEF Allowed
<1>5. H * (1 + restarts + evicted[i]) \in Nat
  BY <1>3
<1>6. CASE /\ Able(i)' \subseteq Able(i)
           /\ Times(i)' - Times(i) <= cuts' - cuts
           /\ evicted'[i] = evicted[i]
  <2>1. z <= a
    BY <1>1, <1>6, FS_Subset
  <2> HIDE DEF H, a, z
  <2> QED BY <1>1, <1>2, <1>3, <1>4, <1>5, <1>6, <2>1 DEF a, z
<1>7. CASE /\ \E h \in Able(i) : Able(i)' \subseteq Able(i) \ {h}
           /\ Times(i)' = Times(i) + 1
           /\ evicted'[i] = evicted[i]
  <2>1. PICK h \in Able(i) : Able(i)' \subseteq Able(i) \ {h}
    BY <1>7
  <2>2. IsFiniteSet(Able(i) \ {h}) /\ Cardinality(Able(i) \ {h}) = a - 1
    BY <1>1, FS_RemoveElement
  <2>3. z <= a - 1
    BY <2>1, <2>2, FS_Subset
  <2> HIDE DEF H, a, z
  <2> QED BY <1>1, <1>2, <1>3, <1>4, <1>5, <1>7, <2>3 DEF a, z
<1>8. CASE /\ Times(i)' = Times(i)
           /\ evicted'[i] = evicted[i] + 1
  <2> DEFINE k == 1 + restarts + evicted[i]
  <2>1. k \in Nat /\ 1 + restarts + evicted'[i] = k + 1
    BY <1>3, <1>8
  <2> HIDE DEF H, a, z, k
  <2>2. H * (k + 1) = H * k + H
    BY <1>3, <2>1, OneReasonMore
  <2>3. Allowed(i)' = H * (k + 1) + cuts' /\ Allowed(i) = H * k + cuts
    BY <1>4, <2>1 DEF k
  <2>4. H * k \in Nat
    BY <1>5 DEF k
  <2> QED BY <1>1, <1>2, <1>3, <1>8, <2>2, <2>3, <2>4 DEF a, z
<1> QED BY <1>6, <1>7, <1>8

\* Before the call nobody becomes able: to be at the call a handler looked, and
\* found the ledger without its id.
LEMMA BeforeTheCallAllows ==
    ASSUME IInv, WithinReason, NEW h \in Handlers,
           \/ \E p \in Prompts : Receive(h, p)
           \/ SeenUnknown(h) \/ SeenConflict(h) \/ SeenReplay(h)
           \/ BackendRefuses(h) \/ NameThread(h)
    PROVE  WithinReason'
<1>1. /\ UNCHANGED <<digests, delivered, evicted, cuts, restarts>>
      /\ \A g \in Handlers \ {h} : at'[g] = at[g] /\ cmd'[g] = cmd[g]
      /\ at[h] # "record" /\ at'[h] # "record"
      /\ at'[h] = "call" => cmd'[h] = cmd[h] /\ cmd[h].id \notin DOMAIN digests
  BY DEF IInv, TypeOK, Receive, SeenUnknown, SeenConflict, SeenReplay, BackendRefuses, NameThread,
         Goto, ledger
<1>2. TypeOK /\ TypeOK'
  BY BeforeTheCall, TheName DEF IInv
<1>3. ASSUME NEW i \in Ids PROVE (Times(i) + Cardinality(Able(i)) <= Allowed(i))'
  <2>1. Able(i)' \subseteq Able(i)
    BY <1>1 DEF Able
  <2>2. Times(i)' = Times(i) /\ Times(i) \in Nat
    BY <1>1, <1>2, TimesCounted DEF Times, TypeOK
  <2>3. evicted'[i] = evicted[i] /\ cuts' >= cuts /\ Times(i)' - Times(i) <= cuts' - cuts
    BY <1>1, <1>2, <2>2, ServiceAssumption DEF TypeOK
  <2> QED BY <1>1, <1>2, <2>1, <2>2, <2>3, StaysWithin DEF WithinReason
<1> QED BY <1>3 DEF WithinReason

\* The call is allowed for: by the one who makes it, or by its being cut.
LEMMA TheCallAllows ==
    ASSUME IInv, WithinReason, NEW h \in Handlers, BackendAccepts(h) \/ BackendCut(h)
    PROVE  WithinReason'
<1>1. /\ UNCHANGED <<digests, evicted, cmd, restarts>>
      /\ delivered' = Append(delivered, cmd[h])
      /\ cmd[h] \in Prompts /\ at[h] = "call"
      /\ \A g \in Handlers \ {h} : at'[g] = at[g]
      /\ \/ at'[h] = "record" /\ cuts' = cuts
         \/ at'[h] = "idle" /\ cuts' = cuts + 1
  BY DEF IInv, TypeOK, BackendAccepts, BackendCut, Goto, ledger
<1>2. TypeOK /\ TypeOK' /\ cuts \in Nat
  BY TheCall, ServiceAssumption DEF IInv, TypeOK
<1>3. ASSUME NEW i \in Ids PROVE (Times(i) + Cardinality(Able(i)) <= Allowed(i))'
  <2>1. Times(i) \in Nat /\ Times(i)' = IF cmd[h].id = i THEN Times(i) + 1 ELSE Times(i)
    BY <1>1, <1>2, OneMore DEF TypeOK
  <2>2. Able(i)' \subseteq Able(i)
    BY <1>1 DEF Able
  <2>3. evicted'[i] = evicted[i] /\ cuts' >= cuts /\ Times(i)' \in Nat
    BY <1>1, <1>2, <2>1
  <2>4. CASE cuts' = cuts + 1 \/ cmd[h].id # i
    <3>1. Times(i)' - Times(i) <= cuts' - cuts
      BY <1>1, <1>2, <2>1, <2>4
    <3> QED BY <1>1, <1>2, <1>3, <2>2, <2>3, <3>1, StaysWithin DEF WithinReason
  <2>5. CASE at'[h] = "record" /\ cmd[h].id = i
    <3>1. h \in Able(i) /\ Able(i)' \subseteq Able(i) \ {h}
      BY <1>1, <2>2, <2>5 DEF Able
    <3>2. Times(i)' = Times(i) + 1
      BY <2>1, <2>5
    <3> QED BY <1>1, <1>2, <1>3, <2>3, <3>1, <3>2, StaysWithin DEF WithinReason
  <2> QED BY <1>1, <2>4, <2>5
<1> QED BY <1>3 DEF WithinReason

\* Recording an id keeps those from running it who have not looked yet; the one
\* it drops has one reason more.
LEMMA TheRecordAllows ==
    ASSUME IInv, WithinReason, NEW h \in Handlers, Record(h)
    PROVE  WithinReason'
<1>1. /\ UNCHANGED <<cmd, delivered, cuts, restarts>>
      /\ at[h] = "record" /\ at' = [at EXCEPT ![h] = "name"] /\ at \in [Handlers -> HandlerSteps]
      /\ Remember(cmd[h]) /\ cmd[h].id \in Ids
  BY DEF IInv, TypeOK, Record, Goto, Prompts
<1>2. TypeOK /\ TypeOK'
  BY TheRecord DEF IInv
<1>3. cmd[h].id \in DOMAIN digests'
  BY <1>1 DEF Remember, ledger
<1>4. ASSUME NEW i \in Ids
      PROVE  \/ evicted'[i] = evicted[i] /\ (i \in DOMAIN digests => i \in DOMAIN digests')
             \/ evicted'[i] = evicted[i] + 1
  BY <1>1, <1>2 DEF Remember, ledger, TypeOK
<1>5. ASSUME NEW i \in Ids PROVE (Times(i) + Cardinality(Able(i)) <= Allowed(i))'
  <2>1. Times(i)' = Times(i) /\ Times(i) \in Nat
    BY <1>1, <1>2, TimesCounted DEF Times, TypeOK
  <2>2. cuts' >= cuts /\ Times(i)' - Times(i) <= cuts' - cuts
    BY <1>1, <1>2, <2>1, ServiceAssumption DEF TypeOK
  <2>3. CASE evicted'[i] = evicted[i] /\ (i \in DOMAIN digests => i \in DOMAIN digests')
    <3>1. Able(i)' \subseteq Able(i)
      BY <1>1, <1>3, <2>3 DEF Able
    <3> QED BY <1>1, <1>2, <2>1, <2>2, <2>3, <3>1, StaysWithin DEF WithinReason
  <2>4. CASE evicted'[i] = evicted[i] + 1
    BY <1>1, <1>2, <2>1, <2>2, <2>4, StaysWithin DEF WithinReason
  <2> QED BY <1>4, <2>3, <2>4
<1> QED BY <1>5 DEF WithinReason

LEMMA TheRestartAllows ==
    ASSUME IInv, WithinReason, Restart
    PROVE  WithinReason'
<1> SUFFICES ASSUME NEW i \in Ids PROVE (Times(i) + Cardinality(Able(i)) <= Allowed(i))'
  BY DEF WithinReason
<1> DEFINE H == Cardinality(Handlers)
           k == 1 + restarts + evicted[i]
           z == Cardinality(Able(i)')
<1>1. UNCHANGED <<delivered, evicted, cuts>> /\ restarts' = restarts + 1
  BY DEF Restart
<1>2. /\ Times(i) \in Nat /\ Times(i)' = Times(i)
      /\ H \in Nat /\ k \in Nat /\ cuts \in Nat
      /\ 1 + restarts' + evicted'[i] = k + 1
  <2>1. Times(i) \in Nat /\ Times(i)' = Times(i)
    BY <1>1, TimesCounted DEF IInv, TypeOK, Times
  <2>2. H \in Nat
    BY ServiceAssumption, FS_CardinalityType
  <2>3. restarts \in Nat /\ evicted[i] \in Nat /\ cuts \in Nat
    BY ServiceAssumption DEF IInv, TypeOK
  <2> QED BY <1>1, <2>1, <2>2, <2>3
<1>3. z \in Nat /\ z <= H
  <2>1. Able(i)' \in SUBSET Handlers
    BY DEF Able
  <2> QED BY <2>1, ServiceAssumption, FS_Subset, FS_CardinalityType
<1>4. Times(i) <= H * k + cuts
  <2>1. Times(i) + Cardinality(Able(i)) <= H * k + cuts /\ Cardinality(Able(i)) \in Nat
    BY AbleFinite DEF WithinReason, Allowed
  <2>2. H * k \in Nat
    BY <1>2
  <2> HIDE DEF H, k
  <2> QED BY <1>2, <2>1, <2>2
<1>5. Allowed(i)' = H * (k + 1) + cuts
  BY <1>1, <1>2 DEF Allowed
<1>6. (Times(i) + Cardinality(Able(i)) <= Allowed(i))' <=> Times(i)' + z <= Allowed(i)'
  OBVIOUS
<1> HIDE DEF H, k, z
<1>7. H * (k + 1) = H * k + H /\ H * k \in Nat
  BY <1>2, OneReasonMore
<1> QED BY <1>2, <1>3, <1>4, <1>5, <1>6, <1>7

LEMMA NobodyRanYet == Init => WithinReason
<1> SUFFICES ASSUME Init, NEW i \in Ids PROVE Times(i) + Cardinality(Able(i)) <= Allowed(i)
  BY DEF WithinReason
<1>1. restarts = 0 /\ evicted[i] = 0 /\ cuts = 0 /\ Len(delivered) = 0
  BY DEF Init
<1>2. Times(i) = 0
  <2>1. {k \in 1..Len(delivered) : delivered[k].id = i} = {}
    BY <1>1
  <2> QED BY <2>1, FS_EmptySet DEF Times
<1>3. Cardinality(Able(i)) \in Nat /\ Cardinality(Able(i)) <= Cardinality(Handlers)
      /\ Cardinality(Handlers) \in Nat
  BY AbleFinite, ServiceAssumption, FS_CardinalityType
<1>4. Allowed(i) = Cardinality(Handlers)
  BY <1>1, <1>3 DEF Allowed
<1> QED BY <1>2, <1>3, <1>4

LEMMA NextAllows == IInv /\ WithinReason /\ [Next]_vars => WithinReason'
<1> SUFFICES ASSUME IInv, WithinReason, [Next]_vars PROVE WithinReason'
  OBVIOUS
<1>1. ASSUME NEW h \in Handlers, Handle(h) PROVE WithinReason'
  BY <1>1, BeforeTheCallAllows, TheCallAllows, TheRecordAllows DEF Handle
<1>2. CASE Restart
  BY <1>2, TheRestartAllows
<1>3. CASE UNCHANGED vars
  BY <1>3 DEF vars, WithinReason, Times, Able, Allowed
<1> QED BY <1>1, <1>2, <1>3 DEF Next

\* An id runs no oftener than restarts, evictions, cuts and the handlers that had
\* it in flight together explain (service.go:309-331).
THEOREM DuplicatesAreExplained == Spec => []DuplicatesHaveReasons
<1>1. IInv /\ WithinReason => DuplicatesHaveReasons
  <2> SUFFICES ASSUME IInv, WithinReason, NEW i \in Ids PROVE Times(i) <= Allowed(i)
    BY DEF DuplicatesHaveReasons, Allowed
  <2>1. Times(i) \in Nat /\ Cardinality(Able(i)) \in Nat
    BY TimesCounted, AbleFinite DEF IInv, TypeOK
  <2>2. Allowed(i) \in Nat
    <3>1. Cardinality(Handlers) \in Nat
      BY ServiceAssumption, FS_CardinalityType
    <3>2. 1 + restarts + evicted[i] \in Nat /\ cuts \in Nat
      BY ServiceAssumption DEF IInv, TypeOK
    <3>3. \A n, k, c \in Nat : n * k + c \in Nat
      OBVIOUS
    <3> QED BY <3>1, <3>2, <3>3 DEF Allowed
  <2> QED BY <2>1, <2>2 DEF WithinReason
<1> QED BY <1>1, InitEstablishes, NobodyRanYet, NextKeeps, NextAllows, PTL DEF Spec

=============================================================================
