-------------------------- MODULE TransportProofs --------------------------
(***************************************************************************)
(* The safety properties of the two transports.  Of Hub, which takes the   *)
(* events to the browsers: for any sets of threads and subscriptions and   *)
(* any backlog bound.  Of ControlChannel, which takes the requests to a    *)
(* subprocess: for any set of requests.                                    *)
(***************************************************************************)
EXTENDS Hub, ControlChannel, TLAPS

\* The walk: only its lock's holder has one, the overflow send is for one open
\* subscription of the walk.
WalkOK ==
    /\ ~locked => todo = {}
    /\ behind \subseteq todo
    /\ \A s, t \in behind : s = t
    /\ \A s \in behind : ~closed[s]

\* A subscription the walk has yet to reach lacks exactly the event in hand.
TodoOK ==
    \A s \in todo : due[s] # <<>> /\ due[s][Len(due[s])] = event

\* A subscription not opened yet has no history.
NewOK ==
    \A s \in Subs : handler[s] = "new" =>
        due[s] = <<>> /\ frames[s] = <<>> /\ received[s] = 0 /\ ~closed[s]

IInv == /\ TypeOK
        /\ WalkOK
        /\ TodoOK
        /\ NewOK
        /\ InOrder
        /\ Complete
        /\ LearnsWhy
        /\ Bounded
        /\ RegistryMatchesHandlers

LEMMA AppendFacts ==
    ASSUME NEW S, NEW q \in Seq(S), NEW e \in S
    PROVE  /\ Append(q, e) \in Seq(S)
           /\ Append(q, e) # <<>>
           /\ Len(Append(q, e)) = Len(q) + 1
           /\ \A i \in 1..Len(q) : Append(q, e)[i] = q[i]
           /\ Append(q, e)[Len(q) + 1] = e
  OBVIOUS

LEMMA OverflowFacts ==
    ASSUME NEW e \in Events
    PROVE  /\ e \in Frames /\ ~IsOverflow(e)
           /\ OverflowFrame(e) \in Frames /\ IsOverflow(OverflowFrame(e))
  BY DEF Events, Frames, OverflowFrame, IsOverflow, EventKinds

LEMMA InitIInv == Init => IInv
<1> SUFFICES ASSUME Init PROVE IInv
  OBVIOUS
<1> USE HubAssumption DEF Init
<1>1. TypeOK
  <2>1. /\ frames \in [Subs -> Seq(Frames)]
        /\ due \in [Subs -> Seq(Events)]
    OBVIOUS
  <2>2. /\ registered \in [Topics -> SUBSET Subs]
        /\ handler \in [Subs -> HandlerStates]
    BY DEF HandlerStates
  <2>3. /\ received \in [Subs -> Nat]
        /\ closed \in [Subs -> BOOLEAN]
        /\ published \in 0..MaxEvents
    OBVIOUS
  <2> QED BY <2>1, <2>2, <2>3 DEF TypeOK
<1>2. WalkOK /\ TodoOK /\ NewOK
  BY DEF WalkOK, TodoOK, NewOK
<1>3. InOrder /\ Complete /\ LearnsWhy /\ RegistryMatchesHandlers
  BY DEF InOrder, Complete, LearnsWhy, RegistryMatchesHandlers, IsOverflow
<1>4. Bounded
  BY DEF Bounded, Backlog, Capacity
<1> QED BY <1>1, <1>2, <1>3, <1>4 DEF IInv

-----------------------------------------------------------------------------
(* One lemma per step of the walk ...                                      *)

LEMMA PublishIInv ==
    ASSUME IInv, NEW t \in Threads, NEW k \in EventKinds, Publish(t, k)
    PROVE  IInv'
<1> DEFINE e == [n |-> published + 1, thread |-> t, kind |-> k]
<1>0. e \in Events
  BY HubAssumption DEF Publish, IInv, TypeOK, Events
<1>x. /\ Targets(e) \subseteq Subs
      /\ \A s \in Targets(e) : handler[s] # "new"
  <2>1. t \in Topics /\ GlobalStream \in Topics
    BY DEF Topics
  <2>2. \A u \in Topics : /\ registered[u] \subseteq Subs
                          /\ \A s \in registered[u] : handler[s] # "new"
    BY DEF IInv, TypeOK, RegistryMatchesHandlers
  <2>3. Targets(e) \subseteq registered[t] \union registered[GlobalStream]
    BY DEF Targets
  <2> QED BY <2>1, <2>2, <2>3
<1>a. /\ due' = [s \in Subs |-> IF s \in Targets(e) THEN Append(due[s], e) ELSE due[s]]
      /\ event' = e /\ todo' = Targets(e) /\ todo = {} /\ behind = {}
      /\ locked' = TRUE /\ published' = published + 1 /\ published < MaxEvents
      /\ UNCHANGED <<topic, handler, registered, frames, received, closed, behind>>
  BY DEF Publish, IInv, WalkOK, TypeOK
<1>b. \A s \in Targets(e) : /\ Append(due[s], e) \in Seq(Events)
                            /\ Append(due[s], e) # <<>>
                            /\ Len(Append(due[s], e)) = Len(due[s]) + 1
                            /\ \A i \in 1..Len(due[s]) : Append(due[s], e)[i] = due[s][i]
                            /\ Append(due[s], e)[Len(due[s]) + 1] = e
  <2> TAKE s \in Targets(e)
  <2>1. due[s] \in Seq(Events)
    BY <1>x DEF IInv, TypeOK
  <2> HIDE DEF e
  <2> QED BY <1>0, <2>1, AppendFacts
<1> HIDE DEF e
<1>1. TypeOK'
  BY <1>0, <1>x, <1>a, <1>b, HubAssumption DEF IInv, TypeOK
<1>2. WalkOK' /\ TodoOK' /\ NewOK'
  BY <1>0, <1>x, <1>a, <1>b DEF IInv, TypeOK, WalkOK, TodoOK, NewOK
<1>3. InOrder'
  BY <1>0, <1>x, <1>a, <1>b DEF IInv, TypeOK, InOrder
<1>4. Complete'
  BY <1>0, <1>x, <1>a, <1>b DEF IInv, TypeOK, Complete
<1>5. LearnsWhy' /\ Bounded' /\ RegistryMatchesHandlers'
  BY <1>a DEF IInv, LearnsWhy, Bounded, Backlog, RegistryMatchesHandlers
<1> QED BY <1>1, <1>2, <1>3, <1>4, <1>5 DEF IInv

LEMMA DeliverSendIInv ==
    ASSUME IInv, NEW s \in Subs, DeliverSend(s)
    PROVE  IInv'
<1>a. /\ s \in todo /\ ~closed[s] /\ behind = {} /\ HasRoom(s) /\ locked
      /\ frames' = [frames EXCEPT ![s] = Append(frames[s], event)]
      /\ todo' = todo \ {s}
      /\ UNCHANGED <<topic, handler, registered, received, closed, locked,
                     event, behind, published, due>>
  BY DEF DeliverSend, IInv, WalkOK
<1>0. event \in Events /\ event \in Frames /\ ~IsOverflow(event)
  BY <1>a, OverflowFacts DEF IInv, TypeOK
<1>b. /\ Append(frames[s], event) \in Seq(Frames)
      /\ Append(frames[s], event) # <<>>
      /\ Len(Append(frames[s], event)) = Len(frames[s]) + 1
      /\ \A i \in 1..Len(frames[s]) : Append(frames[s], event)[i] = frames[s][i]
      /\ Append(frames[s], event)[Len(frames[s]) + 1] = event
  <2>1. frames[s] \in Seq(Frames)
    BY DEF IInv, TypeOK
  <2> QED BY <1>0, <2>1, AppendFacts
<1>c. Len(due[s]) = Len(frames[s]) + 1 /\ due[s][Len(due[s])] = event
  BY <1>a DEF IInv, Complete, TodoOK
<1>d. Len(frames[s]) \in Nat /\ \A i \in 1..Len(frames[s]) : ~IsOverflow(frames[s][i])
  BY <1>a DEF IInv, TypeOK, InOrder
<1>1. TypeOK'
  BY <1>a, <1>b DEF IInv, TypeOK
<1>2. WalkOK' /\ TodoOK'
  BY <1>a DEF IInv, TypeOK, WalkOK, TodoOK
<1>3. NewOK'
  BY <1>a, <1>c DEF IInv, TypeOK, NewOK
<1>4. InOrder'
  <2> SUFFICES ASSUME NEW r \in Subs, NEW i \in 1..Len(frames'[r])
               PROVE  IF IsOverflow(frames'[r][i])
                      THEN i = Len(frames'[r]) /\ closed[r]
                      ELSE i <= Len(due[r]) /\ frames'[r][i] = due[r][i]
    BY <1>a DEF InOrder
  <2>1. CASE r # s
    BY <2>1, <1>a DEF IInv, TypeOK, InOrder
  <2>2. CASE r = s /\ i \in 1..Len(frames[s])
    BY <2>2, <1>a, <1>b, <1>d DEF IInv, TypeOK, InOrder
  <2>3. CASE r = s /\ i = Len(frames[s]) + 1
    BY <2>3, <1>a, <1>b, <1>c, <1>0 DEF IInv, TypeOK
  <2> QED BY <2>1, <2>2, <2>3, <1>a, <1>b, <1>d DEF IInv, TypeOK
<1>5. Complete'
  <2>1. ASSUME NEW r \in Subs, ~closed[r], r # s
        PROVE  Len(due[r]) = Len(frames'[r]) + (IF r \in todo' THEN 1 ELSE 0)
    BY <2>1, <1>a DEF IInv, TypeOK, Complete
  <2>2. Len(due[s]) = Len(frames'[s]) + 0 /\ s \notin todo'
    BY <1>a, <1>b, <1>c, <1>d DEF IInv, TypeOK
  <2> QED BY <2>1, <2>2, <1>a DEF Complete
<1>6. LearnsWhy'
  BY <1>a DEF IInv, TypeOK, LearnsWhy, Backlog
<1>7. Bounded'
  BY <1>a, <1>b, <1>d, HubAssumption DEF IInv, TypeOK, Bounded, Backlog, HasRoom, Capacity
<1>8. RegistryMatchesHandlers'
  BY <1>a DEF IInv, RegistryMatchesHandlers
<1> QED BY <1>1, <1>2, <1>3, <1>4, <1>5, <1>6, <1>7, <1>8 DEF IInv

LEMMA SendOverflowIInv ==
    ASSUME IInv, NEW s \in Subs, SendOverflow(s)
    PROVE  IInv'
<1> DEFINE f == OverflowFrame(event)
<1>a. /\ s \in behind /\ s \in todo /\ behind = {s} /\ ~closed[s] /\ HasRoom(s)
      /\ locked
      /\ frames' = [frames EXCEPT ![s] = Append(frames[s], f)]
      /\ closed' = [closed EXCEPT ![s] = TRUE]
      /\ behind' = {} /\ todo' = todo \ {s}
      /\ UNCHANGED <<topic, handler, registered, received, locked, event,
                     published, due>>
  BY DEF SendOverflow, IInv, WalkOK
<1>0. f \in Frames /\ IsOverflow(f)
  BY <1>a, OverflowFacts DEF IInv, TypeOK
<1> HIDE DEF f
<1>b. /\ Append(frames[s], f) \in Seq(Frames)
      /\ Append(frames[s], f) # <<>>
      /\ Len(Append(frames[s], f)) = Len(frames[s]) + 1
      /\ \A i \in 1..Len(frames[s]) : Append(frames[s], f)[i] = frames[s][i]
      /\ Append(frames[s], f)[Len(frames[s]) + 1] = f
  <2>1. frames[s] \in Seq(Frames)
    BY DEF IInv, TypeOK
  <2> QED BY <1>0, <2>1, AppendFacts
<1>d. Len(frames[s]) \in Nat /\ \A i \in 1..Len(frames[s]) : ~IsOverflow(frames[s][i])
  BY <1>a DEF IInv, TypeOK, InOrder
<1>1. TypeOK'
  BY <1>a, <1>b DEF IInv, TypeOK
<1>2. WalkOK' /\ TodoOK'
  BY <1>a DEF IInv, TypeOK, WalkOK, TodoOK
<1>c. due[s] # <<>>
  BY <1>a DEF IInv, TodoOK
<1>3. NewOK'
  BY <1>a, <1>c DEF IInv, TypeOK, NewOK
<1>4. InOrder'
  <2> SUFFICES ASSUME NEW r \in Subs, NEW i \in 1..Len(frames'[r])
               PROVE  IF IsOverflow(frames'[r][i])
                      THEN i = Len(frames'[r]) /\ closed'[r]
                      ELSE i <= Len(due[r]) /\ frames'[r][i] = due[r][i]
    BY <1>a DEF InOrder
  <2>1. CASE r # s
    BY <2>1, <1>a DEF IInv, TypeOK, InOrder
  <2>2. CASE r = s /\ i \in 1..Len(frames[s])
    BY <2>2, <1>a, <1>b, <1>d DEF IInv, TypeOK, InOrder
  <2>3. CASE r = s /\ i = Len(frames[s]) + 1
    BY <2>3, <1>a, <1>b, <1>0 DEF IInv, TypeOK
  <2> QED BY <2>1, <2>2, <2>3, <1>a, <1>b, <1>d DEF IInv, TypeOK
<1>5. Complete'
  BY <1>a DEF IInv, TypeOK, Complete
<1>6. LearnsWhy'
  <2>1. ASSUME NEW r \in Subs, closed'[r], handler[r] = "reading", r # s
        PROVE  /\ frames'[r] # <<>>
               /\ IsOverflow(frames'[r][Len(frames'[r])])
               /\ Len(frames'[r]) - received[r] > 0
    BY <2>1, <1>a DEF IInv, TypeOK, LearnsWhy, Backlog
  <2>2. /\ frames'[s] # <<>>
        /\ IsOverflow(frames'[s][Len(frames'[s])])
        /\ Len(frames'[s]) - received[s] > 0
    <3>1. Len(frames[s]) - received[s] >= 0 /\ received[s] \in Nat
      BY DEF IInv, TypeOK, Bounded, Backlog, Capacity
    <3> QED BY <3>1, <1>a, <1>b, <1>0, <1>d DEF IInv, TypeOK
  <2> QED BY <2>1, <2>2, <1>a DEF LearnsWhy, Backlog
<1>7. Bounded'
  BY <1>a, <1>b, <1>d, HubAssumption DEF IInv, TypeOK, Bounded, Backlog, HasRoom, Capacity
<1>8. RegistryMatchesHandlers'
  BY <1>a DEF IInv, RegistryMatchesHandlers
<1> QED BY <1>1, <1>2, <1>3, <1>4, <1>5, <1>6, <1>7, <1>8 DEF IInv

LEMMA WalkQuietIInv ==
    ASSUME IInv,
           \/ \E s \in Subs : DeliverClosed(s) \/ DeliverFull(s)
           \/ PublishReturns
    PROVE  IInv'
<1>a. /\ todo' \subseteq todo
      /\ \A s \in Subs : ~closed[s] => (s \in todo' <=> s \in todo)
      /\ UNCHANGED <<topic, handler, registered, frames, received, closed,
                     event, published, due>>
  BY DEF DeliverClosed, DeliverFull, PublishReturns
<1>1. TypeOK' /\ WalkOK'
  BY DEF DeliverClosed, DeliverFull, PublishReturns, IInv, TypeOK, WalkOK
<1>2. TodoOK' /\ NewOK' /\ InOrder' /\ LearnsWhy'
  BY <1>a DEF IInv, TodoOK, NewOK, InOrder, LearnsWhy, Backlog
<1>3. Complete'
  BY <1>a DEF IInv, Complete
<1>4. Bounded' /\ RegistryMatchesHandlers'
  BY <1>a DEF IInv, Bounded, Backlog, RegistryMatchesHandlers
<1> QED BY <1>1, <1>2, <1>3, <1>4 DEF IInv

-----------------------------------------------------------------------------
(* ... and one per step of a handler.                                      *)

LEMMA SubscribeIInv ==
    ASSUME IInv, NEW s \in Subs, Subscribe(s)
    PROVE  IInv'
<1>a. /\ handler[s] = "new" /\ ~locked /\ todo = {} /\ ~closed[s]
      /\ due[s] = <<>> /\ frames[s] = <<>> /\ topic[s] \in Topics
      /\ registered' = [registered EXCEPT ![topic[s]] = registered[topic[s]] \union {s}]
      /\ handler' = [handler EXCEPT ![s] = "reading"]
      /\ UNCHANGED <<topic, frames, received, closed, locked, event, todo,
                     behind, published, due>>
  BY DEF Subscribe, IInv, TypeOK, WalkOK, NewOK
<1>1. TypeOK'
  BY <1>a DEF IInv, TypeOK, HandlerStates
<1>2. WalkOK' /\ TodoOK' /\ NewOK'
  BY <1>a DEF IInv, TypeOK, WalkOK, TodoOK, NewOK
<1>3. InOrder' /\ Complete' /\ Bounded'
  BY <1>a DEF IInv, InOrder, Complete, Bounded, Backlog
<1>4. LearnsWhy'
  BY <1>a DEF IInv, TypeOK, LearnsWhy, Backlog
<1>5. RegistryMatchesHandlers'
  BY <1>a DEF IInv, TypeOK, RegistryMatchesHandlers
<1> QED BY <1>1, <1>2, <1>3, <1>4, <1>5 DEF IInv

LEMMA ReceiveIInv ==
    ASSUME IInv, NEW s \in Subs, Receive(s)
    PROVE  IInv'
<1> DEFINE f == frames[s][received[s] + 1]
<1>a. /\ handler[s] = "reading" /\ Backlog(s) > 0
      /\ received' = [received EXCEPT ![s] = received[s] + 1]
      /\ handler' = [handler EXCEPT ![s] =
                       IF f.kind \in {"fatal", "overflow"} THEN "leaving" ELSE "reading"]
      /\ UNCHANGED <<topic, registered, frames, closed, locked, event, todo,
                     behind, published, due>>
  BY DEF Receive
<1>b. received[s] \in Nat /\ Len(frames[s]) \in Nat /\ received[s] + 1 <= Len(frames[s])
  BY <1>a DEF IInv, TypeOK, Backlog
<1>1. TypeOK'
  BY <1>a, <1>b DEF IInv, TypeOK, HandlerStates
<1>2. WalkOK' /\ TodoOK' /\ NewOK'
  BY <1>a DEF IInv, TypeOK, WalkOK, TodoOK, NewOK
<1>3. InOrder' /\ Complete'
  BY <1>a DEF IInv, InOrder, Complete
<1>4. LearnsWhy'
  <2>1. ASSUME closed[s], handler'[s] = "reading"
        PROVE  received[s] + 1 < Len(frames[s])
    <3>1. ~IsOverflow(f)
      BY <2>1, <1>a DEF IsOverflow, IInv, TypeOK
    <3>2. IsOverflow(frames[s][Len(frames[s])])
      BY <2>1, <1>a DEF IInv, LearnsWhy
    <3> QED BY <3>1, <3>2, <1>b
  <2>2. ASSUME NEW r \in Subs, closed[r], handler'[r] = "reading"
        PROVE  /\ frames[r] # <<>>
               /\ IsOverflow(frames[r][Len(frames[r])])
               /\ Len(frames[r]) - received'[r] > 0
    <3>1. handler[r] = "reading"
      BY <2>2, <1>a DEF IInv, TypeOK
    <3>2. CASE r = s
      BY <3>1, <3>2, <2>1, <2>2, <1>a, <1>b DEF IInv, TypeOK, LearnsWhy
    <3>3. CASE r # s
      BY <3>1, <3>3, <2>2, <1>a DEF IInv, TypeOK, LearnsWhy, Backlog
    <3> QED BY <3>2, <3>3
  <2> QED BY <2>2, <1>a DEF LearnsWhy, Backlog
<1>5. Bounded'
  BY <1>a, <1>b, HubAssumption DEF IInv, TypeOK, Bounded, Backlog, Capacity
<1>6. RegistryMatchesHandlers'
  BY <1>a DEF IInv, TypeOK, RegistryMatchesHandlers
<1> QED BY <1>1, <1>2, <1>3, <1>4, <1>5, <1>6 DEF IInv

LEMMA ClientGoneIInv ==
    ASSUME IInv, NEW s \in Subs, ClientGone(s)
    PROVE  IInv'
  BY DEF IInv, TypeOK, WalkOK, TodoOK, NewOK, InOrder, Complete, LearnsWhy,
         Bounded, Backlog, RegistryMatchesHandlers, HandlerStates, ClientGone

LEMMA UnsubscribeIInv ==
    ASSUME IInv, NEW s \in Subs, Unsubscribe(s)
    PROVE  IInv'
<1>a. /\ handler[s] = "leaving" /\ ~locked /\ todo = {} /\ behind = {}
      /\ registered' = [registered EXCEPT ![topic[s]] = registered[topic[s]] \ {s}]
      /\ closed' = [closed EXCEPT ![s] = TRUE]
      /\ handler' = [handler EXCEPT ![s] = "done"]
      /\ UNCHANGED <<topic, frames, received, locked, event, todo, behind,
                     published, due>>
  BY DEF Unsubscribe, IInv, WalkOK
<1>1. TypeOK'
  BY <1>a DEF IInv, TypeOK, HandlerStates
<1>2. WalkOK' /\ TodoOK' /\ NewOK'
  BY <1>a DEF IInv, TypeOK, WalkOK, TodoOK, NewOK
<1>3. InOrder' /\ Complete' /\ Bounded'
  BY <1>a DEF IInv, TypeOK, InOrder, Complete, Bounded, Backlog
<1>4. LearnsWhy'
  BY <1>a DEF IInv, TypeOK, LearnsWhy, Backlog
<1>5. RegistryMatchesHandlers'
  BY <1>a DEF IInv, TypeOK, RegistryMatchesHandlers
<1> QED BY <1>1, <1>2, <1>3, <1>4, <1>5 DEF IInv

-----------------------------------------------------------------------------

LEMMA NextIInv == IInv /\ [Next]_vars => IInv'
<1> SUFFICES ASSUME IInv, [Next]_vars PROVE IInv'
  OBVIOUS
<1>1. ASSUME NEW t \in Threads, NEW k \in EventKinds, Publish(t, k) PROVE IInv'
  BY <1>1, PublishIInv
<1>2. CASE Walk
  BY <1>2, DeliverSendIInv, SendOverflowIInv, WalkQuietIInv DEF Walk
<1>3. ASSUME NEW s \in Subs, Handle(s) PROVE IInv'
  BY <1>3, SubscribeIInv, ReceiveIInv, ClientGoneIInv, UnsubscribeIInv DEF Handle
<1>4. CASE UNCHANGED vars
  BY <1>4 DEF vars, IInv, TypeOK, WalkOK, TodoOK, NewOK, InOrder, Complete,
              LearnsWhy, Bounded, Backlog, RegistryMatchesHandlers
<1> QED BY <1>1, <1>2, <1>3, <1>4 DEF Next

LEMMA Invariance == Spec => []IInv
  BY InitIInv, NextIInv, PTL DEF Spec

\* Type correctness of the hub's model.
THEOREM TypeCorrect == Spec => []TypeOK
<1>1. IInv => TypeOK  BY DEF IInv
<1> QED BY <1>1, Invariance, PTL

\* What a subscriber is sent is a prefix of what was published to its topic,
\* followed at most by the overflow frame (hub.go, Publish and deliverLocked).
THEOREM DeliveryInOrder == Spec => []InOrder
<1>1. IInv => InOrder  BY DEF IInv
<1> QED BY <1>1, Invariance, PTL

\* An open stream lacks nothing but the event the walk has in hand.
THEOREM DeliveryComplete == Spec => []Complete
<1>1. IInv => Complete  BY DEF IInv
<1> QED BY <1>1, Invariance, PTL

\* A stream the hub ended under a reading handler still holds the frame that
\* says why, and holds it last.
THEOREM ReaderLearnsWhy == Spec => []LearnsWhy
<1>1. IInv => LearnsWhy  BY DEF IInv
<1> QED BY <1>1, Invariance, PTL

\* What each client is handed is its stream: in order, whole, and ended by the
\* frame that says why.
THEOREM StreamDelivered == Spec => []Delivery
<1>1. InOrder /\ Complete /\ LearnsWhy => Delivery
  BY DEF Delivery
<1> QED BY <1>1, DeliveryInOrder, DeliveryComplete, ReaderLearnsWhy, PTL

\* The backlog of one client stays within its channel.
THEOREM BacklogBounded == Spec => []Bounded
<1>1. IInv => Bounded  BY DEF IInv
<1> QED BY <1>1, Invariance, PTL

\* The hub keeps exactly the subscriptions whose handler has not returned.
THEOREM NoStaleSubscription == Spec => []RegistryMatchesHandlers
<1>1. IInv => RegistryMatchesHandlers  BY DEF IInv
<1> QED BY <1>1, Invariance, PTL

\* No step sends on a channel that is closed, nor reopens it: deliverLocked and
\* unsubscribe cannot panic.
THEOREM ClosedStaysClosed == Spec => NoSendAfterClose
<1> DEFINE A == \A s \in Subs : closed[s] => frames'[s] = frames[s] /\ closed'[s]
<1>1. IInv /\ [Next]_vars => [A]_vars
  <2> SUFFICES ASSUME IInv, Next, NEW s \in Subs, closed[s]
               PROVE  frames'[s] = frames[s] /\ closed'[s]
    OBVIOUS
  <2>1. ASSUME NEW t \in Threads, NEW k \in EventKinds, Publish(t, k)
        PROVE  frames'[s] = frames[s] /\ closed'[s]
    BY <2>1 DEF Publish
  <2>2. CASE Walk
    BY <2>2 DEF Walk, DeliverClosed, DeliverSend, DeliverFull, SendOverflow,
                PublishReturns, IInv, TypeOK, WalkOK
  <2>3. ASSUME NEW r \in Subs, Handle(r)
        PROVE  frames'[s] = frames[s] /\ closed'[s]
    BY <2>3 DEF Handle, Subscribe, Receive, ClientGone, Unsubscribe, IInv, TypeOK
  <2> QED BY <2>1, <2>2, <2>3 DEF Next
<1> QED BY <1>1, Invariance, PTL DEF Spec, NoSendAfterClose

-----------------------------------------------------------------------------
(* ControlChannel.                                                         *)

\* A call that has not begun has no trace anywhere.
NewIsUntouched ==
    \A c \in Calls : call[c] = "new" => c \notin table /\ buffer[c] = {} /\ c \notin sent

\* A waiter is in one place only: in the table or, alone, in the read loop's hand; in
\* both cases its slot is free.
SlotsFree ==
    /\ answer # {} => reader = "resolving"
    /\ \A c, d \in answer : c = d
    /\ \A c \in answer : c \notin table /\ buffer[c] = {} /\ call[c] # "new"
    /\ \A c \in table : buffer[c] = {}

\* A caller on its way into the select is still known to somebody, or its answer
\* is there already.
CallersAreKnown ==
    \A c \in Calls : call[c] \in {"registered", "checked", "waiting"} =>
        c \in table \/ c \in answer \/ buffer[c] # {}

\* The order in which the read loop ends the process.
EndingOrder ==
    /\ reader \in {"reaped", "closing", "failing", "exiting", "ended"} => child = "dead"
    /\ reader \in {"closing", "failing", "exiting", "ended"} => processClosed
    /\ done => processClosed /\ child = "dead"
    /\ stopper = "stopped" => done

\* Whoever is in the table after failPending came too late to write a request.
LateCallersRefused ==
    reader \in {"exiting", "ended"} =>
        \A c \in table : call[c] \in {"registered", "withdrawing"}

ChannelInv == /\ ChannelTypeOK
              /\ NewIsUntouched
              /\ SlotsFree
              /\ CallersAreKnown
              /\ EndingOrder
              /\ LateCallersRefused

LEMMA InitChannelInv == ChannelInit => ChannelInv
  BY DEF ChannelInit, ChannelInv, ChannelTypeOK, NewIsUntouched, SlotsFree, CallersAreKnown,
         EndingOrder, LateCallersRefused, CallStates, Answers, ReaderStates,
         StopStates

LEMMA NextChannelInv == ChannelInv /\ [ChannelNext]_channelVars => ChannelInv'
<1> SUFFICES ASSUME ChannelInv, [ChannelNext]_channelVars PROVE ChannelInv'
  OBVIOUS
<1> USE DEF ChannelInv, ChannelTypeOK, NewIsUntouched, SlotsFree, CallersAreKnown,
            EndingOrder, LateCallersRefused, CallStates, Answers,
            ReaderStates, StopStates, callerVars,
            readerVars, childVars
<1>1. ASSUME NEW c \in Calls, Control(c) PROVE ChannelInv'
  <2>1. CASE Register(c)     BY <2>1 DEF Register
  <2>2. CASE CheckClosed(c)  BY <2>2 DEF CheckClosed
  <2>3. CASE Write(c)        BY <2>3 DEF Write
  <2>4. CASE TakeAnswer(c)   BY <2>4 DEF TakeAnswer
  <2>5. CASE ContextDone(c)  BY <2>5 DEF ContextDone
  <2>6. CASE TimerFires(c)   BY <2>6 DEF TimerFires
  <2>7. CASE Withdraw(c)     BY <2>7 DEF Withdraw
  <2> QED BY <1>1, <2>1, <2>2, <2>3, <2>4, <2>5, <2>6, <2>7 DEF Control
<1>2. CASE ReadLoop
  <2>1. ASSUME NEW c \in Calls, Resolve(c) PROVE ChannelInv'
    BY <2>1 DEF Resolve
  <2>2. ASSUME NEW c \in Calls, SendAnswer(c) PROVE ChannelInv'
    BY <2>2 DEF SendAnswer
  <2>3. CASE ScanEnds     BY <2>3 DEF ScanEnds
  <2>4. CASE WaitReturns  BY <2>4 DEF WaitReturns
  <2>5. CASE SetClosed    BY <2>5 DEF SetClosed
  <2>6. CASE CloseDone    BY <2>6 DEF CloseDone
  <2>7. CASE FailPending  BY <2>7 DEF FailPending
  <2>8. CASE OnExit       BY <2>8 DEF OnExit
  <2> QED BY <1>2, <2>1, <2>2, <2>3, <2>4, <2>5, <2>6, <2>7, <2>8 DEF ReadLoop
<1>3. CASE ChildExits   BY <1>3 DEF ChildExits
<1>4. CASE Stop         BY <1>4 DEF Stop
<1>5. CASE Kill         BY <1>5 DEF Kill
<1>6. CASE StopReturns  BY <1>6 DEF StopReturns
<1>7. CASE UNCHANGED channelVars  BY <1>7 DEF channelVars
<1> QED BY <1>1, <1>2, <1>3, <1>4, <1>5, <1>6, <1>7 DEF ChannelNext, StopWork

\* The inductive invariant holds in every reachable state.
LEMMA ChannelInvariance == ChannelSpec => []ChannelInv
  BY InitChannelInv, NextChannelInv, PTL DEF ChannelSpec

\* Type correctness of process.go's model, whatever calls are made.
THEOREM ChannelTyped == ChannelSpec => []ChannelTypeOK
<1>1. ChannelInv => ChannelTypeOK  BY DEF ChannelInv
<1> QED BY <1>1, ChannelInvariance, PTL

\* The read loop of process.go never blocks on a waiter's slot, so it always gets
\* to onExit: resolve and failPending between them send to a waiter only once.
THEOREM NeverBlocks == ChannelSpec => []ReaderNeverBlocks
<1>1. ChannelInv => ReaderNeverBlocks  BY DEF ChannelInv, ReaderNeverBlocks, SlotsFree
<1> QED BY <1>1, ChannelInvariance, PTL

\* After failPending (process.go:183-194) every caller still in its select has
\* its answer: registration, the closed flag and failPending leave no gap.
THEOREM NobodyLeft == ChannelSpec => []NobodyLeftWaiting
<1>1. ChannelInv => NobodyLeftWaiting
  BY DEF ChannelInv, NobodyLeftWaiting, CallersAreKnown, LateCallersRefused, SlotsFree
<1> QED BY <1>1, ChannelInvariance, PTL

\* When stop (process.go:269-277) has returned the subprocess is gone.
THEOREM StopMeansDead == ChannelSpec => []StoppedMeansDead
<1>1. ChannelInv => StoppedMeansDead  BY DEF ChannelInv, StoppedMeansDead, EndingOrder
<1> QED BY <1>1, ChannelInvariance, PTL
=============================================================================
