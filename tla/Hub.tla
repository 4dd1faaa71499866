-------------------------------- MODULE Hub --------------------------------
(***************************************************************************)
(* The event hub (backend/internal/chat/hub.go) together with the handlers *)
(* that drain it (backend/internal/server/sse.go).                         *)
(*                                                                         *)
(* Publish runs under the hub's mutex: it walks the subscriptions of the   *)
(* event's thread, and those of the directory stream when the event is a   *)
(* directory one, and hands each of them the event.  The handler of a      *)
(* subscription receives from its channel WITHOUT the mutex, so receives   *)
(* interleave with the walk; only Subscribe and unsubscribe wait for it.   *)
(*                                                                         *)
(* A channel is kept as the sequence of every frame ever sent on it and    *)
(* the number of frames received: the frames in the channel are the rest.  *)
(***************************************************************************)
EXTENDS Integers, Sequences, FiniteSets

CONSTANTS Subs,            \* the subscriptions that may ever be opened
          Threads,         \* the thread ids
          SubscriberQueue, \* the backlog bound, 4096 in the code
          MaxEvents        \* bound: how many events are published in a run

ASSUME HubAssumption == /\ SubscriberQueue \in Nat
                        /\ MaxEvents \in Nat
                        /\ "*" \notin Threads

\* The pseudo thread id of the directory stream.
GlobalStream == "*"

Topics == Threads \union {GlobalStream}

\* "fatal" stands for an error event with its fatal flag set; "plain" for every
\* event that neither ends a stream nor reaches the directory.
EventKinds == {"plain", "directory", "fatal"}

Events == [n : 1..MaxEvents, thread : Threads, kind : EventKinds]

\* Mistake: the frame is built as if it were the event.
OverflowFrameAsEvent(e) == [n |-> e.n, thread |-> e.thread, kind |-> "overflow"]

\* The frame that tells a client it fell behind.
OverflowFrame(e) == [n |-> 0, thread |-> e.thread, kind |-> "overflow"]

Frames == Events \union [n : {0}, thread : Threads, kind : {"overflow"}]

VARIABLES topic,      \* the stream each subscription asks for
          handler,    \* the SSE handler of each subscription
          registered, \* the hub's two maps: topic -> its subscriptions
          frames,     \* every frame sent on a subscription's channel
          received,   \* how many of them its handler has taken out
          closed,     \* subscription.closed, set with the close of the channel
          locked,     \* the mutex is held by a Publish
          event,      \* the event being published
          todo,       \* the subscriptions the walk has yet to reach
          behind,     \* the subscription whose overflow frame is being sent
          published,  \* how many events were published
          due         \* history: the events published to a subscription's
                      \* topic while it was registered

vars == <<topic, handler, registered, frames, received, closed, locked, event,
          todo, behind, published, due>>

HandlerStates == {"new", "reading", "leaving", "done"}

TypeOK ==
    /\ topic \in [Subs -> Topics]
    /\ handler \in [Subs -> HandlerStates]
    /\ registered \in [Topics -> SUBSET Subs]
    /\ frames \in [Subs -> Seq(Frames)]
    /\ received \in [Subs -> Nat]
    /\ closed \in [Subs -> BOOLEAN]
    /\ locked \in BOOLEAN
    /\ locked => event \in Events
    /\ todo \in SUBSET Subs
    /\ behind \in SUBSET Subs
    /\ published \in 0..MaxEvents
    /\ due \in [Subs -> Seq(Events)]

Init ==
    /\ topic \in [Subs -> Topics]
    /\ handler = [s \in Subs |-> "new"]
    /\ registered = [t \in Topics |-> {}]
    /\ frames = [s \in Subs |-> <<>>]
    /\ received = [s \in Subs |-> 0]
    /\ closed = [s \in Subs |-> FALSE]
    /\ locked = FALSE
    /\ event = [n |-> 0]
    /\ todo = {}
    /\ behind = {}
    /\ published = 0
    /\ due = [s \in Subs |-> <<>>]

-----------------------------------------------------------------------------
(* The channel of a subscription: one slot over the bound.                 *)

Capacity == SubscriberQueue + 1

Backlog(s) == Len(frames[s]) - received[s]

HasRoom(s) == Backlog(s) < Capacity

-----------------------------------------------------------------------------
(* Publish.                                                                *)

Targets(e) ==
    registered[e.thread]
        \union (IF e.kind = "directory" THEN registered[GlobalStream] ELSE {})

\* A goroutine publishes the next event: it takes the lock and begins the walk.
Publish(t, k) ==
    LET e == [n |-> published + 1, thread |-> t, kind |-> k] IN
    /\ ~locked
    /\ published < MaxEvents
    /\ locked' = TRUE
    /\ event' = e
    /\ todo' = Targets(e)
    /\ published' = published + 1
    /\ due' = [s \in Subs |-> IF s \in Targets(e) THEN Append(due[s], e) ELSE due[s]]
    /\ UNCHANGED <<topic, handler, registered, frames, received, closed, behind>>

\* deliverLocked on a subscription that was ended already: nothing to do.
DeliverClosed(s) ==
    /\ behind = {} /\ s \in todo
    /\ closed[s]
    /\ todo' = todo \ {s}
    /\ UNCHANGED <<topic, handler, registered, frames, received, closed, locked,
                   event, behind, published, due>>

\* Mistake: a subscription that was ended is sent to all the same.
DeliverSendToEnded(s) ==
    /\ behind = {} /\ s \in todo
    /\ HasRoom(s)
    /\ frames' = [frames EXCEPT ![s] = Append(@, event)]
    /\ todo' = todo \ {s}
    /\ UNCHANGED <<topic, handler, registered, received, closed, locked, event,
                   behind, published, due>>

\* The send of deliverLocked's select goes through.
DeliverSend(s) ==
    /\ behind = {} /\ s \in todo
    /\ ~closed[s]
    /\ HasRoom(s)
    /\ frames' = [frames EXCEPT ![s] = Append(@, event)]
    /\ todo' = todo \ {s}
    /\ UNCHANGED <<topic, handler, registered, received, closed, locked, event,
                   behind, published, due>>

\* Mistake: an event that does not fit is dropped, and the stream goes on.
DeliverFullDrops(s) ==
    /\ behind = {} /\ s \in todo
    /\ ~closed[s] /\ ~HasRoom(s)
    /\ todo' = todo \ {s}
    /\ UNCHANGED <<topic, handler, registered, frames, received, closed, locked,
                   event, behind, published, due>>

\* Mistake: the stream of a slow client is ended without a word.
DeliverFullCloses(s) ==
    /\ behind = {} /\ s \in todo
    /\ ~closed[s] /\ ~HasRoom(s)
    /\ closed' = [closed EXCEPT ![s] = TRUE]
    /\ todo' = todo \ {s}
    /\ UNCHANGED <<topic, handler, registered, frames, received, locked, event,
                   behind, published, due>>

\* The channel is full: the select takes its default branch, whose first
\* statement is a plain send, and the walk is at that send.
DeliverFull(s) ==
    /\ behind = {} /\ s \in todo
    /\ ~closed[s]
    /\ ~HasRoom(s)
    /\ behind' = {s}
    /\ UNCHANGED <<topic, handler, registered, frames, received, closed, locked,
                   event, todo, published, due>>

\* Mistake: the stream stays open after its overflow frame.
SendOverflowLeavesOpen(s) ==
    /\ s \in behind /\ HasRoom(s)
    /\ frames' = [frames EXCEPT ![s] = Append(@, OverflowFrame(event))]
    /\ behind' = {}
    /\ todo' = todo \ {s}
    /\ UNCHANGED <<topic, handler, registered, received, closed, locked, event,
                   published, due>>

\* The overflow frame is sent once the channel has room, and the stream ended.
SendOverflow(s) ==
    /\ s \in behind
    /\ HasRoom(s)
    /\ frames' = [frames EXCEPT ![s] = Append(@, OverflowFrame(event))]
    /\ closed' = [closed EXCEPT ![s] = TRUE]
    /\ behind' = {}
    /\ todo' = todo \ {s}
    /\ UNCHANGED <<topic, handler, registered, received, locked, event,
                   published, due>>

\* The walk is over and Publish returns.
PublishReturns ==
    /\ locked /\ todo = {}
    /\ locked' = FALSE
    /\ UNCHANGED <<topic, handler, registered, frames, received, closed, event,
                   todo, behind, published, due>>

-----------------------------------------------------------------------------
(* Subscribe, the handler's loop, and the unsubscribe it defers.           *)

Subscribe(s) ==
    /\ handler[s] = "new"
    /\ ~locked
    /\ registered' = [registered EXCEPT ![topic[s]] = @ \union {s}]
    /\ handler' = [handler EXCEPT ![s] = "reading"]
    /\ UNCHANGED <<topic, frames, received, closed, locked, event, todo, behind,
                   published, due>>

\* Mistake: the handler takes its frames under the hub's mutex.
ReceiveUnderLock(s) ==
    /\ handler[s] = "reading"
    /\ ~locked /\ Backlog(s) > 0
    /\ received' = [received EXCEPT ![s] = @ + 1]
    /\ handler' = [handler EXCEPT ![s] =
                     IF frames[s][received[s] + 1].kind \in {"fatal", "overflow"}
                     THEN "leaving" ELSE "reading"]
    /\ UNCHANGED <<topic, registered, frames, closed, locked, event, todo,
                   behind, published, due>>

\* A frame is received and written; a fatal one ends the handler.
Receive(s) ==
    /\ handler[s] = "reading"
    /\ Backlog(s) > 0
    /\ received' = [received EXCEPT ![s] = @ + 1]
    /\ handler' = [handler EXCEPT ![s] =
                     IF frames[s][received[s] + 1].kind \in {"fatal", "overflow"}
                     THEN "leaving" ELSE "reading"]
    /\ UNCHANGED <<topic, registered, frames, closed, locked, event, todo,
                   behind, published, due>>

\* The client is gone (the request's context is done, or a write fails).
ClientGone(s) ==
    /\ handler[s] = "reading"
    /\ handler' = [handler EXCEPT ![s] = "leaving"]
    /\ UNCHANGED <<topic, registered, frames, received, closed, locked, event,
                   todo, behind, published, due>>

\* Mistake: the handler that leaves is kept in the hub's map.
UnsubscribeKeeps(s) ==
    /\ handler[s] = "leaving"
    /\ ~locked
    /\ closed' = [closed EXCEPT ![s] = TRUE]
    /\ handler' = [handler EXCEPT ![s] = "done"]
    /\ UNCHANGED <<topic, registered, frames, received, locked, event, todo, behind,
                   published, due>>

\* The deferred unsubscribe: it needs the hub's mutex.
Unsubscribe(s) ==
    /\ handler[s] = "leaving"
    /\ ~locked
    /\ registered' = [registered EXCEPT ![topic[s]] = @ \ {s}]
    /\ closed' = [closed EXCEPT ![s] = TRUE]
    /\ handler' = [handler EXCEPT ![s] = "done"]
    /\ UNCHANGED <<topic, frames, received, locked, event, todo, behind,
                   published, due>>

-----------------------------------------------------------------------------

Walk == \/ \E s \in Subs : \/ DeliverClosed(s) \/ DeliverSend(s)
                           \/ DeliverFull(s) \/ SendOverflow(s)
        \/ PublishReturns

Handle(s) == Subscribe(s) \/ Receive(s) \/ ClientGone(s) \/ Unsubscribe(s)

Next == \/ \E t \in Threads, k \in EventKinds : Publish(t, k)
        \/ Walk
        \/ \E s \in Subs : Handle(s)

Spec == Init /\ [][Next]_vars

(* The goroutine inside Publish keeps running.  A handler that reads takes the
   next frame when there is one, and one that leaves returns through unsubscribe.
   Nothing makes an event happen or a client go.                             *)
FairSpec ==
    /\ Spec
    /\ WF_vars(Walk)
    /\ \A s \in Subs : WF_vars(Receive(s))
    /\ \A s \in Subs : WF_vars(Unsubscribe(s))

-----------------------------------------------------------------------------
(* Properties.                                                             *)

IsOverflow(f) == f.kind = "overflow"

\* What a subscription was sent is, frame by frame and in order, what was
\* published to its topic: nothing is skipped, repeated or reordered before the
\* overflow frame, and nothing follows that frame (hub.go, deliverLocked).
InOrder ==
    \A s \in Subs : \A i \in 1..Len(frames[s]) :
        IF IsOverflow(frames[s][i])
        THEN i = Len(frames[s]) /\ closed[s]
        ELSE i <= Len(due[s]) /\ frames[s][i] = due[s][i]

\* As long as a stream is open it is complete: every event published to it was
\* sent, but for the one event the walk in progress has yet to hand over.
Complete ==
    \A s \in Subs : ~closed[s] =>
        Len(due[s]) = Len(frames[s]) + (IF s \in todo THEN 1 ELSE 0)

\* A stream the hub ends while its handler still reads ends with the frame that
\* says why ("the client always learns why its stream stopped", hub.go:60-61).
LearnsWhy ==
    \A s \in Subs :
        closed[s] /\ handler[s] = "reading" =>
            /\ frames[s] # <<>>
            /\ IsOverflow(frames[s][Len(frames[s])])
            /\ Backlog(s) > 0

\* What a client is handed is its stream: in the order of publication, nothing
\* left out, and ended by the frame that says why (hub.go:46-76).
Delivery == InOrder /\ Complete /\ LearnsWhy

\* The backlog of a client never exceeds the channel.
Bounded == \A s \in Subs : Backlog(s) \in 0..Capacity

\* Nothing is sent on a channel after it was closed: in Go such a send panics.
NoSendAfterClose ==
    [][\A s \in Subs : closed[s] => frames'[s] = frames[s] /\ closed'[s]]_vars

\* The subscriptions the hub holds are those whose handler has not returned, so
\* a handler that left is neither delivered to nor kept.
RegistryMatchesHandlers ==
    \A t \in Topics : registered[t] =
        {s \in Subs : topic[s] = t /\ handler[s] \in {"reading", "leaving"}}

\* One client that falls behind does not hold the hub for as long as its handler
\* still reads: the walk gets past it, or its handler stops reading.
SlowClientPassed ==
    \A s \in Subs : s \in behind ~> (s \notin behind \/ handler[s] # "reading")

\* A client that falls behind "is dropped with one frame saying so" (hub.go:10):
\* Publish returns, whatever its subscribers do.
PublishAlwaysReturns == locked ~> ~locked

=============================================================================
