------------------------------ MODULE ThreadStore ------------------------------
(***************************************************************************)
(* The thread one browser tab shows (frontend/src/store/thread.ts and      *)
(* transcript.ts): the event stream, which drops and reconnects; on every  *)
(* connection a resync, two requests whose answers are folded into the     *)
(* store together; pages of older history; prompts put on screen before    *)
(* they are sent; and the owner leaving the thread and coming back.  The   *)
(* server is what the other modules promise of it: it changes its state    *)
(* and publishes the event in one step.                                    *)
(***************************************************************************)
EXTENDS Naturals, Sequences, FiniteSets, SequencesExt

CONSTANTS Prompts,     \* the prompts this tab or another one sends
          MaxLog,      \* bound: entries of the transcript
          MaxAsks,     \* bound: interactions requested
          MaxFetches,  \* bound: resyncs and pages of older history
          MaxDrops,    \* bound: connections lost
          MaxWire,     \* bound: events on their way
          PageSize,    \* entries in a page of history
          SameId,      \* history names a prompt's message as the stream did
          None

ASSUME StoreAssumption ==
  /\ SameId \in BOOLEAN /\ PageSize \in Nat \ {0} /\ None \notin Prompts
  /\ MaxLog \in Nat /\ MaxAsks \in Nat /\ MaxFetches \in Nat /\ MaxDrops \in Nat

VARIABLES
  server,  \* the thread: transcript, pending, current turn, version of these
  wire,    \* the stream: connected, and the events on their way
  tab,     \* the store
  call,    \* the prompts under way
  fetch,   \* the requests under way
  h        \* drops, requests made, and mishaps

vars == <<server, wire, tab, call, fetch, h>>

Fetches == 1..MaxFetches
Asks == 1..MaxAsks
Local(x) == <<"prompt", x>>
Message(n) == <<"m", n>>
Entry(n, x) == [id |-> Message(n), x |-> x]
Blank == [id |-> "this", items |-> <<>>, seen |-> {}, pending |-> {}, turn |-> None,
          cursor |-> 0, loading |-> TRUE, prompting |-> FALSE]
NoFetch == [at |-> "none", older |-> FALSE, detail |-> <<>>, page |-> <<>>, before |-> 0,
            fresh |-> FALSE]

Init ==
  /\ server = [log |-> <<>>, pending |-> {}, asked |-> 0, turn |-> None,
               streams |-> FALSE, ver |-> 0]
  /\ wire = [open |-> FALSE, events |-> <<>>, ver |-> 0, synced |-> FALSE]
  /\ tab = [Blank EXCEPT !.id = "other"]
  /\ call = [x \in Prompts |-> "new"]
  /\ fetch = [r \in Fetches |-> NoFetch]
  /\ h = [drops |-> 0, fetches |-> 0, overtaken |-> FALSE, doubled |-> FALSE,
        crossed |-> FALSE]

-----------------------------------------------------------------------------
(* transcript.ts                                                           *)

Has(items, id) == \E i \in DOMAIN items : items[i].id = id
Item(id, x, streaming) == [id |-> id, x |-> x, streaming |-> streaming]
Settled(items) == [i \in DOMAIN items |-> [items[i] EXCEPT !.streaming = FALSE]]

localPrompt(t, x) ==
  [t EXCEPT !.items = Append(@, Item(Local(x), x, FALSE)), !.seen = @ \cup {Local(x)}]

Waits(items, x) == {i \in DOMAIN items : x # None /\ items[i].x = x}

\* Where the prompt waits for its echo: the last place, if there are several.
localEcho(items, x) == CHOOSE i \in Waits(items, x) : \A j \in Waits(items, x) : j <= i

\* The elements of s at the places K, in their order.
Picked(s, K) ==
  [j \in 1..Cardinality(K) |-> s[CHOOSE i \in K : Cardinality({k \in K : k <= i}) = j]]

\* Mistake: the prompt is taken off the screen when it was echoed meanwhile, too.
MistakeDropLocalPrompt(t, x) ==
  [t EXCEPT !.items = Picked(@, {i \in DOMAIN @ : @[i].id # Local(x)}),
            !.seen = @ \ {Local(x)}]

dropLocalPrompt(t, x) ==
  IF Waits(t.items, x) = {} THEN t
  ELSE [t EXCEPT !.items = RemoveAt(@, localEcho(@, x)), !.seen = @ \ {Local(x)}]

\* Mistake: the echo renames the item and leaves it waiting for one.
MistakeUserMessage(t, id, x) ==
  IF Waits(t.items, x) # {}
    THEN [t EXCEPT !.items[localEcho(t.items, x)].id = id, !.seen = @ \cup {id}]
  ELSE t

userMessage(t, id, x) ==
  IF Waits(t.items, x) # {}
    THEN [t EXCEPT !.items[localEcho(t.items, x)].x = None, !.seen = @ \cup {id}]
  ELSE IF id \in t.seen THEN t
  ELSE [t EXCEPT !.items = Append(@, Item(id, None, FALSE)), !.seen = @ \cup {id}]

Placed(items, id, streaming) ==
  IF Has(items, id) THEN [i \in DOMAIN items |->
                           IF items[i].id = id THEN Item(id, None, streaming) ELSE items[i]]
                    ELSE Append(items, Item(id, None, streaming))

assistantMessage(t, id) ==
  IF id \in t.seen /\ ~Has(t.items, id) THEN t
  ELSE [t EXCEPT !.items = Placed(@, id, FALSE), !.seen = @ \cup {id}]

textDelta(t, id) == [t EXCEPT !.items = Placed(@, id, TRUE)]

applyEvent(t, e) ==
  CASE e[1] = "user_message" -> userMessage(t, e[2], e[3])
    [] e[1] = "assistant_message" -> assistantMessage(t, e[2])
    [] e[1] = "text_delta" -> textDelta(t, e[2])
    [] e[1] = "turn_started" -> [t EXCEPT !.turn = e[2]]
    [] e[1] = "turn_finished" -> [t EXCEPT !.turn = None, !.items = Settled(@)]
    [] e[1] = "interaction_request" -> [t EXCEPT !.pending = @ \cup {e[2]}]
    [] e[1] = "interaction_resolved" -> [t EXCEPT !.pending = @ \ {e[2]}]

Fresh(t, entries) == Picked(entries, {i \in DOMAIN entries : entries[i].id \notin t.seen})
Shown(entries) == [i \in DOMAIN entries |-> Item(entries[i].id, None, FALSE)]

\* Mistake: what a page brought is not remembered.
MistakePrependHistory(t, entries) == [t EXCEPT !.items = Shown(Fresh(t, entries)) \o @]

\* Entries of a page not seen yet, in front of what is on screen.
prependHistory(t, entries) ==
  [t EXCEPT !.items = Shown(Fresh(t, entries)) \o @,
            !.seen = @ \cup {e.id : e \in ToSet(entries)}]

-----------------------------------------------------------------------------
(* The server (external)                                                   *)

\* A change of state, and its events to the stream if it is there to hear them.
Publish(s, events, live) ==
  /\ Len(wire.events) + Len(events) <= MaxWire
  /\ server' = [s EXCEPT !.ver = IF live THEN @ + 1 ELSE @]
  /\ wire' = IF wire.open THEN [wire EXCEPT !.events = @ \o events] ELSE wire
  /\ UNCHANGED <<tab, fetch, h>>

ServerTakes(x) ==
  LET n == Len(server.log) + 1
      e == Entry(n, x)
  IN
  /\ call[x] \in {"new", "sent", "cut"} /\ server.turn = None /\ n <= MaxLog
  /\ call' = [call EXCEPT ![x] = IF @ = "sent" THEN "taken" ELSE "returned"]
  /\ Publish([server EXCEPT !.log = Append(@, e), !.turn = x],
             <<<<"turn_started", x>>,
               <<"user_message", IF SameId THEN e.id ELSE Local(x), x>>>>, TRUE)

ServerRefuses(x) ==
  /\ call[x] = "sent" /\ call' = [call EXCEPT ![x] = "refused"]
  /\ UNCHANGED <<server, wire, tab, fetch, h>>

ServerStreams ==
  LET id == Message(Len(server.log) + 1) IN
  /\ server.turn # None /\ ~server.streams /\ Len(server.log) < MaxLog
  /\ Publish([server EXCEPT !.streams = TRUE], <<<<"text_delta", id>>>>, FALSE) /\ UNCHANGED call

ServerSettles ==
  LET e == Entry(Len(server.log) + 1, None) IN
  /\ server.turn # None /\ Len(server.log) < MaxLog
  /\ Publish([server EXCEPT !.log = Append(@, e), !.streams = FALSE],
             <<<<"assistant_message", e.id>>>>, FALSE)
  /\ UNCHANGED call

ServerAsks ==
  LET n == server.asked + 1 IN
  /\ server.turn # None /\ n \in Asks
  /\ Publish([server EXCEPT !.asked = n, !.pending = @ \cup {n}],
             <<<<"interaction_request", n>>>>, TRUE) /\ UNCHANGED call

ServerResolves(n) ==
  /\ n \in server.pending
  /\ Publish([server EXCEPT !.pending = @ \ {n}], <<<<"interaction_resolved", n>>>>, TRUE)
  /\ UNCHANGED call

ServerFinishes ==
  /\ server.turn # None /\ server.pending = {} /\ ~server.streams
  /\ Publish([server EXCEPT !.turn = None], <<<<"turn_finished">>>>, TRUE) /\ UNCHANGED call

-----------------------------------------------------------------------------
(* open, the stream and resync                                             *)

open ==
  /\ tab.id = "other" /\ tab' = Blank
  /\ UNCHANGED <<server, wire, call, fetch, h>>

Disconnected ==
  /\ wire' = [wire EXCEPT !.open = FALSE, !.events = <<>>]
  /\ fetch' = [r \in Fetches |-> [fetch[r] EXCEPT !.fresh = FALSE]]
  /\ h' = [h EXCEPT !.drops = @ + 1]

\* The function open returned: the stream closed, the id cleared; what the store
\* holds is replaced by the next open, of this thread or of another.
close ==
  /\ tab.id = "this" /\ h.drops < MaxDrops
  /\ tab' = [Blank EXCEPT !.id = "other"]
  /\ Disconnected
  /\ UNCHANGED <<server, call>>

FreeFetch(r) == fetch[r].at = "none" /\ \A q \in 1..(r - 1) : fetch[q].at # "none"

\* onOpen, on every connection: resync sends its two requests.
onOpen(r) ==
  /\ tab.id = "this" /\ ~wire.open /\ FreeFetch(r) /\ h.fetches < MaxFetches
  /\ wire' = [wire EXCEPT !.open = TRUE, !.ver = server.ver, !.synced = FALSE]
  /\ fetch' = [fetch EXCEPT ![r].at = "sent", ![r].fresh = TRUE]
  /\ h' = [h EXCEPT !.fetches = @ + 1]
  /\ UNCHANGED <<server, tab, call>>

StreamDrops ==
  /\ wire.open /\ h.drops < MaxDrops
  /\ Disconnected
  /\ UNCHANGED <<server, tab, call>>

IsLive(e) == e[1] \in {"turn_started", "turn_finished", "interaction_request",
                       "interaction_resolved"}

onEvent ==
  LET e == Head(wire.events) IN
  /\ wire.events # <<>> /\ tab' = applyEvent(tab, e)
  /\ wire' = [wire EXCEPT !.events = Tail(@), !.ver = IF IsLive(e) THEN @ + 1 ELSE @]
  /\ UNCHANGED <<server, call, fetch, h>>

\* The server reads its live state, and a page of its transcript.
ReadDetail(r) ==
  /\ fetch[r].at # "none" /\ ~fetch[r].older /\ fetch[r].detail = <<>>
  /\ fetch' = [fetch EXCEPT ![r].detail = <<server.pending, server.turn, server.ver>>]
  /\ UNCHANGED <<server, wire, tab, call, h>>

Page(last) == SubSeq(server.log, IF last > PageSize THEN last - PageSize + 1 ELSE 1, last)

ReadPage(r) ==
  LET last == IF fetch[r].older THEN fetch[r].before ELSE Len(server.log) IN
  /\ fetch[r].at = "sent"
  /\ fetch' = [fetch EXCEPT ![r].at = "read", ![r].page = Page(last),
                 ![r].before = IF last > PageSize THEN last - PageSize ELSE 0]
  /\ UNCHANGED <<server, wire, tab, call, h>>

\* A page is taken while it repeats a message that streams, or a prompt that
\* waits for its echo.
Doubles(entries) ==
  \E e \in ToSet(entries) :
    \/ Has(tab.items, e.id) /\ e.id \notin tab.seen
    \/ e.x # None /\ e.id \notin tab.seen /\ Has(tab.items, Local(e.x))

Answered(r) == fetch[r].at = "read" /\ (fetch[r].older \/ fetch[r].detail # <<>>)
Done(r) == fetch' = [fetch EXCEPT ![r] = NoFetch]

\* The answer is taken, after a loss of the stream or, for an older page, after a
\* resync that moved the cursor it was asked with.
Crossed(r) == [h EXCEPT !.doubled = @ \/ Doubles(fetch[r].page), !.crossed = @ \/ ~fetch[r].fresh]
Overtaken(r) ==
  fetch' = [q \in Fetches |-> IF q = r THEN NoFetch
                               ELSE [fetch[q] EXCEPT !.fresh = @ /\ ~fetch[q].older]]

\* Mistake: the answer is taken for whatever thread is open.
MistakeResync(r) ==
  LET d == fetch[r].detail
      t == prependHistory(tab, fetch[r].page)
  IN
  /\ Answered(r) /\ ~fetch[r].older /\ Done(r)
  /\ tab' = [t EXCEPT !.pending = d[1], !.turn = d[2], !.cursor = fetch[r].before,
                      !.loading = FALSE]
  /\ UNCHANGED <<server, wire, call, h>>

\* Mistake: what the answer names is added to what is pending.
MistakeResyncAdds(r) ==
  LET d == fetch[r].detail
      t == prependHistory(tab, fetch[r].page)
  IN
  /\ Answered(r) /\ ~fetch[r].older /\ tab.id = "this" /\ Overtaken(r)
  /\ tab' = [t EXCEPT !.pending = @ \cup d[1], !.turn = d[2], !.cursor = fetch[r].before,
                      !.loading = FALSE]
  /\ h' = [Crossed(r) EXCEPT !.overtaken = @ \/ d[3] < wire.ver]
  /\ wire' = [wire EXCEPT !.synced = @ \/ fetch[r].fresh]
  /\ UNCHANGED <<server, call>>

resync(r) ==
  LET d == fetch[r].detail
      t == prependHistory(tab, fetch[r].page)
  IN
  /\ Answered(r) /\ ~fetch[r].older
  /\ IF tab.id = "this"
       THEN /\ tab' = [t EXCEPT !.pending = d[1], !.turn = d[2],
                                !.cursor = fetch[r].before, !.loading = FALSE]
            /\ h' = [Crossed(r) EXCEPT !.overtaken = @ \/ d[3] < wire.ver]
            /\ wire' = [wire EXCEPT !.synced = @ \/ fetch[r].fresh]
            /\ Overtaken(r)
       ELSE UNCHANGED <<tab, h, wire>> /\ Done(r)
  /\ UNCHANGED <<server, call>>

\* Mistake: only an answer ends the loading.
MistakeFetchFails(r) ==
  /\ fetch[r].at # "none" /\ Done(r)
  /\ UNCHANGED <<server, wire, tab, call, h>>

FetchFails(r) ==
  /\ fetch[r].at # "none" /\ Done(r)
  /\ tab' = IF tab.id = "this" /\ ~fetch[r].older THEN [tab EXCEPT !.loading = FALSE] ELSE tab
  /\ UNCHANGED <<server, wire, call, h>>

loadOlder(r) ==
  /\ tab.id = "this" /\ tab.cursor # 0 /\ FreeFetch(r) /\ h.fetches < MaxFetches
  /\ fetch' = [fetch EXCEPT ![r] = [NoFetch EXCEPT !.at = "sent", !.older = TRUE,
                                                   !.fresh = TRUE, !.before = tab.cursor]]
  /\ h' = [h EXCEPT !.fetches = @ + 1]
  /\ UNCHANGED <<server, wire, tab, call>>

OlderLoaded(r) ==
  /\ Answered(r) /\ fetch[r].older /\ Done(r)
  /\ IF tab.id = "this"
       THEN /\ tab' = [prependHistory(tab, fetch[r].page) EXCEPT !.cursor = fetch[r].before]
            /\ h' = Crossed(r)
       ELSE UNCHANGED <<tab, h>>
  /\ UNCHANGED <<server, wire, call>>

-----------------------------------------------------------------------------
(* prompt                                                                  *)

\* The composer is busy while a prompt is being sent and while a turn runs.
prompt(x) ==
  /\ tab.id = "this" /\ call[x] = "new" /\ ~tab.prompting /\ tab.turn = None
  /\ call' = [call EXCEPT ![x] = "sent"]
  /\ tab' = [localPrompt(tab, x) EXCEPT !.prompting = TRUE]
  /\ UNCHANGED <<server, wire, fetch, h>>

\* An answer that is cut reads as a refusal, and the prompt may still be taken.
PromptReturns(x, ok) ==
  /\ call[x] \in {"sent", "taken", "refused"} /\ (ok => call[x] = "taken")
  /\ call' = [call EXCEPT ![x] = IF @ = "sent" THEN "cut" ELSE "returned"]
  /\ tab' = IF tab.id # "this" THEN tab
            ELSE [IF ok THEN tab ELSE dropLocalPrompt(tab, x) EXCEPT !.prompting = FALSE]
  /\ UNCHANGED <<server, wire, fetch, h>>

-----------------------------------------------------------------------------
ServerStep ==
  \/ ServerStreams \/ ServerSettles \/ ServerAsks \/ ServerFinishes
  \/ \E n \in Asks : ServerResolves(n)

Next ==
  \/ \E x \in Prompts : ServerTakes(x) \/ ServerRefuses(x) \/ prompt(x)
                         \/ \E ok \in BOOLEAN : PromptReturns(x, ok)
  \/ ServerStep \/ open \/ close \/ StreamDrops \/ onEvent
  \/ \E r \in Fetches : \/ onOpen(r) \/ ReadDetail(r) \/ ReadPage(r) \/ resync(r)
                        \/ FetchFails(r) \/ loadOlder(r) \/ OlderLoaded(r)

Spec == Init /\ [][Next]_vars

-----------------------------------------------------------------------------
TypeOK ==
  /\ tab.id \in {"this", "other"} /\ tab.pending \subseteq Asks
  /\ tab.turn \in Prompts \cup {None} /\ tab.cursor \in 0..MaxLog
  /\ \A i \in DOMAIN tab.items : tab.items[i].x # None => tab.items[i].id = Local(tab.items[i].x)
  /\ h.drops <= MaxDrops /\ h.fetches <= MaxFetches

\* The tab has heard all there is: connected since a resync that was answered,
\* nothing on its way.
Quiet ==
  /\ tab.id = "this" /\ wire.open /\ wire.synced /\ wire.events = <<>>
  /\ \A r \in Fetches : fetch[r].at = "none"

\* What the owner is asked and the turn on screen are the server's, whatever
\* was lost with the stream, unless an event that changed them was handled
\* before the answer to a resync read earlier.
Converges ==
  Quiet /\ ~h.overtaken => tab.pending = server.pending /\ tab.turn = server.turn

Shows(items, e) ==
  {i \in DOMAIN items : items[i].id = e.id \/ (e.x # None /\ items[i].id = Local(e.x))}

\* Every entry of the transcript that a further page would not bring is on
\* screen, unless an answer crossed a loss of the stream or a resync.
NothingMissing ==
  Quiet /\ ~h.crossed => \A n \in (tab.cursor + 1)..Len(server.log) : Shows(tab.items, server.log[n]) # {}

\* No entry is on screen twice, however the stream, the resyncs, the older pages
\* and the owner's own copy of a prompt meet.
NoDoubles ==
  SameId /\ ~h.doubled =>
    \A n \in DOMAIN server.log : Cardinality(Shows(tab.items, server.log[n])) <= 1

\* Nothing of this thread is put in a store that shows another.
NotAnothers == tab.id = "other" => tab.items = <<>> /\ tab.pending = {} /\ tab.turn = None

\* The tab does not load for ever: while it does, a resync is under way, or the
\* stream is not connected and the next connection brings one.
LoadingEnds ==
  tab.id = "this" /\ tab.loading =>
    ~wire.open \/ \E r \in Fetches : fetch[r].at # "none" /\ ~fetch[r].older

\* Types, and nothing of one thread in the store of another.
StoreSound == TypeOK /\ NotAnothers

\* What the server has is on screen, each entry once.
EachOnce == NothingMissing /\ NoDoubles

\* "Events that arrive before the fetches can only be duplicates ... The other
\* order loses whatever lands in the gap -- which is exactly where a permission
\* prompt would be": a tab that has heard all there is shows every permission
\* the server waits for.
NoPermissionPromptIsLost == Quiet => server.pending \subseteq tab.pending
================================================================================
