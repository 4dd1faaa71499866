----------------------------- MODULE Directory -----------------------------
(***************************************************************************)
(* The list of threads in one browser tab (frontend/src/store/workspace.ts)*)
(* over the registry: pages it fetches, rows in the answers to its own     *)
(* commands, and the rows and deletions published on the directory stream. *)
(*                                                                         *)
(* The list is a function from threads to the rows shown; its order is     *)
(* that of the keys and needs no state.  The stream hands over what was    *)
(* published while the tab was connected, in order (Hub).                  *)
(***************************************************************************)
EXTENDS Registry, Sequences

CONSTANTS Loads,    \* the requests of load() that may be in flight together
          PageSize, \* rows of a page, 50 in the code
          MaxOpens, \* bound: how often the stream is opened
          Budget    \* bound: operations and openings together

ASSUME DirectoryAssumption == /\ PageSize \in Nat \ {0}
                              /\ MaxOpens \in Nat
                              /\ Budget \in Nat
                              /\ "more" \notin Loads

VARIABLES list,   \* threads: the row shown, or NoSummary
          cursor, \* nextCursor, or NoKey
          error,  \* the last load failed, and the list is not shown
          fetch,  \* the list requests of the tab
          online, \* the directory stream is connected
          feed,   \* what the stream has yet to hand to the tab
          opens,  \* how often the stream was opened
          doubted \* history: threads the list may be wrong about, see Doubt

tabVars == <<list, cursor, error, fetch, online, feed, opens, doubted>>

vars == <<registryVars, tabVars>>

NoList == [t \in Threads |-> NoSummary]
Lists == [Threads -> Summaries]

\* ThreadKeyset: where a page ends.
Keys == [stamp : Nat, id : Threads \union {0}]
NoKey == [stamp |-> 0, id |-> 0]

\* loadMore has one request at a time (loadingMore), load any number.
More == "more"

\* recs holds the records of a page whose summaries are yet to be composed;
\* captured is the list loadMore had when it asked.
Fetches == [at : {"none", "sent", "read"}, from : Keys, recs : [Threads -> Rows],
            page : Lists, next : Keys, captured : Lists, still : SUBSET Threads]
NoFetch == [at |-> "none", from |-> NoKey, recs |-> [t \in Threads |-> NoRow],
            page |-> NoList, next |-> NoKey, captured |-> NoList, still |-> {}]
Sent == [NoFetch EXCEPT !.at = "sent"]

Opened == [type |-> "open", on |-> 0, row |-> NoSummary]
Updated(t, row) == [type |-> "thread_updated", on |-> t, row |-> row]
Deleted(t) == [type |-> "thread_deleted", on |-> t, row |-> NoSummary]

TypeOK ==
    /\ RegistryTypeOK
    /\ list \in Lists
    /\ cursor \in Keys
    /\ error \in BOOLEAN
    /\ fetch \in [Loads \union {More} -> Fetches]
    /\ online \in BOOLEAN
    /\ \A i \in DOMAIN feed : \/ feed[i] \in {Opened} \union {Deleted(t) : t \in Threads}
                              \/ /\ feed[i].on \in Threads
                                 /\ feed[i].row \in Summaries
                                 /\ feed[i] = Updated(feed[i].on, feed[i].row)
    /\ opens \in 0..MaxOpens
    /\ doubted \in SUBSET Threads

\* The workspace mounts: it loads, and asks for the stream.
Init ==
    /\ RegistryInit
    /\ list = NoList
    /\ cursor = NoKey
    /\ error = FALSE
    /\ \E l \in Loads : fetch = [f \in Loads \union {More} |-> IF f = l THEN Sent ELSE NoFetch]
    /\ online = FALSE
    /\ feed = <<>>
    /\ opens = 0
    /\ doubted = {}

-----------------------------------------------------------------------------
(* Doubt: why the list may differ from the table although all that was     *)
(* published was heard, or followed by a load.  Two causes, each a window  *)
(* the code leaves open:                                                   *)
(*   - two writers were at work on the thread: what was committed last is  *)
(*     not what was published, or answered, last;                          *)
(*   - what the list had was overwritten by one read, or captured, before. *)
(* A load that read the table while nobody was at work on the thread ends  *)
(* the doubt, unless it, or another list on its way, was overtaken.        *)

WritersOn(t) == {w \in Writers : job[w].on = t}

Raced == {t \in Threads : Cardinality(WritersOn(t)) > 1}

Unheard == {feed[i].on : i \in DOMAIN feed} \ {0}

Quiet == {t \in Threads : WritersOn(t) = {} /\ t \notin Unheard}

\* Lists that were read, or captured, and will replace the one shown.
InTheMaking == {f \in DOMAIN fetch : \/ fetch[f].at = "read"
                                 \/ (f = More /\ fetch[f].at = "sent")}

\* The threads that every list in the making has as they are.
Sure == {t \in Quiet : \A f \in InTheMaking : t \in fetch[f].still}

\* The threads a load on its way, other than l, may show as they were.
Outdated(l) == {t \in Threads : \E f \in InTheMaking \ {l, More} : t \notin fetch[f].still}

\* The news of t reached the list, or was missed: no list in the making has it.
Overtake(t) == [f \in DOMAIN fetch |-> [fetch[f] EXCEPT !.still = @ \ {t}]]

-----------------------------------------------------------------------------
(* The registry's steps, and what they publish.                            *)

Emit(t, e) ==
    /\ doubted' = doubted \union Raced'
    /\ IF online THEN feed' = Append(feed, e) /\ UNCHANGED fetch
                 ELSE fetch' = Overtake(t) /\ UNCHANGED feed

Work == /\ \E w \in Writers : InnerStep(w)
        /\ ops' > ops => ops' + opens <= Budget
        /\ doubted' = doubted \union Raced'
        /\ UNCHANGED <<list, cursor, error, fetch, online, feed, opens>>

EmitRow(w) == /\ PublishRow(w)
              /\ Emit(job[w].on, Updated(job[w].on, job[w].draft))
              /\ UNCHANGED <<list, cursor, error, online, opens>>

EmitDeleted(w) == /\ PublishDeleted(w)
                  /\ Emit(job[w].on, Deleted(job[w].on))
                  /\ UNCHANGED <<list, cursor, error, online, opens>>

\* What the tab hears of a thread is merged into its list by id.
Hear(t, row) ==
    /\ list' = [list EXCEPT ![t] = row]
    /\ fetch' = Overtake(t)
    /\ doubted' = doubted \union Raced' \union (IF InTheMaking = {} THEN {} ELSE {t})

\* The command was this tab's: create and rename merge the answer; remove,
\* which is answered without a row, takes the thread off the list.
AnswerHere(w) ==
    /\ Answer(w)
    /\ Hear(job[w].on, job[w].draft)
    /\ UNCHANGED <<cursor, error, online, feed, opens>>

\* It was another tab's, or the answer is lost.
AnswerElsewhere(w) ==
    /\ Answer(w)
    /\ doubted' = doubted \union Raced'
    /\ UNCHANGED <<list, cursor, error, fetch, online, feed, opens>>

-----------------------------------------------------------------------------
(* The stream.                                                             *)

\* The bounds leave an opening: the connection is lost only if it comes back.
MayOpen == opens < MaxOpens /\ opens + ops < Budget

\* EventSource connects: the handler subscribes before it answers, so the
\* open event comes ahead of everything published since.
Connect ==
    /\ ~online
    /\ MayOpen
    /\ online' = TRUE
    /\ opens' = opens + 1
    /\ feed' = <<Opened>>
    /\ UNCHANGED <<registryVars, list, cursor, error, fetch, doubted>>

\* The connection is lost with what was under way on it.
Disconnect ==
    /\ online
    /\ MayOpen
    /\ online' = FALSE
    /\ feed' = <<>>
    /\ fetch' = [f \in DOMAIN fetch |-> [fetch[f] EXCEPT !.still = @ \ Unheard]]
    /\ UNCHANGED <<registryVars, list, cursor, error, opens, doubted>>

\* Mistake: only the first connection loads the list.
TakeOpenOnce ==
    /\ feed # <<>>
    /\ Head(feed) = Opened
    /\ feed' = Tail(feed)
    /\ \E l \in Loads : /\ fetch[l].at = "none"
                        /\ fetch' = [fetch EXCEPT ![l] = IF opens = 1 THEN Sent ELSE NoFetch]
    /\ UNCHANGED <<registryVars, list, cursor, error, online, opens, doubted>>

\* onOpen: every connection loads the list again.
TakeOpen ==
    /\ feed # <<>>
    /\ Head(feed) = Opened
    /\ feed' = Tail(feed)
    /\ \E l \in Loads : /\ fetch[l].at = "none"
                        /\ fetch' = [fetch EXCEPT ![l] = Sent]
    /\ UNCHANGED <<registryVars, list, cursor, error, online, opens, doubted>>

\* onEvent: thread_updated merges the row, thread_deleted filters it out.
TakeEvent ==
    /\ feed # <<>>
    /\ Head(feed) # Opened
    /\ UNCHANGED registryVars
    /\ feed' = Tail(feed)
    /\ Hear(Head(feed).on, Head(feed).row)
    /\ UNCHANGED <<cursor, error, online, opens>>

-----------------------------------------------------------------------------
(* The pages.                                                              *)

Key(t) == [stamp |-> rows[t].stamp, id |-> t]

\* k belongs on a later page than c: the row-value comparison of the query.
Before(k, c) == \/ k.stamp < c.stamp
                \/ (k.stamp = c.stamp /\ k.id < c.id)

\* The rows a page may hold, and those it does: the newest of them.
Candidates(from) == {t \in Threads : Exists(t) /\ (from = NoKey \/ Before(Key(t), from))}
Page(from) == {t \in Candidates(from) :
                 Cardinality({u \in Candidates(from) : Before(Key(t), Key(u))}) < PageSize}

\* next_cursor: the key of the last row, when there are older ones.
NextKey(from) ==
    IF Page(from) = Candidates(from) THEN NoKey
    ELSE Key(CHOOSE t \in Page(from) : \A u \in Page(from) \ {t} : Before(Key(t), Key(u)))

\* The query of Page, on the one connection.
ReadPage(f) ==
    /\ fetch[f].at = "sent"
    /\ conn = 0
    /\ LET shown == Page(fetch[f].from) IN
       fetch' = [fetch EXCEPT ![f].at = "read",
                              ![f].recs = [t \in Threads |-> IF t \in shown THEN rows[t] ELSE NoRow],
                              ![f].next = NextKey(fetch[f].from),
                              ![f].still = Quiet]
    /\ UNCHANGED <<registryVars, list, cursor, error, online, feed, opens, doubted>>

\* Each record is composed after the query, with the run state of that moment.
ComposePage(f, t) ==
    /\ fetch[f].recs[t] # NoRow
    /\ conn = 0
    /\ fetch' = [fetch EXCEPT ![f].page[t] = Summary(t, fetch[f].recs[t]),
                              ![f].recs[t] = NoRow]
    /\ UNCHANGED <<registryVars, list, cursor, error, online, feed, opens, doubted>>

Arrived(f) == fetch[f].at = "read" /\ \A t \in Threads : fetch[f].recs[t] = NoRow

\* load: the page replaces the list.
LoadDone(l) ==
    /\ Arrived(l)
    /\ list' = fetch[l].page
    /\ cursor' = fetch[l].next
    /\ fetch' = [fetch EXCEPT ![l] = NoFetch]
    /\ doubted' = IF fetch[More].at = "none" THEN (doubted \ Sure) \union Outdated(l)
                                             ELSE Threads
    /\ error' = FALSE
    /\ UNCHANGED <<registryVars, online, feed, opens>>

\* loadMore asks for what comes after the cursor, unless it is asking already.
StartMore ==
    /\ cursor # NoKey
    /\ fetch[More].at = "none"
    /\ fetch' = [fetch EXCEPT ![More] = [Sent EXCEPT !.from = cursor, !.captured = list]]
    /\ UNCHANGED <<registryVars, list, cursor, error, online, feed, opens, doubted>>

\* The page is merged into the list loadMore had when it asked.
MoreDone ==
    /\ Arrived(More)
    /\ list' = [t \in Threads |-> IF fetch[More].page[t] # NoSummary THEN fetch[More].page[t]
                                  ELSE fetch[More].captured[t]]
    /\ cursor' = fetch[More].next
    /\ fetch' = [fetch EXCEPT ![More] = NoFetch]
    /\ UNCHANGED <<registryVars, error, online, feed, opens, doubted>>

\* A load fails: the list stays, behind the error.  What the server did for a
\* request changed nothing, so it may as well fail before it is served.
LoadFails(l) ==
    /\ fetch[l].at = "sent"
    /\ fetch' = [fetch EXCEPT ![l] = NoFetch]
    /\ error' = TRUE
    /\ doubted' = doubted \union Outdated(l)
    /\ UNCHANGED <<registryVars, list, cursor, online, feed, opens>>

\* A loadMore fails: loadingMore is reset.
MoreFails ==
    /\ fetch[More].at = "sent"
    /\ fetch' = [fetch EXCEPT ![More] = NoFetch]
    /\ UNCHANGED <<registryVars, list, cursor, error, online, feed, opens, doubted>>

Next ==
    \/ Work
    \/ \E w \in Writers : EmitRow(w) \/ EmitDeleted(w) \/ AnswerHere(w) \/ AnswerElsewhere(w)
    \/ Connect \/ Disconnect \/ TakeOpen \/ TakeEvent
    \/ \E f \in Loads \union {More} : ReadPage(f) \/ \E t \in Threads : ComposePage(f, t)
    \/ \E l \in Loads : LoadDone(l) \/ LoadFails(l)
    \/ StartMore \/ MoreDone \/ MoreFails

Spec == Init /\ [][Next]_vars

-----------------------------------------------------------------------------
(* Properties.                                                             *)

\* Nothing is under way between the tab and the registry, and the list is shown.
Settled ==
    /\ online
    /\ ~error
    /\ feed = <<>>
    /\ \A w \in Writers : At(w, "idle")
    /\ \A f \in DOMAIN fetch : fetch[f].at = "none"

\* What the tab may show of a thread: its row with its run state; nothing when
\* it was deleted; nothing yet when the next page has it.
Right(t) ==
    \/ list[t] = NoSummary /\ ~Exists(t)
    \/ Exists(t) /\ list[t] = Summary(t, rows[t])
    \/ list[t] = NoSummary /\ Exists(t) /\ cursor # NoKey /\ Before(Key(t), cursor)

\* Once everything has settled the list shows every thread right that is not
\* in doubt: no row is stale, no deleted thread is left, and none is missing
\* that a later page will not bring (merge, load, loadMore, the directory
\* stream and the publications of the registry).
RowsConverge == Settled => \A t \in Threads \ doubted : Right(t)

\* The same, of a tab whose list, pages and requests are of their types.
Converged == TypeOK /\ RowsConverge
=============================================================================
