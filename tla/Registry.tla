------------------------------ MODULE Registry ------------------------------
(***************************************************************************)
(* The thread registry (backend/internal/chat/registry.go) and the         *)
(* operations that write to it: the thread handlers of chat/service.go and *)
(* the goroutines of the backends.                                         *)
(*                                                                         *)
(* Every statement uses the one connection of the database, so an action   *)
(* that reads or writes rows waits until no transaction holds it.  Between *)
(* its statements, and between a commit and the publication of the row,    *)
(* a writer can be overtaken by any other.                                 *)
(*                                                                         *)
(* What the owner or a backend writes into a row -- a title, options -- is *)
(* kept as the set of the edits the row has, each named by its stamp.      *)
(***************************************************************************)
EXTENDS Integers, FiniteSets

CONSTANTS Threads, \* thread ids, as numbers: the id breaks ties in the directory
          Writers, \* goroutines that work on the registry at the same time
          MaxOps   \* bound: operations begun in a run

ASSUME RegistryAssumption == /\ Threads \subseteq Nat \ {0}
                             /\ IsFiniteSet(Threads)
                             /\ IsFiniteSet(Writers)
                             /\ 0 \notin Writers
                             /\ MaxOps \in Nat

VARIABLES rows,    \* the table: the row of a thread, or NoRow
          used,    \* the ids that were given to a thread, deleted ones included
          clock,   \* the time; it does not run backwards
          running, \* the run state each backend holds
          conn,    \* the writer whose transaction holds the connection, or 0
          job,     \* what each writer is doing
          applied, \* history: the edits committed to each thread
          ops      \* how many operations were begun

registryVars == <<rows, used, clock, running, conn, job, applied, ops>>

\* ThreadRecord: when it was written last, and the edits it has.
Rows == [stamp : Nat, edits : SUBSET Nat]
NoRow == [stamp |-> 0, edits |-> {}]

\* ThreadSummary: the record and the run state composed into it.
Summaries == [row : Rows, run : BOOLEAN]
NoSummary == [row |-> NoRow, run |-> FALSE]

Steps == {"idle", "put", "save", "get", "compose", "publish", "require",
          "summary", "remove", "deleted", "answer"}

Ops == {"none", "create", "update", "state", "delete"}

Jobs == [at : Steps, op : Ops, on : Threads \union {0}, rec : Rows, draft : Summaries]
Idle == [at |-> "idle", op |-> "none", on |-> 0, rec |-> NoRow, draft |-> NoSummary]

RegistryTypeOK ==
    /\ rows \in [Threads -> Rows]
    /\ used \in SUBSET Threads
    /\ clock \in Nat
    /\ running \in [Threads -> BOOLEAN]
    /\ conn \in Writers \union {0}
    /\ job \in [Writers -> Jobs]
    /\ \A w \in Writers : job[w].at # "idle" => job[w].on \in Threads
    /\ applied \in [Threads -> SUBSET Nat]
    /\ ops \in 0..MaxOps

Exists(t) == rows[t] # NoRow

\* The server starts on a database that may hold threads, written in one and
\* the same instant; every backend is idle.
RegistryInit ==
    /\ rows \in [Threads -> {NoRow, [stamp |-> 1, edits |-> {}]}]
    /\ used = {t \in Threads : Exists(t)}
    /\ clock = 1
    /\ running = [t \in Threads |-> FALSE]
    /\ conn = 0
    /\ job = [w \in Writers |-> Idle]
    /\ applied = [t \in Threads |-> {}]
    /\ ops = 0

\* Stamps are fine enough to tell two writes of one thread apart, not always
\* those of two threads.
Stamps == {clock, clock + 1}

\* Composing a row asks the backend of the thread, which looks the thread up
\* again; one that is gone is idle.
Summary(t, rec) == [row |-> rec, run |-> Exists(t) /\ running[t]]

-----------------------------------------------------------------------------
(* The steps of an operation.                                              *)

At(w, step) == job[w].at = step

Begin(w, t, op, step, rec) ==
    /\ At(w, "idle")
    /\ ops < MaxOps
    /\ ops' = ops + 1
    /\ job' = [job EXCEPT ![w] = [Idle EXCEPT !.at = step, !.op = op, !.on = t, !.rec = rec]]

Goto(w, step) == job' = [job EXCEPT ![w].at = step]

Finish(w) == job' = [job EXCEPT ![w] = Idle]

\* CreateThread makes the record, stamped now, before it is written.
BeginCreate(w, t) ==
    /\ t \notin used
    /\ \E s \in Stamps : /\ Begin(w, t, "create", "put", [stamp |-> s, edits |-> {}])
                         /\ clock' = s
    /\ used' = used \union {t}
    /\ UNCHANGED <<rows, running, conn, applied>>

Put(w) ==
    /\ At(w, "put")
    /\ conn = 0
    /\ rows' = [rows EXCEPT ![job[w].on] = job[w].rec]
    /\ Goto(w, "compose")
    /\ UNCHANGED <<used, clock, running, conn, applied, ops>>

\* Mistake: the row is read before the transaction that writes it.
BeginUpdateOutside(w, t) ==
    /\ conn = 0
    /\ Exists(t)
    /\ Begin(w, t, "update", "save", rows[t])
    /\ UNCHANGED <<rows, used, clock, running, conn, applied>>

\* Update opens its transaction and reads the row; one that is gone is ignored.
BeginUpdate(w, t) ==
    /\ conn = 0
    /\ Exists(t)
    /\ Begin(w, t, "update", "save", rows[t])
    /\ conn' = w
    /\ UNCHANGED <<rows, used, clock, running, applied>>

Edited(rec, s) == [stamp |-> s, edits |-> rec.edits \union {s}]

\* Mistake: the row is published before the transaction commits.
SaveHolding(w) ==
    LET t == job[w].on IN
    /\ At(w, "save")
    /\ \E s \in Stamps : /\ s > job[w].rec.stamp
                         /\ clock' = s
                         /\ rows' = [rows EXCEPT ![t] = Edited(job[w].rec, s)]
                         /\ applied' = [applied EXCEPT ![t] = @ \union {s}]
                         /\ job' = [job EXCEPT ![w].at = "compose",
                                               ![w].rec = Edited(job[w].rec, s)]
    /\ UNCHANGED <<used, running, conn, ops>>

\* The transaction writes the row with the edit and commits.
Save(w) ==
    LET t == job[w].on IN
    /\ At(w, "save")
    /\ \E s \in Stamps : /\ s > job[w].rec.stamp
                         /\ clock' = s
                         /\ rows' = [rows EXCEPT ![t] = Edited(job[w].rec, s)]
                         /\ applied' = [applied EXCEPT ![t] = @ \union {s}]
                         /\ job' = [job EXCEPT ![w].at = "compose",
                                               ![w].rec = Edited(job[w].rec, s)]
    /\ conn' = 0
    /\ UNCHANGED <<used, running, ops>>

\* A backend changes the run state of a thread and reports it.
SetState(w, t) ==
    /\ Exists(t)
    /\ Begin(w, t, "state", "get", NoRow)
    /\ running' = [running EXCEPT ![t] = ~@]
    /\ UNCHANGED <<rows, used, clock, conn, applied>>

\* Republish reads the row, if it is still there.
Republish(w) ==
    /\ At(w, "get")
    /\ conn = 0
    /\ IF Exists(job[w].on)
       THEN job' = [job EXCEPT ![w].at = "compose", ![w].rec = rows[job[w].on]]
       ELSE Finish(w)
    /\ UNCHANGED <<rows, used, clock, running, conn, applied, ops>>

\* publishRow composes the row ...
Compose(w) ==
    /\ At(w, "compose")
    /\ conn = 0
    /\ job' = [job EXCEPT ![w].at = "publish", ![w].draft = Summary(job[w].on, job[w].rec)]
    /\ UNCHANGED <<rows, used, clock, running, conn, applied, ops>>

\* ... and hands it to the hub.  A creation or a rename then answers the tab
\* with the row; an update made by a backend or for another command does not.
PublishRow(w) ==
    /\ At(w, "publish")
    /\ \/ job[w].op = "create" /\ Goto(w, "summary")
       \/ job[w].op = "update" /\ Goto(w, "require")
       \/ job[w].op \in {"update", "state"} /\ Finish(w)
    /\ UNCHANGED <<rows, used, clock, running, conn, applied, ops>>

\* UpdateThread reads the row back for its answer, an error when it is gone.
Require(w) ==
    /\ At(w, "require")
    /\ conn = 0
    /\ IF Exists(job[w].on)
       THEN job' = [job EXCEPT ![w].at = "summary", ![w].rec = rows[job[w].on]]
       ELSE Finish(w)
    /\ UNCHANGED <<rows, used, clock, running, conn, applied, ops>>

\* The answer of a creation or a rename is composed once more.
Summarise(w) ==
    /\ At(w, "summary")
    /\ conn = 0
    /\ job' = [job EXCEPT ![w].at = "answer", ![w].draft = Summary(job[w].on, job[w].rec)]
    /\ UNCHANGED <<rows, used, clock, running, conn, applied, ops>>

\* The answer leaves.
Answer(w) ==
    /\ At(w, "answer")
    /\ Finish(w)
    /\ UNCHANGED <<rows, used, clock, running, conn, applied, ops>>

\* DeleteThread discards what the backend has of the thread.
BeginDelete(w, t) ==
    /\ Exists(t)
    /\ Begin(w, t, "delete", "remove", NoRow)
    /\ running' = [running EXCEPT ![t] = FALSE]
    /\ UNCHANGED <<rows, used, clock, conn, applied>>

\* Mistake: the deletion is not published.
RemoveSilently(w) ==
    /\ At(w, "remove")
    /\ conn = 0
    /\ rows' = [rows EXCEPT ![job[w].on] = NoRow]
    /\ Goto(w, "answer")
    /\ UNCHANGED <<used, clock, running, conn, applied, ops>>

\* Remove deletes the row; nothing is published when there was none.
Remove(w) ==
    /\ At(w, "remove")
    /\ conn = 0
    /\ rows' = [rows EXCEPT ![job[w].on] = NoRow]
    /\ Goto(w, IF Exists(job[w].on) THEN "deleted" ELSE "answer")
    /\ UNCHANGED <<used, clock, running, conn, applied, ops>>

PublishDeleted(w) ==
    /\ At(w, "deleted")
    /\ Goto(w, "answer")
    /\ UNCHANGED <<rows, used, clock, running, conn, applied, ops>>

\* The steps that neither publish a row nor answer a tab.
InnerStep(w) ==
    \/ \E t \in Threads : \/ BeginCreate(w, t) \/ BeginUpdate(w, t)
                          \/ SetState(w, t) \/ BeginDelete(w, t)
    \/ Put(w) \/ Save(w) \/ Republish(w) \/ Compose(w)
    \/ Require(w) \/ Summarise(w) \/ Remove(w)

RegistryNext ==
    \E w \in Writers : InnerStep(w) \/ PublishRow(w) \/ PublishDeleted(w) \/ Answer(w)

RegistrySpec == RegistryInit /\ [][RegistryNext]_registryVars

-----------------------------------------------------------------------------
(* Properties.                                                             *)

\* No edit is lost: a row that exists has every edit that was committed to
\* it, however many writers read and wrote it meanwhile (apply, the
\* read-modify-write half of Update).
EditsSurvive == \A t \in Threads : Exists(t) => applied[t] \subseteq rows[t].edits

\* Nobody composes or publishes a row while his own transaction holds the
\* connection: the backend that is asked for the run state reads the registry
\* and would wait for a connection that is never given back (publishRow).
PublishesUnlocked ==
    \A w \in Writers : conn = w => At(w, "save")
=============================================================================
