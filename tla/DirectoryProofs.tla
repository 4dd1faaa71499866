-------------------------- MODULE DirectoryProofs --------------------------
(***************************************************************************)
(* What the registry promises for any threads and any number of writers,   *)
(* that the registry under the directory of a tab is that registry, and    *)
(* that the tab's list of threads comes to what the registry has.          *)
(***************************************************************************)
EXTENDS Directory, FiniteSetTheorems, WellFoundedInduction, TLAPS

\* A transaction that is open, and nothing else, holds the connection, and the
\* row it read is still the row of the table, which has it.
TransactionInv ==
    /\ \A w \in Writers : At(w, "save") <=> conn = w
    /\ \A w \in Writers : At(w, "save") => /\ job[w].rec = rows[job[w].on]
                                           /\ Exists(job[w].on)

\* A thread that is being created is created by one writer, and was never there.
CreationInv ==
    /\ \A t \in Threads \ used : ~Exists(t) /\ applied[t] = {}
    /\ \A w \in Writers : At(w, "put") => /\ job[w].on \in used
                                          /\ ~Exists(job[w].on)
                                          /\ applied[job[w].on] = {}
    /\ \A v, w \in Writers : At(v, "put") /\ At(w, "put") /\ job[v].on = job[w].on => v = w

RInv == RegistryTypeOK /\ TransactionInv /\ CreationInv /\ EditsSurvive

LEMMA RegistryStarts == RegistryInit => RInv
<1> SUFFICES ASSUME RegistryInit PROVE RInv
  OBVIOUS
<1> USE RegistryAssumption DEF RegistryInit
<1>1. Idle \in Jobs /\ Idle.at = "idle"
  BY DEF Idle, Jobs, Steps, Ops, Rows, NoRow, NoSummary, Summaries
<1>2. \A t \in Threads : rows[t] \in Rows
  BY DEF Rows, NoRow
<1>3. RegistryTypeOK
  BY <1>1, <1>2 DEF RegistryTypeOK
<1>4. TransactionInv /\ CreationInv
  BY <1>1 DEF TransactionInv, CreationInv, At
<1>5. EditsSurvive
  BY DEF EditsSurvive
<1> QED BY <1>3, <1>4, <1>5 DEF RInv

\* What an operation that begins does to its writer.
LEMMA BeginJob ==
    ASSUME RInv, NEW w \in Writers, NEW t \in Threads, NEW op \in Ops, NEW step \in Steps,
           NEW rec \in Rows, Begin(w, t, op, step, rec)
    PROVE  /\ At(w, "idle")
           /\ ops' \in 0..MaxOps
           /\ job' \in [Writers -> Jobs]
           /\ job'[w].at = step /\ job'[w].on = t /\ job'[w].rec = rec
           /\ \A v \in Writers \ {w} : job'[v] = job[v]
<1>1. Idle \in Jobs
  BY DEF Idle, Jobs, Steps, Ops, Rows, NoRow, NoSummary, Summaries
<1> DEFINE j == [Idle EXCEPT !.at = step, !.op = op, !.on = t, !.rec = rec]
<1>2. j \in Jobs /\ j.at = step /\ j.on = t /\ j.rec = rec
  BY <1>1 DEF Jobs, Idle
<1>3. job' = [job EXCEPT ![w] = j] /\ job \in [Writers -> Jobs]
  BY DEF Begin, RInv, RegistryTypeOK
<1>4. ops' \in 0..MaxOps
  BY RegistryAssumption DEF Begin, RInv, RegistryTypeOK
<1> QED BY <1>2, <1>3, <1>4 DEF Begin

\* A writer that moves on, with the record and the draft it has then.
LEMMA MoveJob ==
    ASSUME RInv, NEW w \in Writers, NEW step \in Steps, NEW rec \in Rows, NEW draft \in Summaries,
           \/ job' = [job EXCEPT ![w].at = step]
           \/ job' = [job EXCEPT ![w].at = step, ![w].rec = rec]
           \/ job' = [job EXCEPT ![w].at = step, ![w].draft = draft],
           job[w].at # "idle"
    PROVE  /\ job' \in [Writers -> Jobs]
           /\ job'[w].at = step /\ job'[w].on = job[w].on
           /\ job'[w].rec \in {job[w].rec, rec}
           /\ \A v \in Writers \ {w} : job'[v] = job[v]
           /\ \A v \in Writers : job'[v].at # "idle" => job'[v].on \in Threads
<1>1. job \in [Writers -> Jobs] /\ job[w].on \in Threads
  BY DEF RInv, RegistryTypeOK
<1>2. \A v \in Writers \ {w} : job[v].at # "idle" => job[v].on \in Threads
  BY DEF RInv, RegistryTypeOK
<1>3. /\ job' \in [Writers -> Jobs]
      /\ job'[w].at = step /\ job'[w].on = job[w].on
      /\ job'[w].rec \in {job[w].rec, rec}
      /\ \A v \in Writers \ {w} : job'[v] = job[v]
  BY <1>1 DEF Jobs
<1> QED BY <1>1, <1>2, <1>3

LEMMA FinishJob ==
    ASSUME RInv, NEW w \in Writers, Finish(w)
    PROVE  /\ job' \in [Writers -> Jobs]
           /\ job'[w].at = "idle"
           /\ \A v \in Writers \ {w} : job'[v] = job[v]
           /\ \A v \in Writers : job'[v].at # "idle" => job'[v].on \in Threads
<1>1. Idle \in Jobs /\ Idle.at = "idle"
  BY DEF Idle, Jobs, Steps, Ops, Rows, NoRow, NoSummary, Summaries
<1>2. job \in [Writers -> Jobs] /\ \A v \in Writers : job[v].at # "idle" => job[v].on \in Threads
  BY DEF RInv, RegistryTypeOK
<1> QED BY <1>1, <1>2 DEF Finish

\* A step of one writer that leaves the table, the connection and the ids alone,
\* and neither takes its writer to "save" or "put" nor comes from there.
LEMMA HarmlessStep ==
    ASSUME RInv, NEW w \in Writers,
           UNCHANGED <<rows, used, conn, applied>>,
           clock' \in Nat, running' \in [Threads -> BOOLEAN], ops' \in 0..MaxOps,
           job' \in [Writers -> Jobs],
           job[w].at \notin {"save", "put"}, job'[w].at \notin {"save", "put"},
           \A v \in Writers \ {w} : job'[v] = job[v],
           \A v \in Writers : job'[v].at # "idle" => job'[v].on \in Threads
    PROVE  RInv'
<1>1. RegistryTypeOK'
  BY DEF RInv, RegistryTypeOK
<1>2. TransactionInv'
  BY DEF RInv, TransactionInv, At, Exists
<1>3. CreationInv'
  BY DEF RInv, CreationInv, At, Exists
<1>4. EditsSurvive'
  BY DEF RInv, EditsSurvive, Exists
<1> QED BY <1>1, <1>2, <1>3, <1>4 DEF RInv

LEMMA SummaryTyped ==
    ASSUME RInv, NEW t \in Threads, NEW rec \in Rows
    PROVE  Summary(t, rec) \in Summaries
BY DEF Summary, Summaries, RInv, RegistryTypeOK, Exists

LEMMA BeginCreateKeeps ==
    ASSUME RInv, NEW w \in Writers, NEW t \in Threads, BeginCreate(w, t)
    PROVE  RInv'
<1>0. PICK s \in Stamps : Begin(w, t, "create", "put", [stamp |-> s, edits |-> {}]) /\ clock' = s
  BY DEF BeginCreate
<1>1. s \in Nat /\ [stamp |-> s, edits |-> {}] \in Rows /\ "create" \in Ops /\ "put" \in Steps
  BY <1>0 DEF Stamps, RInv, RegistryTypeOK, Rows, Ops, Steps
<1>2. /\ At(w, "idle") /\ ops' \in 0..MaxOps /\ job' \in [Writers -> Jobs]
      /\ job'[w].at = "put" /\ job'[w].on = t
      /\ \A v \in Writers \ {w} : job'[v] = job[v]
  BY <1>0, <1>1, BeginJob
<1>3. t \notin used /\ used' = used \union {t} /\ UNCHANGED <<rows, running, conn, applied>>
  BY DEF BeginCreate
<1>4. RegistryTypeOK'
  BY <1>0, <1>1, <1>2, <1>3 DEF RInv, RegistryTypeOK
<1>5. TransactionInv'
  BY <1>2, <1>3 DEF RInv, TransactionInv, At, Exists
<1>6. CreationInv'
  BY <1>2, <1>3 DEF RInv, CreationInv, At, Exists
<1>7. EditsSurvive'
  BY <1>3 DEF RInv, EditsSurvive, Exists
<1> QED BY <1>4, <1>5, <1>6, <1>7 DEF RInv

LEMMA PutKeeps ==
    ASSUME RInv, NEW w \in Writers, Put(w)
    PROVE  RInv'
<1> DEFINE t == job[w].on
<1>1. /\ At(w, "put") /\ conn = 0 /\ t \in Threads /\ job[w].rec \in Rows
      /\ rows' = [rows EXCEPT ![t] = job[w].rec]
      /\ UNCHANGED <<used, clock, running, conn, applied, ops>>
  BY DEF Put, RInv, RegistryTypeOK, Jobs, At
<1>2. /\ job' \in [Writers -> Jobs] /\ job'[w].at = "compose" /\ job'[w].on = t
      /\ \A v \in Writers \ {w} : job'[v] = job[v]
      /\ \A v \in Writers : job'[v].at # "idle" => job'[v].on \in Threads
  <2>1. "compose" \in Steps /\ NoRow \in Rows /\ NoSummary \in Summaries
    BY DEF Steps, NoRow, Rows, NoSummary, Summaries
  <2> QED BY <1>1, <2>1, MoveJob DEF Put, Goto, At
<1>3. rows \in [Threads -> Rows]
  BY DEF RInv, RegistryTypeOK
<1>4. RegistryTypeOK'
  BY <1>1, <1>2, <1>3 DEF RInv, RegistryTypeOK
<1>5. TransactionInv'
  \* no transaction is open: conn = 0
  BY <1>1, <1>2, RegistryAssumption DEF RInv, TransactionInv, At, Exists
<1>6. CreationInv'
  BY <1>1, <1>2, <1>3 DEF RInv, CreationInv, At, Exists
<1>7. EditsSurvive'
  BY <1>1, <1>3 DEF RInv, EditsSurvive, CreationInv, Exists, At
<1> QED BY <1>4, <1>5, <1>6, <1>7 DEF RInv

LEMMA BeginUpdateKeeps ==
    ASSUME RInv, NEW w \in Writers, NEW t \in Threads, BeginUpdate(w, t)
    PROVE  RInv'
<1>1. rows[t] \in Rows /\ "update" \in Ops /\ "save" \in Steps
  BY DEF RInv, RegistryTypeOK, Ops, Steps
<1>2. /\ At(w, "idle") /\ ops' \in 0..MaxOps /\ job' \in [Writers -> Jobs]
      /\ job'[w].at = "save" /\ job'[w].on = t /\ job'[w].rec = rows[t]
      /\ \A v \in Writers \ {w} : job'[v] = job[v]
  BY <1>1, BeginJob DEF BeginUpdate
<1>3. conn = 0 /\ conn' = w /\ UNCHANGED <<rows, used, clock, running, applied>>
  BY DEF BeginUpdate
<1>4. RegistryTypeOK'
  BY <1>2, <1>3 DEF RInv, RegistryTypeOK
<1>5. TransactionInv'
  BY <1>2, <1>3, RegistryAssumption DEF BeginUpdate, RInv, TransactionInv, At, Exists
<1>6. CreationInv'
  BY <1>2, <1>3 DEF RInv, CreationInv, At, Exists
<1>7. EditsSurvive'
  BY <1>3 DEF RInv, EditsSurvive, Exists
<1> QED BY <1>4, <1>5, <1>6, <1>7 DEF RInv

LEMMA SaveKeeps ==
    ASSUME RInv, NEW w \in Writers, Save(w)
    PROVE  RInv'
<1> DEFINE t == job[w].on
           rec == job[w].rec
<1>0. PICK s \in Stamps : /\ s > rec.stamp
                          /\ clock' = s
                          /\ rows' = [rows EXCEPT ![t] = Edited(rec, s)]
                          /\ applied' = [applied EXCEPT ![t] = @ \union {s}]
                          /\ job' = [job EXCEPT ![w].at = "compose", ![w].rec = Edited(rec, s)]
  BY DEF Save
<1>1. /\ At(w, "save") /\ conn = w /\ t \in Threads /\ rec \in Rows /\ rec = rows[t]
      /\ conn' = 0 /\ UNCHANGED <<used, running, ops>>
      /\ rows \in [Threads -> Rows] /\ applied \in [Threads -> SUBSET Nat]
  BY DEF Save, RInv, RegistryTypeOK, TransactionInv, Jobs, At
<1>2. s \in Nat /\ Edited(rec, s) \in Rows /\ Edited(rec, s).edits = rec.edits \union {s}
  BY <1>0, <1>1 DEF Stamps, RInv, RegistryTypeOK, Rows, Edited
<1>3. /\ job' \in [Writers -> Jobs] /\ job'[w].at = "compose" /\ job'[w].on = t
      /\ \A v \in Writers \ {w} : job'[v] = job[v]
      /\ \A v \in Writers : job'[v].at # "idle" => job'[v].on \in Threads
  <2>1. "compose" \in Steps /\ NoSummary \in Summaries
    BY DEF Steps, NoRow, Rows, NoSummary, Summaries
  <2> QED BY <1>0, <1>1, <1>2, <2>1, MoveJob DEF At
<1>4. RegistryTypeOK'
  BY <1>0, <1>1, <1>2, <1>3 DEF RInv, RegistryTypeOK
<1>5. TransactionInv'
  \* the only transaction was this one
  BY <1>1, <1>3, RegistryAssumption DEF RInv, TransactionInv, At, Exists
<1>6. Exists(t)
  BY <1>1 DEF RInv, TransactionInv
<1>7. CreationInv'
  BY <1>0, <1>1, <1>2, <1>3, <1>6 DEF RInv, CreationInv, At, Exists
<1>8. EditsSurvive'
  BY <1>0, <1>1, <1>2, <1>6 DEF RInv, EditsSurvive, Exists
<1> QED BY <1>4, <1>5, <1>7, <1>8 DEF RInv

LEMMA RemoveKeeps ==
    ASSUME RInv, NEW w \in Writers, Remove(w)
    PROVE  RInv'
<1> DEFINE t == job[w].on
           step == IF Exists(t) THEN "deleted" ELSE "answer"
<1>1. /\ At(w, "remove") /\ conn = 0 /\ t \in Threads
      /\ rows' = [rows EXCEPT ![t] = NoRow]
      /\ UNCHANGED <<used, clock, running, conn, applied, ops>>
      /\ rows \in [Threads -> Rows] /\ NoRow \in Rows
  BY DEF Remove, RInv, RegistryTypeOK, At, NoRow, Rows
<1>2. /\ job' \in [Writers -> Jobs] /\ job'[w].at \in {"deleted", "answer"} /\ job'[w].on = t
      /\ \A v \in Writers \ {w} : job'[v] = job[v]
      /\ \A v \in Writers : job'[v].at # "idle" => job'[v].on \in Threads
  <2>1. step \in Steps /\ step \in {"deleted", "answer"} /\ NoSummary \in Summaries
    BY <1>1 DEF Steps, NoSummary, Summaries
  <2>2. job' = [job EXCEPT ![w].at = step] /\ job[w].at # "idle"
    BY <1>1 DEF Remove, Goto, At
  <2> HIDE DEF step
  <2> QED BY <1>1, <2>1, <2>2, MoveJob
<1>3. RegistryTypeOK'
  BY <1>1, <1>2 DEF RInv, RegistryTypeOK
<1>4. TransactionInv'
  BY <1>1, <1>2, RegistryAssumption DEF RInv, TransactionInv, At, Exists
<1>5. CreationInv'
  BY <1>1, <1>2 DEF RInv, CreationInv, At, Exists
<1>6. EditsSurvive'
  BY <1>1 DEF RInv, EditsSurvive, Exists
<1> QED BY <1>3, <1>4, <1>5, <1>6 DEF RInv

\* The steps that write no row: reading one, composing, publishing, answering,
\* and the beginning of a report or of a deletion.
LEMMA OtherStepsKeep ==
    ASSUME RInv, NEW w \in Writers,
           \/ \E t \in Threads : SetState(w, t) \/ BeginDelete(w, t)
           \/ Republish(w) \/ Compose(w) \/ PublishRow(w) \/ Require(w) \/ Summarise(w)
           \/ Answer(w) \/ PublishDeleted(w)
    PROVE  RInv'
<1> USE DEF At
<1>0. /\ {"get", "remove", "compose", "publish", "summary", "require", "answer"} \subseteq Steps
      /\ {"state", "delete"} \subseteq Ops
      /\ NoRow \in Rows /\ NoSummary \in Summaries
  BY DEF Steps, Ops, NoRow, Rows, NoSummary, Summaries
<1>1. /\ clock \in Nat /\ running \in [Threads -> BOOLEAN] /\ ops \in 0..MaxOps
      /\ \A v \in Writers : job[v].at # "idle" => job[v].on \in Threads
      /\ job[w].rec \in Rows
      /\ \A t \in Threads : rows[t] \in Rows
  BY DEF RInv, RegistryTypeOK, Jobs
<1>2. ASSUME NEW t \in Threads, SetState(w, t) \/ BeginDelete(w, t) PROVE RInv'
  <2>1. PICK op \in {"state", "delete"}, step \in {"get", "remove"} : Begin(w, t, op, step, NoRow)
    BY <1>2 DEF SetState, BeginDelete
  <2>2. /\ job[w].at = "idle" /\ ops' \in 0..MaxOps /\ job' \in [Writers -> Jobs]
        /\ job'[w].at = step /\ job'[w].on = t
        /\ \A v \in Writers \ {w} : job'[v] = job[v]
    BY <1>0, <2>1, BeginJob
  <2>3. running' \in [Threads -> BOOLEAN] /\ UNCHANGED <<rows, used, clock, conn, applied>>
    BY <1>1, <1>2 DEF SetState, BeginDelete
  <2> QED BY <1>1, <2>1, <2>2, <2>3, HarmlessStep
<1>3. ASSUME Republish(w) \/ Require(w) PROVE RInv'
  <2>1. UNCHANGED <<rows, used, clock, running, conn, applied, ops>> /\ job[w].at \in {"get", "require"}
    BY <1>3 DEF Republish, Require
  <2>2. CASE Finish(w)
    BY <1>1, <2>1, <2>2, FinishJob, HarmlessStep
  <2>3. CASE \E step \in {"compose", "summary"} :
                job' = [job EXCEPT ![w].at = step, ![w].rec = rows[job[w].on]]
    <3>1. PICK step \in {"compose", "summary"} :
             job' = [job EXCEPT ![w].at = step, ![w].rec = rows[job[w].on]]
      BY <2>3
    <3>2. step \in Steps /\ job[w].at # "idle" /\ rows[job[w].on] \in Rows
      BY <1>0, <1>1, <2>1
    <3>3. /\ job' \in [Writers -> Jobs] /\ job'[w].at = step
          /\ \A v \in Writers \ {w} : job'[v] = job[v]
          /\ \A v \in Writers : job'[v].at # "idle" => job'[v].on \in Threads
      BY <1>0, <3>1, <3>2, MoveJob
    <3> QED BY <1>1, <2>1, <3>1, <3>3, HarmlessStep
  <2> QED BY <1>3, <2>2, <2>3 DEF Republish, Require
<1>4. ASSUME Compose(w) \/ Summarise(w) PROVE RInv'
  <2>1. /\ UNCHANGED <<rows, used, clock, running, conn, applied, ops>>
        /\ job[w].at \in {"compose", "summary"}
    BY <1>4 DEF Compose, Summarise
  <2>2. Summary(job[w].on, job[w].rec) \in Summaries
    BY <1>1, <2>1, SummaryTyped
  <2>3. PICK step \in {"publish", "answer"} :
           job' = [job EXCEPT ![w].at = step, ![w].draft = Summary(job[w].on, job[w].rec)]
    BY <1>4 DEF Compose, Summarise
  <2>4. /\ job' \in [Writers -> Jobs] /\ job'[w].at = step
        /\ \A v \in Writers \ {w} : job'[v] = job[v]
        /\ \A v \in Writers : job'[v].at # "idle" => job'[v].on \in Threads
    BY <1>0, <2>1, <2>2, <2>3, MoveJob
  <2> QED BY <1>1, <2>1, <2>3, <2>4, HarmlessStep
<1>5. ASSUME PublishRow(w) \/ Answer(w) \/ PublishDeleted(w) PROVE RInv'
  <2>1. /\ UNCHANGED <<rows, used, clock, running, conn, applied, ops>>
        /\ job[w].at \in {"publish", "answer", "deleted"}
    BY <1>5 DEF PublishRow, Answer, PublishDeleted
  <2>2. CASE Finish(w)
    BY <1>1, <2>1, <2>2, FinishJob, HarmlessStep
  <2>3. CASE \E step \in {"summary", "require", "answer"} : job' = [job EXCEPT ![w].at = step]
    BY <1>0, <1>1, <2>1, <2>3, MoveJob, HarmlessStep
  <2> QED BY <1>5, <2>2, <2>3 DEF PublishRow, Answer, PublishDeleted, Goto
<1> QED BY <1>2, <1>3, <1>4, <1>5

LEMMA RegistrySteps == RInv /\ [RegistryNext]_registryVars => RInv'
<1> SUFFICES ASSUME RInv, [RegistryNext]_registryVars PROVE RInv'
  OBVIOUS
<1>1. CASE UNCHANGED registryVars
  BY <1>1 DEF registryVars, RInv, RegistryTypeOK, TransactionInv, CreationInv, EditsSurvive, At, Exists
<1>2. ASSUME NEW w \in Writers, InnerStep(w) \/ PublishRow(w) \/ PublishDeleted(w) \/ Answer(w)
      PROVE  RInv'
  BY <1>2, BeginCreateKeeps, PutKeeps, BeginUpdateKeeps, SaveKeeps, RemoveKeeps, OtherStepsKeep
     DEF InnerStep
<1> QED BY <1>1, <1>2 DEF RegistryNext

LEMMA RegistryInvariant == RegistrySpec => []RInv
BY RegistryStarts, RegistrySteps, PTL DEF RegistrySpec

-----------------------------------------------------------------------------
(* The registry under the tab.                                             *)

\* What a tab does never touches the registry, and what a writer does is a
\* step of the registry, whoever watches (chat/registry.go publishes after
\* the fact and takes nothing back).
THEOREM RegistryBeneath == Spec => RegistrySpec
<1>1. Init => RegistryInit
  BY DEF Init
<1>2. [Next]_vars => [RegistryNext]_registryVars
  BY DEF Next, vars, RegistryNext, Work, EmitRow, EmitDeleted, AnswerHere, AnswerElsewhere,
         Connect, Disconnect, TakeOpen, TakeEvent, ReadPage, ComposePage, LoadDone, LoadFails,
         StartMore, MoreDone, MoreFails
<1> QED BY <1>1, <1>2, PTL DEF Spec, RegistrySpec

\* Type correctness of the registry's table, writers and connection.
THEOREM TypeCorrect == Spec => []RegistryTypeOK
<1>1. RInv => RegistryTypeOK
  BY DEF RInv
<1> QED BY <1>1, RegistryBeneath, RegistryInvariant, PTL

\* No edit of a thread that exists is ever lost, whatever writers, deletions
\* and creations are interleaved with it (Registry.Update).
THEOREM NoEditLost == Spec => []EditsSurvive
<1>1. RInv => EditsSurvive
  BY DEF RInv
<1> QED BY <1>1, RegistryBeneath, RegistryInvariant, PTL

\* Rows are composed and published with no transaction open: the connection
\* the backends' answer needs is never held by who waits for it (publishRow).
THEOREM NeverPublishesLocked == Spec => []PublishesUnlocked
<1>1. RInv => PublishesUnlocked
  BY DEF RInv, TransactionInv, PublishesUnlocked
<1> QED BY <1>1, RegistryBeneath, RegistryInvariant, PTL
-----------------------------------------------------------------------------
(* The directory of the tab.  The invariant follows one thread: what the   *)
(* tab has of it is right, or news of it, or a load, is on its way.        *)

\* What the list is to show of a thread, and whether a page or a list does.
Truth(t) == IF Exists(t) THEN Summary(t, rows[t]) ELSE NoSummary
Shows(row, c, t) == \/ row = Truth(t)
                    \/ row = NoSummary /\ Exists(t) /\ c # NoKey /\ Before(Key(t), c)

\* A writer that has yet to publish what it did, and will; an event unheard.
Telling == {"put", "save", "compose", "publish", "deleted"}
Certain(t) == \E w \in Writers : /\ job[w].on = t
                                 /\ \/ job[w].at \in Telling
                                    \/ job[w].at \in {"get", "remove"} /\ Exists(t)
HasEvent(t) == \E i \in DOMAIN feed : feed[i].on = t
Coming(t) == Certain(t) \/ HasEvent(t)

\* A page that was read.
Unread(f, t) == fetch[f].recs[t] # NoRow
PageShows(f, t) == IF Unread(f, t) THEN fetch[f].recs[t] = rows[t]
                                   ELSE Shows(fetch[f].page[t], fetch[f].next, t)

\* A load on its way shows the thread as it is.
Reloads(t) == \/ ~online
              \/ \E i \in DOMAIN feed : feed[i] = Opened
              \/ \E l \in Loads : fetch[l].at = "sent"
              \/ \E l \in Loads : fetch[l].at = "read" /\ PageShows(l, t)

\* One at a time works on a thread that is not in doubt, on what is there.
JobRight(w, t) ==
    LET j == job[w] IN
    /\ j.at \in {"get", "remove", "save", "require", "compose", "summary", "publish"} => Exists(t)
    /\ j.at \in {"put", "deleted"} => ~Exists(t)
    /\ j.at = "put" => j.rec # NoRow
    /\ j.at \in {"compose", "summary", "publish"} => j.rec = rows[t]
    /\ j.at \in {"publish", "answer"} => j.draft = Truth(t)
    /\ j.at \in {"remove", "deleted"} => j.draft = NoSummary

ClockInv == clock > 0
JobsInv == \A t \in Threads \ doubted :
             /\ \A v, w \in Writers : job[v].on = t /\ job[w].on = t => v = w
             /\ \A w \in Writers : job[w].on = t => JobRight(w, t)

\* The last event of a thread has the news.
LastEvent(t, row) == \E i \in DOMAIN feed :
                        /\ feed[i].on = t /\ feed[i].row = row
                        /\ \A j \in DOMAIN feed : j > i => feed[j].on # t
EventsInv == \A t \in Threads \ doubted :
               HasEvent(t) /\ ~Certain(t) => LastEvent(t, Truth(t))

\* What a load has of a thread it has as it is, it shows.
StillInv == \A l \in Loads, t \in Threads :
              fetch[l].at = "read" /\ t \in fetch[l].still => PageShows(l, t) \/ Coming(t)

LoadsInv == \A l \in Loads, t \in Threads \ doubted :
              fetch[l].at = "read" => PageShows(l, t) \/ Coming(t) \/ Reloads(t)

ListInv == \A t \in Threads \ doubted :
             Shows(list[t], cursor, t) \/ Coming(t) \/ Reloads(t) \/ error

\* What loadMore will make of the list.
MoreShows(t) == IF Unread(More, t) THEN fetch[More].recs[t] = rows[t]
                ELSE Shows(IF fetch[More].page[t] # NoSummary THEN fetch[More].page[t] ELSE list[t],
                           fetch[More].next, t)
MoreInv == \A t \in Threads \ doubted :
             /\ fetch[More].at # "none" => /\ fetch[More].captured[t] = list[t]
                                           /\ fetch[More].from = cursor /\ cursor # NoKey
             /\ fetch[More].at = "read" => MoreShows(t) \/ Coming(t) \/ Reloads(t) \/ error

\* What is not read yet is blank; a load begins at the top.
BlankInv == /\ \A f \in DOMAIN fetch : fetch[f].at # "read" => /\ fetch[f].page = NoList
                                                            /\ \A t \in Threads : ~Unread(f, t)
            /\ \A l \in Loads : fetch[l].from = NoKey

\* What the stream hands over.
News == {Opened} \union {Deleted(t) : t \in Threads}
          \union {Updated(t, row) : t \in Threads, row \in Summaries}
FeedTyped == feed \in Seq(News) /\ (~online => feed = <<>>)

\* Two writers at work on a thread put it in doubt.
RacedInv == Raced \subseteq doubted

TabInv == /\ FeedTyped /\ RacedInv /\ ClockInv /\ JobsInv /\ EventsInv /\ BlankInv
          /\ StillInv /\ LoadsInv /\ ListInv /\ MoreInv
DInv == TypeOK /\ RInv /\ TabInv

-----------------------------------------------------------------------------
(* Pages.                                                                  *)

\* A finite set of keys that are not the same has a least one; and a greatest.
LEMMA Least ==
    ASSUME RInv, NEW S, S \subseteq Threads, S # {}
    PROVE  /\ \E t \in S : \A u \in S \ {t} : Before(Key(t), Key(u))
           /\ \E t \in S : \A u \in S : ~Before(Key(t), Key(u))
<1>1. \A t \in Threads : t \in Nat /\ rows[t].stamp \in Nat
  BY RegistryAssumption DEF RInv, RegistryTypeOK, Rows
<1>2. \A t, u \in Threads : /\ t # u => Before(Key(t), Key(u)) \/ Before(Key(u), Key(t))
                            /\ ~Before(Key(t), Key(t))
  BY <1>1 DEF Before, Key
<1>3. \A t, u, v \in Threads : Before(Key(t), Key(u)) /\ Before(Key(u), Key(v)) => Before(Key(t), Key(v))
  BY <1>1 DEF Before, Key
<1> DEFINE R == StrictSubsetOrdering(Threads)
           Below(t) == {u \in S : Before(Key(u), Key(t))}
           Above(t) == {u \in S : Before(Key(t), Key(u))}
<1>4. IsWellFoundedOn(R, FiniteSubsetsOf(Threads))
  BY FS_StrictSubsetOrderingWellFounded
<1>5. \A Q : Q \subseteq Threads => Q \in FiniteSubsetsOf(Threads)
  BY RegistryAssumption, FS_Subset DEF FiniteSubsetsOf
<1>6. PICK t \in S : \A u \in S : ~(<<Below(u), Below(t)>> \in R)
  <2> DEFINE T == {Below(u) : u \in S}
  <2>1. T \subseteq FiniteSubsetsOf(Threads) /\ T # {}
    BY <1>5
  <2>2. PICK x \in T : \A y \in T : ~(<<y, x>> \in R)
    <3> HIDE DEF T, R
    <3> QED BY <1>4, <2>1, WFMin
  <2> QED BY <2>2
<1>7. ASSUME NEW u \in S \ {t} PROVE Before(Key(t), Key(u))
  <2>1. SUFFICES ASSUME Before(Key(u), Key(t)) PROVE FALSE
    BY <1>2
  <2>2. Below(u) \subseteq Below(t) /\ u \in Below(t) /\ u \notin Below(u)
    BY <1>2, <1>3, <2>1
  <2>3. <<Below(u), Below(t)>> \in R
    BY <2>2 DEF StrictSubsetOrdering
  <2> QED BY <1>6, <2>3
<1>8. PICK z \in S : \A u \in S : ~(<<Above(u), Above(z)>> \in R)
  <2> DEFINE T == {Above(u) : u \in S}
  <2>1. T \subseteq FiniteSubsetsOf(Threads) /\ T # {}
    BY <1>5
  <2>2. PICK x \in T : \A y \in T : ~(<<y, x>> \in R)
    <3> HIDE DEF T, R
    <3> QED BY <1>4, <2>1, WFMin
  <2> QED BY <2>2
<1>9. ASSUME NEW u \in S PROVE ~Before(Key(z), Key(u))
  <2>1. SUFFICES ASSUME Before(Key(z), Key(u)) PROVE FALSE
    OBVIOUS
  <2>2. Above(u) \subseteq Above(z) /\ u \in Above(z) /\ u \notin Above(u)
    BY <1>2, <1>3, <2>1
  <2>3. <<Above(u), Above(z)>> \in R
    BY <2>2 DEF StrictSubsetOrdering
  <2> QED BY <1>8, <2>3
<1> QED BY <1>7, <1>9

\* A page has the newest rows; where it ends, what is left is found.
LEMMA PageEnds ==
    ASSUME RInv, NEW from \in Keys
    PROVE  /\ NextKey(from) \in Keys
           /\ \A t \in Candidates(from) \ Page(from) :
                NextKey(from) # NoKey /\ Before(Key(t), NextKey(from))
<1> DEFINE C == Candidates(from)
           P == Page(from)
           Above(t) == {u \in C : Before(Key(t), Key(u))}
<1>1. \A t \in Threads : t \in Nat /\ t # 0 /\ rows[t].stamp \in Nat
  BY RegistryAssumption DEF RInv, RegistryTypeOK, Rows
<1>2. C \subseteq Threads /\ P = {t \in C : Cardinality(Above(t)) < PageSize}
  BY DEF Candidates, Page
<1>3. \A t \in Threads : Above(t) \subseteq Threads /\ IsFiniteSet(Above(t)) /\ Cardinality(Above(t)) \in Nat
  BY <1>2, RegistryAssumption, FS_Subset, FS_CardinalityType
<1>4. CASE P = C
  BY <1>4, <1>1 DEF NextKey, NoKey, Keys
<1>5. CASE P # C
  <2>1. C # {}
    BY <1>2, <1>5
  <2>2. PICK z \in C : \A u \in C : ~Before(Key(z), Key(u))
    BY <1>2, <2>1, Least
  <2>3. Above(z) = {}
    BY <2>2
  <2>4. Cardinality(Above(z)) = 0
    BY <2>3, FS_EmptySet
  <2>5. z \in P
    BY <1>2, <2>4, DirectoryAssumption
  <2>6. \E t \in P : \A u \in P \ {t} : Before(Key(t), Key(u))
    BY <1>2, <2>5, Least
  <2> DEFINE m == CHOOSE t \in P : \A u \in P \ {t} : Before(Key(t), Key(u))
  <2>7. m \in P /\ \A u \in P \ {m} : Before(Key(m), Key(u))
    BY <2>6
  <2>8. NextKey(from) = Key(m)
    BY <1>5 DEF NextKey
  <2> HIDE DEF m, C, P
  <2>9. m \in C /\ m \in Threads /\ Cardinality(Above(m)) < PageSize
    BY <1>2, <2>7
  <2>10. Key(m) \in Keys /\ Key(m) # NoKey
    BY <1>1, <2>9 DEF Key, Keys, NoKey
  <2>11. ASSUME NEW t \in C \ P PROVE Before(Key(t), Key(m))
    <3>1. SUFFICES ASSUME ~Before(Key(t), Key(m)) PROVE FALSE
      OBVIOUS
    <3>2. t \in Threads /\ t # m /\ ~(Cardinality(Above(t)) < PageSize)
      BY <1>2, <2>7
    <3>3. Before(Key(m), Key(t))
      BY <1>1, <2>9, <3>1, <3>2 DEF Before, Key
    <3>4. Above(t) \subseteq Above(m)
      <4> SUFFICES ASSUME NEW u \in C, Before(Key(t), Key(u)) PROVE Before(Key(m), Key(u))
        OBVIOUS
      <4>1. u \in Threads
        BY <1>2
      <4> QED BY <1>1, <2>9, <3>2, <3>3, <4>1 DEF Before, Key
    <3>5. Cardinality(Above(t)) <= Cardinality(Above(m))
      BY <1>3, <2>9, <3>4, FS_Subset
    <3>6. Cardinality(Above(t)) \in Nat /\ Cardinality(Above(m)) \in Nat
      BY <1>3, <2>9, <3>2
    <3> HIDE DEF Above
    <3> QED BY <2>9, <3>2, <3>5, <3>6, DirectoryAssumption
  <2>12. NextKey(from) \in Keys /\ NextKey(from) # NoKey
    BY <2>8, <2>10
  <2>13. \A t \in C \ P : Before(Key(t), NextKey(from))
    BY <2>8, <2>11
  <2> QED BY <2>12, <2>13 DEF C, P
<1> QED BY <1>4, <1>5

-----------------------------------------------------------------------------
(* What a writer's step means to a thread.                                 *)

\* The writer is certain to publish something of the thread.
Tells(w, t) == /\ job[w].on = t
               /\ job[w].at \in Telling \/ (job[w].at \in {"get", "remove"} /\ Exists(t))

LEMMA CertainByOne == \A t : Certain(t) <=> \E w \in Writers : Tells(w, t)
BY DEF Certain, Tells

\* A step changes one thread at most, that of its writer, who then tells it; and
\* a writer who tells does so until it published.
LEMMA InnerTells ==
    ASSUME RInv, NEW w \in Writers, InnerStep(w)
    PROVE  /\ \A v \in Writers \ {w} : job'[v] = job[v]
           /\ \A t \in Threads : (rows'[t] # rows[t] \/ running'[t] # running[t]) => Tells(w, t)'
           /\ \A t \in Threads : Tells(w, t) => Tells(w, t)'
<1>1. job \in [Writers -> Jobs] /\ rows \in [Threads -> Rows] /\ running \in [Threads -> BOOLEAN]
  BY DEF RInv, RegistryTypeOK
<1> USE <1>1
<1>2. ASSUME NEW u \in Threads, BeginCreate(w, u) \/ BeginUpdate(w, u)
      PROVE  /\ \A v \in Writers \ {w} : job'[v] = job[v]
             /\ job[w].at = "idle" /\ rows' = rows /\ running' = running
  BY <1>2 DEF BeginCreate, BeginUpdate, Begin, At
<1>3. ASSUME NEW u \in Threads, SetState(w, u) \/ BeginDelete(w, u)
      PROVE  /\ \A v \in Writers \ {w} : job'[v] = job[v]
             /\ job[w].at = "idle" /\ rows' = rows
             /\ \A t \in Threads \ {u} : running'[t] = running[t]
             /\ job'[w].on = u /\ job'[w].at \in {"get", "remove"} /\ Exists(u)
  <2>1. /\ {"get", "remove"} \subseteq Steps /\ {"state", "delete"} \subseteq Ops /\ NoRow \in Rows
    BY DEF Steps, Ops, NoRow, Rows
  <2>2. PICK op \in {"state", "delete"}, step \in {"get", "remove"} : Begin(w, u, op, step, NoRow)
    BY <1>3 DEF SetState, BeginDelete
  <2>3. /\ At(w, "idle") /\ job'[w].at = step /\ job'[w].on = u
        /\ \A v \in Writers \ {w} : job'[v] = job[v]
    BY <2>1, <2>2, BeginJob
  <2>4. rows' = rows /\ Exists(u) /\ \A t \in Threads \ {u} : running'[t] = running[t]
    BY <1>3 DEF SetState, BeginDelete
  <2> QED BY <2>3, <2>4 DEF At
<1>4. ASSUME Put(w) \/ Save(w)
      PROVE  /\ \A v \in Writers \ {w} : job'[v] = job[v]
             /\ job'[w].on = job[w].on /\ job'[w].at = "compose"
             /\ running' = running
             /\ \A t \in Threads \ {job[w].on} : rows'[t] = rows[t]
  BY <1>4 DEF Put, Save, Goto, Jobs
<1>5. ASSUME Republish(w) \/ Compose(w) \/ Require(w) \/ Summarise(w)
      PROVE  /\ \A v \in Writers \ {w} : job'[v] = job[v]
             /\ rows' = rows /\ running' = running
             /\ \/ job'[w].on = job[w].on /\ job'[w].at \in {"compose", "publish"}
                \/ job[w].at \in {"require", "summary"}
                \/ job[w].at = "get" /\ ~Exists(job[w].on)
  BY <1>5 DEF Republish, Compose, Require, Summarise, Finish, At, Jobs
<1>6. ASSUME Remove(w)
      PROVE  /\ \A v \in Writers \ {w} : job'[v] = job[v]
             /\ running' = running /\ job[w].at = "remove" /\ job'[w].on = job[w].on
             /\ \A t \in Threads \ {job[w].on} : rows'[t] = rows[t]
             /\ Exists(job[w].on) => job'[w].at = "deleted"
             /\ ~Exists(job[w].on) => \A t \in Threads : rows'[t] = rows[t]
  BY <1>6 DEF Remove, Goto, At, Jobs, Exists
<1>7. CASE \E u \in Threads : BeginCreate(w, u) \/ BeginUpdate(w, u)
  BY <1>2, <1>7 DEF Tells, Telling
<1>8. CASE \E u \in Threads : SetState(w, u) \/ BeginDelete(w, u)
  BY <1>3, <1>8 DEF Tells, Telling, Exists
<1>9. CASE Put(w) \/ Save(w)
  BY <1>4, <1>9 DEF Tells, Telling
<1>10. CASE Republish(w) \/ Compose(w) \/ Require(w) \/ Summarise(w)
  BY <1>5, <1>10 DEF Tells, Telling
<1>11. CASE Remove(w)
  BY <1>6, <1>11 DEF Tells, Telling
<1> QED BY <1>7, <1>8, <1>9, <1>10, <1>11 DEF InnerStep

\* So news of a thread that changes are certain, and stay so.
LEMMA InnerCertain ==
    ASSUME RInv, NEW w \in Writers, InnerStep(w), NEW t \in Threads
    PROVE  /\ (rows'[t] = rows[t] /\ running'[t] = running[t]) \/ Certain(t)'
           /\ Certain(t) => Certain(t)'
<1>1. CASE Tells(w, t)'
  BY <1>1 DEF Certain, Tells
<1>2. CASE ~Tells(w, t)'
  <2>1. rows'[t] = rows[t] /\ running'[t] = running[t] /\ ~Tells(w, t)
    BY <1>2, InnerTells
  <2>2. ASSUME Certain(t) PROVE Certain(t)'
    <3>1. PICK v \in Writers : Tells(v, t)
      BY <2>2 DEF Certain, Tells
    <3>2. job'[v] = job[v]
      BY <2>1, <3>1, InnerTells
    <3> QED BY <2>1, <3>1, <3>2 DEF Certain, Tells, Exists
  <2> QED BY <2>1, <2>2
<1> QED BY <1>1, <1>2

\* What is published is no longer owed; an answer is owed to nobody else.
LEMMA OuterCertain ==
    ASSUME RInv, NEW w \in Writers, NEW t \in Threads,
           PublishRow(w) \/ PublishDeleted(w) \/ Answer(w), Certain(t)
    PROVE  \/ Certain(t)'
           \/ job[w].on = t /\ (PublishRow(w) \/ PublishDeleted(w))
<1>1. /\ \A v \in Writers \ {w} : job'[v] = job[v]
      /\ rows' = rows /\ job[w].at \in {"publish", "deleted", "answer"}
      /\ job[w].at = "answer" => Answer(w)
      /\ job[w].at # "answer" => PublishRow(w) \/ PublishDeleted(w)
  BY DEF PublishRow, PublishDeleted, Answer, Finish, Goto, At, RInv, RegistryTypeOK
<1>2. PICK v \in Writers : Tells(v, t)
  BY DEF Certain, Tells
<1>3. CASE v = w
  BY <1>1, <1>2, <1>3 DEF Tells, Telling
<1>4. CASE v # w
  BY <1>1, <1>2, <1>4 DEF Tells, Certain, Exists
<1> QED BY <1>3, <1>4

-----------------------------------------------------------------------------
(* One writer at a time on a thread that is not in doubt.                  *)

\* Two writers at work on a thread race.
LEMMA TwoRace ==
    ASSUME NEW S \in SUBSET Writers, NEW v \in S, NEW w \in S, v # w
    PROVE  Cardinality(S) > 1
<1>1. IsFiniteSet({v}) /\ Cardinality({v}) = 1 /\ w \notin {v}
  BY FS_Singleton
<1>2. IsFiniteSet({v} \cup {w}) /\ Cardinality({v} \cup {w}) = 2
  BY <1>1, FS_AddElement
<1>3. IsFiniteSet(S) /\ {v} \cup {w} \in SUBSET S
  BY RegistryAssumption, FS_Subset
<1>4. 2 <= Cardinality(S) /\ Cardinality(S) \in Nat
  BY <1>2, <1>3, FS_Subset, FS_CardinalityType
<1> QED BY <1>4

\* What the writer's own step makes of its job.
LEMMA OwnJob ==
    ASSUME RInv, ClockInv, NEW w \in Writers,
           InnerStep(w) \/ PublishRow(w) \/ PublishDeleted(w) \/ Answer(w),
           NEW t \in Threads, job'[w].on = t,
           job[w].on = t => JobRight(w, t)
    PROVE  JobRight(w, t)'
<1>1. job \in [Writers -> Jobs] /\ rows \in [Threads -> Rows] /\ running \in [Threads -> BOOLEAN]
  BY DEF RInv, RegistryTypeOK
<1> USE <1>1
<1>2. Idle.draft = NoSummary /\ t # 0 /\ Idle.on = 0
  BY RegistryAssumption DEF Idle
<1>3. ASSUME NEW u \in Threads, NEW op, NEW step, NEW rec, Begin(w, u, op, step, rec)
      PROVE  /\ u = t /\ job'[w].at = step /\ job'[w].rec = rec /\ job'[w].draft = NoSummary
  <2> DEFINE j == [Idle EXCEPT !.at = step, !.op = op, !.on = u, !.rec = rec]
  <2>1. j.at = step /\ j.on = u /\ j.rec = rec /\ j.draft = NoSummary
    BY DEF Idle
  <2>2. job'[w] = j
    BY <1>3 DEF Begin
  <2> QED BY <2>1, <2>2
<1>4. CASE \E u \in Threads : BeginCreate(w, u)
  <2>1. PICK u \in Threads : BeginCreate(w, u)
    BY <1>4
  <2>2. u = t /\ job'[w].at = "put" /\ u \notin used /\ rows' = rows
    BY <1>3, <2>1 DEF BeginCreate
  <2>3. job'[w].rec # NoRow
    <3>1. PICK s \in Stamps : Begin(w, u, "create", "put", [stamp |-> s, edits |-> {}])
      BY <2>1 DEF BeginCreate
    <3>2. s \in Nat /\ s > 0
      BY <3>1 DEF Stamps, ClockInv, RInv, RegistryTypeOK
    <3>3. [stamp |-> s, edits |-> {}] # NoRow
      BY <3>2 DEF NoRow
    <3> QED BY <1>3, <3>1, <3>3
  <2> QED BY <2>2, <2>3 DEF JobRight, RInv, CreationInv, Exists
<1>5. CASE \E u \in Threads : BeginUpdate(w, u)
  <2>1. PICK u \in Threads : BeginUpdate(w, u)
    BY <1>5
  <2>2. u = t /\ job'[w].at = "save" /\ Exists(u) /\ rows' = rows
    BY <1>3, <2>1 DEF BeginUpdate
  <2> QED BY <2>2 DEF JobRight, Exists
<1>6. CASE \E u \in Threads : SetState(w, u) \/ BeginDelete(w, u)
  <2>1. PICK u \in Threads : SetState(w, u) \/ BeginDelete(w, u)
    BY <1>6
  <2>2. /\ u = t /\ job'[w].at \in {"get", "remove"} /\ Exists(u) /\ rows' = rows
        /\ job'[w].draft = NoSummary
    BY <1>3, <2>1 DEF SetState, BeginDelete
  <2> QED BY <2>2 DEF JobRight, Exists
<1>7. CASE Put(w)
  <2>1. /\ job[w].at = "put" /\ job'[w].on = job[w].on /\ job'[w].at = "compose"
        /\ job'[w].rec = job[w].rec
        /\ rows' = [rows EXCEPT ![job[w].on] = job[w].rec]
    BY <1>7 DEF Put, Goto, At, Jobs
  <2>2. Exists(t)'
    <3>1. job[w].rec # NoRow
      BY <2>1 DEF JobRight
    <3> QED BY <2>1, <3>1 DEF Exists
  <2> QED BY <2>1, <2>2 DEF JobRight
<1>8. CASE Save(w)
  <2>1. PICK s \in Stamps : /\ rows' = [rows EXCEPT ![job[w].on] = Edited(job[w].rec, s)]
                            /\ job' = [job EXCEPT ![w].at = "compose",
                                                  ![w].rec = Edited(job[w].rec, s)]
    BY <1>8 DEF Save
  <2>2. /\ job'[w].on = job[w].on /\ job'[w].at = "compose" /\ job'[w].rec = Edited(job[w].rec, s)
        /\ rows'[t] = Edited(job[w].rec, s)
    BY <2>1 DEF Jobs
  <2>3. Edited(job[w].rec, s) # NoRow
    <3>1. s \in job[w].rec.edits \cup {s}
      OBVIOUS
    <3> QED BY <3>1 DEF Edited, NoRow
  <2> QED BY <2>2, <2>3 DEF JobRight, Exists
<1>9. CASE Republish(w) \/ Require(w)
  <2>1. rows' = rows /\ job[w].at \in {"get", "require"}
    BY <1>9 DEF Republish, Require, At
  <2>2. CASE Finish(w)
    BY <1>2, <2>2 DEF Finish
  <2>3. CASE ~Finish(w)
    <3>1. /\ Exists(job[w].on) /\ job'[w].on = job[w].on /\ job'[w].rec = rows[job[w].on]
          /\ job'[w].at \in {"compose", "summary"}
      BY <1>9, <2>3 DEF Republish, Require, Jobs
    <3> QED BY <2>1, <3>1 DEF JobRight, Exists
  <2> QED BY <2>2, <2>3
<1>10. CASE Compose(w) \/ Summarise(w)
  <2>1. /\ job[w].at \in {"compose", "summary"} /\ rows' = rows /\ running' = running
        /\ job'[w].at \in {"publish", "answer"} /\ job'[w].on = job[w].on
        /\ job'[w].draft = Summary(job[w].on, job[w].rec) /\ job'[w].rec = job[w].rec
    BY <1>10 DEF Compose, Summarise, At, Jobs
  <2>2. Exists(t) /\ job[w].rec = rows[t]
    BY <2>1 DEF JobRight
  <2>3. job'[w].draft = Truth(t)'
    BY <2>1, <2>2 DEF Truth, Summary, Exists
  <2> QED BY <2>1, <2>2, <2>3 DEF JobRight, Exists
<1>11. CASE Remove(w)
  <2>1. /\ job[w].at = "remove" /\ job'[w].on = job[w].on /\ job'[w].draft = job[w].draft
        /\ job'[w].at = IF Exists(job[w].on) THEN "deleted" ELSE "answer"
        /\ rows' = [rows EXCEPT ![job[w].on] = NoRow]
    BY <1>11 DEF Remove, Goto, At, Jobs
  <2>2. ~Exists(t)' /\ Exists(t) /\ job[w].draft = NoSummary
    BY <2>1 DEF JobRight, Exists
  <2> QED BY <2>1, <2>2 DEF JobRight
<1>12. CASE PublishRow(w)
  <2>1. rows' = rows /\ job[w].at = "publish"
    BY <1>12 DEF PublishRow, At
  <2>2. CASE Finish(w)
    BY <1>2, <2>2 DEF Finish
  <2>3. CASE ~Finish(w)
    <3>1. /\ job'[w].on = job[w].on /\ job'[w].at \in {"require", "summary"}
          /\ job'[w].rec = job[w].rec
          /\ job'[w].at = "summary" => job[w].op = "create"
      BY <1>12, <2>3 DEF PublishRow, Goto, Jobs
    <3> QED BY <2>1, <3>1 DEF JobRight, Exists
  <2> QED BY <2>2, <2>3
<1>13. CASE PublishDeleted(w)
  <2>1. /\ rows' = rows /\ job[w].at = "deleted" /\ job'[w].on = job[w].on
        /\ job'[w].at = "answer" /\ job'[w].draft = job[w].draft
    BY <1>13 DEF PublishDeleted, Goto, At, Jobs
  <2> QED BY <2>1 DEF JobRight, Truth, Exists
<1>14. CASE Answer(w)
  BY <1>2, <1>14 DEF Answer, Finish
<1> QED BY <1>4, <1>5, <1>6, <1>7, <1>8, <1>9, <1>10, <1>11, <1>12, <1>13, <1>14 DEF InnerStep

\* A step that changes truth or jobs keeps what is said of the jobs.
LEMMA JobsKept ==
    ASSUME RInv, ClockInv, JobsInv, NEW w \in Writers,
           InnerStep(w) \/ PublishRow(w) \/ PublishDeleted(w) \/ Answer(w),
           doubted \cup Raced' \subseteq doubted'
    PROVE  JobsInv'
<1>1. /\ \A v \in Writers \ {w} : job'[v] = job[v]
      /\ \A t \in Threads : (rows'[t] # rows[t] \/ running'[t] # running[t]) => job'[w].on = t
  <2>1. CASE InnerStep(w)
    BY <2>1, InnerTells DEF Tells
  <2>2. CASE PublishRow(w) \/ PublishDeleted(w) \/ Answer(w)
    BY <2>2 DEF PublishRow, PublishDeleted, Answer, Finish, Goto, RInv, RegistryTypeOK
  <2> QED BY <2>1, <2>2
<1> SUFFICES ASSUME NEW t \in Threads, t \notin doubted'
             PROVE  /\ \A u, v \in Writers : job'[u].on = t /\ job'[v].on = t => u = v
                    /\ \A v \in Writers : job'[v].on = t => JobRight(v, t)'
  BY DEF JobsInv
<1>2. ASSUME NEW u \in Writers, NEW v \in Writers, job'[u].on = t, job'[v].on = t, u # v
      PROVE  FALSE
  <2> DEFINE S == {x \in Writers : job'[x].on = t}
  <2>1. Cardinality(S) > 1
    <3>1. S \in SUBSET Writers /\ u \in S /\ v \in S
      BY <1>2
    <3> HIDE DEF S
    <3> QED BY <1>2, <3>1, TwoRace
  <2>2. t \in Raced'
    BY <2>1 DEF Raced, WritersOn
  <2> QED BY <2>2
<1>3. ASSUME NEW v \in Writers, job'[v].on = t PROVE JobRight(v, t)'
  <2>1. t \notin doubted
    OBVIOUS
  <2>2. CASE v = w
    BY <1>3, <2>1, <2>2, OwnJob DEF JobsInv
  <2>3. CASE v # w
    <3>1. job'[v] = job[v] /\ job'[w].on # t
      BY <1>1, <1>2, <1>3, <2>3
    <3>2. rows'[t] = rows[t] /\ running'[t] = running[t] /\ JobRight(v, t)
      BY <1>1, <1>3, <2>1, <3>1 DEF JobsInv
    <3> QED BY <3>1, <3>2 DEF JobRight, Truth, Summary, Exists
  <2> QED BY <2>2, <2>3
<1> QED BY <1>2, <1>3

LEMMA RacedKept ==
    ASSUME Raced' \subseteq doubted' PROVE RacedInv'
BY DEF RacedInv

\* The time only moves on.
LEMMA ClockKept ==
    ASSUME RInv, ClockInv, [RegistryNext]_registryVars
    PROVE  ClockInv'
<1>1. clock \in Nat /\ \A w \in Writers : job[w].rec.stamp \in Nat
  BY DEF RInv, RegistryTypeOK, Jobs, Rows
<1>2. CASE UNCHANGED registryVars
  BY <1>2 DEF registryVars, ClockInv
<1>3. ASSUME NEW w \in Writers, InnerStep(w) \/ PublishRow(w) \/ PublishDeleted(w) \/ Answer(w)
      PROVE  ClockInv'
  <2>1. clock' \in {clock, clock + 1}
    BY <1>3 DEF InnerStep, BeginCreate, BeginUpdate, SetState, BeginDelete, Put, Save, Republish,
                Compose, Require, Summarise, Remove, PublishRow, PublishDeleted, Answer, Stamps
  <2> QED BY <1>1, <2>1 DEF ClockInv
<1> QED BY <1>2, <1>3 DEF RegistryNext

-----------------------------------------------------------------------------
(* Steps that leave the pages as they are.                                 *)

LEMMA Unmoved ==
    ASSUME NEW t \in Threads, rows'[t] = rows[t], running'[t] = running[t]
    PROVE  Truth(t)' = Truth(t) /\ (Exists(t)' <=> Exists(t)) /\ Key(t)' = Key(t)
BY DEF Truth, Summary, Exists, Key

SamePage(f) == /\ fetch'[f].at = fetch[f].at
               /\ fetch'[f].recs = fetch[f].recs
               /\ fetch'[f].page = fetch[f].page
               /\ fetch'[f].next = fetch[f].next
               /\ fetch'[f].from = fetch[f].from
               /\ fetch'[f].captured = fetch[f].captured

LEMMA SameShown ==
    ASSUME NEW t \in Threads, rows'[t] = rows[t], running'[t] = running[t], NEW f, SamePage(f)
    PROVE  PageShows(f, t)' <=> PageShows(f, t)
BY Unmoved DEF SamePage, PageShows, Unread, Shows, Before

LEMMA SameReloads ==
    ASSUME NEW t \in Threads, rows'[t] = rows[t], running'[t] = running[t],
           \A l \in Loads : SamePage(l), online' = online,
           (\E i \in DOMAIN feed : feed[i] = Opened) => \E i \in DOMAIN feed' : feed'[i] = Opened,
           Reloads(t)
    PROVE  Reloads(t)'
<1>1. \A l \in Loads : fetch'[l].at = fetch[l].at /\ (PageShows(l, t)' <=> PageShows(l, t))
  BY SameShown DEF SamePage
<1> QED BY <1>1 DEF Reloads

LEMMA SameMore ==
    ASSUME NEW t \in Threads, rows'[t] = rows[t], running'[t] = running[t], SamePage(More),
           list'[t] = list[t]
    PROVE  MoreShows(t)' <=> MoreShows(t)
BY Unmoved DEF SamePage, MoreShows, Unread, Shows, Before

\* News that was coming still is, and the tab has what it had: whoever was
\* right is, unless the thread changed, and then news is coming.
LEMMA TabStays ==
    ASSUME NEW t \in Threads,
           \/ rows'[t] = rows[t] /\ running'[t] = running[t]
           \/ Certain(t)',
           Coming(t) => Coming(t)',
           \A f \in Loads \cup {More} : SamePage(f),
           list'[t] = list[t], cursor' = cursor, error' = error, online' = online,
           (\E i \in DOMAIN feed : feed[i] = Opened) => \E i \in DOMAIN feed' : feed'[i] = Opened
    PROVE  /\ \A l \in Loads : PageShows(l, t) \/ Coming(t) => PageShows(l, t)' \/ Coming(t)'
           /\ \A l \in Loads : PageShows(l, t) \/ Coming(t) \/ Reloads(t)
                               => PageShows(l, t)' \/ Coming(t)' \/ Reloads(t)'
           /\ Shows(list[t], cursor, t) \/ Coming(t) \/ Reloads(t) \/ error
              => Shows(list[t], cursor, t)' \/ Coming(t)' \/ Reloads(t)' \/ error'
           /\ MoreShows(t) \/ Coming(t) \/ Reloads(t) \/ error
              => MoreShows(t)' \/ Coming(t)' \/ Reloads(t)' \/ error'
<1>1. CASE Certain(t)'
  <2>1. Coming(t)'
    BY <1>1 DEF Coming
  <2> QED BY <2>1
<1>2. CASE rows'[t] = rows[t] /\ running'[t] = running[t]
  <2>1. \A l \in Loads : PageShows(l, t)' <=> PageShows(l, t)
    BY <1>2, SameShown
  <2>2. Reloads(t) => Reloads(t)'
    BY <1>2, SameReloads
  <2>3. MoreShows(t)' <=> MoreShows(t)
    BY <1>2, SameMore
  <2>4. Shows(list[t], cursor, t)' <=> Shows(list[t], cursor, t)
    BY <1>2, Unmoved DEF Shows, Before
  <2> QED BY <2>1, <2>2, <2>3, <2>4
<1> QED BY <1>1, <1>2

\* The parts of the invariant that speak of what the tab has.
Shown == StillInv /\ LoadsInv /\ ListInv /\ MoreInv

LEMMA ShownStays ==
    ASSUME Shown, doubted \subseteq doubted', DOMAIN fetch' = DOMAIN fetch,
           \A t \in Threads : /\ (rows'[t] = rows[t] /\ running'[t] = running[t]) \/ Certain(t)'
                              /\ Coming(t) => Coming(t)'
                              /\ list'[t] = list[t],
           \A f \in Loads \cup {More} : SamePage(f) /\ fetch'[f].still = fetch[f].still,
           cursor' = cursor, error' = error, online' = online,
           (\E i \in DOMAIN feed : feed[i] = Opened) => \E i \in DOMAIN feed' : feed'[i] = Opened
    PROVE  Shown'
<1>1. StillInv'
  BY TabStays DEF Shown, StillInv, SamePage
<1>2. LoadsInv'
  BY TabStays DEF Shown, LoadsInv, SamePage
<1>3. ListInv'
  BY TabStays DEF Shown, ListInv
<1>4. MoreInv'
  BY TabStays DEF Shown, MoreInv, SamePage
<1> QED BY <1>1, <1>2, <1>3, <1>4 DEF Shown

LEMMA BlankStays ==
    ASSUME BlankInv, DOMAIN fetch' = DOMAIN fetch, DOMAIN fetch = Loads \cup {More},
           \A f \in Loads \cup {More} : SamePage(f)
    PROVE  BlankInv'
BY DEF BlankInv, Unread, SamePage

-----------------------------------------------------------------------------
(* The stream.                                                             *)

LEMMA NewsParts ==
    /\ Opened \in News /\ Opened.on = 0
    /\ \A t \in Threads : Deleted(t) \in News /\ Deleted(t).on = t /\ Deleted(t).row = NoSummary
    /\ \A t \in Threads, row \in Summaries :
         Updated(t, row) \in News /\ Updated(t, row).on = t /\ Updated(t, row).row = row
    /\ \A e \in News : e # Opened => e.on \in Threads /\ e.row \in Summaries
<1>1. NoSummary \in Summaries
  BY DEF NoSummary, Summaries, NoRow, Rows
<1>2. Opened \in News /\ Opened.on = 0
  BY DEF News, Opened
<1>3. \A t \in Threads : Deleted(t) \in News /\ Deleted(t).on = t /\ Deleted(t).row = NoSummary
  BY DEF News, Deleted
<1>4. ASSUME NEW t \in Threads, NEW row \in Summaries
      PROVE  Updated(t, row) \in News /\ Updated(t, row).on = t /\ Updated(t, row).row = row
  <2>1. Updated(t, row).on = t /\ Updated(t, row).row = row
    BY DEF Updated
  <2>2. Updated(t, row) \in {Updated(u, r) : u \in Threads, r \in Summaries}
    OBVIOUS
  <2> QED BY <2>1, <2>2 DEF News
<1>5. ASSUME NEW e \in News, e # Opened PROVE e.on \in Threads /\ e.row \in Summaries
  <2>1. CASE \E t \in Threads : e = Deleted(t)
    BY <1>1, <1>3, <2>1
  <2>2. CASE \E t \in Threads, row \in Summaries : e = Updated(t, row)
    BY <1>4, <2>2
  <2> QED BY <1>5, <2>1, <2>2 DEF News
<1> QED BY <1>2, <1>3, <1>4, <1>5

\* An event that is published is the last of its thread.
LEMMA Appended ==
    ASSUME feed \in Seq(News), NEW e \in News, feed' = Append(feed, e)
    PROVE  /\ feed' \in Seq(News)
           /\ \A t : HasEvent(t)' <=> HasEvent(t) \/ e.on = t
           /\ LastEvent(e.on, e.row)'
           /\ \A t, row : LastEvent(t, row) /\ t # e.on => LastEvent(t, row)'
           /\ (\E i \in DOMAIN feed : feed[i] = Opened) => \E i \in DOMAIN feed' : feed'[i] = Opened
<1> DEFINE n == Len(feed)
<1>1. /\ feed' \in Seq(News) /\ n \in Nat /\ DOMAIN feed = 1..n /\ DOMAIN feed' = 1..(n + 1)
      /\ \A i \in 1..n : feed'[i] = feed[i]
      /\ feed'[n + 1] = e
  OBVIOUS
<1> HIDE DEF n
<1>2. 1..(n + 1) = (1..n) \cup {n + 1} /\ \A j \in 1..(n + 1) : ~(j > n + 1)
  BY <1>1
<1>3. \A t : HasEvent(t)' <=> HasEvent(t) \/ e.on = t
  BY <1>1, <1>2 DEF HasEvent
<1>4. LastEvent(e.on, e.row)'
  BY <1>1, <1>2 DEF LastEvent
<1>5. \A t, row : LastEvent(t, row) /\ t # e.on => LastEvent(t, row)'
  BY <1>1, <1>2 DEF LastEvent
<1> QED BY <1>1, <1>2, <1>3, <1>4, <1>5

\* What is handed over leaves the rest as it is.
LEMMA Handed ==
    ASSUME feed \in Seq(News), feed # <<>>, feed' = Tail(feed)
    PROVE  /\ feed' \in Seq(News) /\ Head(feed) \in News
           /\ HasEvent(Head(feed).on)
           /\ \A t : HasEvent(t)' => HasEvent(t)
           /\ \A t : HasEvent(t) => HasEvent(t)' \/ Head(feed).on = t
           /\ \A t, row : LastEvent(t, row) =>
                LastEvent(t, row)' \/ (Head(feed).on = t /\ Head(feed).row = row /\ ~HasEvent(t)')
           /\ (\E i \in DOMAIN feed : feed[i] = Opened)
              => Head(feed) = Opened \/ \E i \in DOMAIN feed' : feed'[i] = Opened
<1> DEFINE n == Len(feed)
<1>1. /\ feed' \in Seq(News) /\ n \in Nat /\ n > 0 /\ DOMAIN feed = 1..n /\ DOMAIN feed' = 1..(n - 1)
      /\ \A i \in 1..(n - 1) : feed'[i] = feed[i + 1]
      /\ feed[1] = Head(feed) /\ Head(feed) \in News
  OBVIOUS
<1> HIDE DEF n
<1>2. /\ \A i \in 1..n : i = 1 \/ (i - 1 \in 1..(n - 1) /\ feed'[i - 1] = feed[i])
      /\ \A i \in 1..(n - 1) : i + 1 \in 1..n
  BY <1>1
<1>3. \A t : HasEvent(t)' => HasEvent(t)
  BY <1>1, <1>2 DEF HasEvent
<1>4. \A t : HasEvent(t) => HasEvent(t)' \/ Head(feed).on = t
  <2> TAKE t
  <2> HAVE HasEvent(t)
  <2>1. PICK i \in 1..n : feed[i].on = t
    BY <1>1 DEF HasEvent
  <2> QED BY <1>1, <1>2, <2>1 DEF HasEvent
<1>5. HasEvent(Head(feed).on)
  BY <1>1 DEF HasEvent
<1>6. \A t, row : LastEvent(t, row) =>
        LastEvent(t, row)' \/ (Head(feed).on = t /\ Head(feed).row = row /\ ~HasEvent(t)')
  <2> TAKE t, row
  <2> HAVE LastEvent(t, row)
  <2>1. PICK i \in 1..n : /\ feed[i].on = t /\ feed[i].row = row
                          /\ \A j \in 1..n : j > i => feed[j].on # t
    BY <1>1 DEF LastEvent
  <2>2. CASE i = 1
    <3>1. \A j \in 1..(n - 1) : feed'[j].on # t
      BY <1>1, <1>2, <2>1, <2>2
    <3> QED BY <1>1, <2>1, <2>2, <3>1 DEF HasEvent
  <2>3. CASE i # 1
    <3>1. i - 1 \in 1..(n - 1) /\ feed'[i - 1] = feed[i]
      BY <1>2, <2>3
    <3>2. ASSUME NEW j \in 1..(n - 1), j > i - 1 PROVE feed'[j].on # t
      <4>1. j + 1 \in 1..n /\ j + 1 > i /\ feed'[j] = feed[j + 1]
        BY <1>1, <3>2
      <4> QED BY <2>1, <4>1
    <3> QED BY <1>1, <2>1, <3>1, <3>2 DEF LastEvent
  <2> QED BY <2>2, <2>3
<1>7. (\E i \in DOMAIN feed : feed[i] = Opened)
      => Head(feed) = Opened \/ \E i \in DOMAIN feed' : feed'[i] = Opened
  <2> HAVE \E i \in DOMAIN feed : feed[i] = Opened
  <2>1. PICK i \in 1..n : feed[i] = Opened
    BY <1>1
  <2>2. i = 1 \/ (i - 1 \in DOMAIN feed' /\ feed'[i - 1] = Opened)
    BY <1>1, <1>2, <2>1
  <2> QED BY <1>1, <2>1, <2>2
<1>8. feed' \in Seq(News) /\ Head(feed) \in News
  BY <1>1
<1> QED BY <1>3, <1>4, <1>5, <1>6, <1>7, <1>8

-----------------------------------------------------------------------------
(* Writers' steps, and what they publish.                                  *)

\* DOMAIN and types of what the tab asked for.
LEMMA FetchTyped ==
    ASSUME TypeOK
    PROVE  /\ DOMAIN fetch = Loads \cup {More} /\ More \notin Loads
           /\ fetch \in [Loads \cup {More} -> Fetches]
BY DirectoryAssumption DEF TypeOK, More

TabParts == FeedTyped /\ RacedInv /\ ClockInv /\ JobsInv /\ EventsInv /\ BlankInv /\ Shown

LEMMA PartsOfTab == TabInv <=> TabParts
BY DEF TabInv, TabParts, Shown

\* Work and AnswerElsewhere: the tab hears nothing.
LEMMA WorkKeeps ==
    ASSUME DInv, Work \/ \E w \in Writers : AnswerElsewhere(w)
    PROVE  DInv'
<1>1. PICK w \in Writers : InnerStep(w) \/ Answer(w)
  BY DEF Work, AnswerElsewhere
<1>2. /\ UNCHANGED <<list, cursor, error, fetch, online, feed, opens>>
      /\ doubted' = doubted \cup Raced'
  BY DEF Work, AnswerElsewhere
<1>3. RInv /\ TypeOK /\ TabParts
  BY PartsOfTab DEF DInv
<1>4. RInv'
  BY <1>1, <1>3, RegistrySteps DEF RegistryNext
<1>5. TypeOK'
  BY <1>2, <1>3, <1>4 DEF TypeOK, RInv, Raced
<1>6. ClockInv' /\ RacedInv' /\ JobsInv'
  BY <1>1, <1>2, <1>3, ClockKept, JobsKept, RacedKept DEF RegistryNext, TabParts
<1>7. FeedTyped'
  BY <1>2, <1>3 DEF TabParts, FeedTyped
<1>8. \A t \in Threads : /\ (rows'[t] = rows[t] /\ running'[t] = running[t]) \/ Certain(t)'
                         /\ Certain(t) => Certain(t)'
                         /\ HasEvent(t)' <=> HasEvent(t)
  <2>1. \A t \in Threads : HasEvent(t)' <=> HasEvent(t)
    BY <1>2 DEF HasEvent
  <2>2. CASE InnerStep(w)
    BY <1>3, <2>1, <2>2, InnerCertain
  <2>3. CASE Answer(w)
    <3>1. rows' = rows /\ running' = running /\ job[w].at = "answer"
      BY <2>3 DEF Answer, At
    <3>2. ~PublishRow(w) /\ ~PublishDeleted(w)
      BY <3>1 DEF PublishRow, PublishDeleted, At
    <3> QED BY <1>3, <2>1, <2>3, <3>1, <3>2, OuterCertain
  <2> QED BY <1>1, <2>2, <2>3
<1>9. \A f \in Loads \cup {More} : SamePage(f) /\ fetch'[f].still = fetch[f].still
  BY <1>2 DEF SamePage
<1>10. Shown'
  BY <1>2, <1>3, <1>8, <1>9, ShownStays DEF Coming, TabParts
<1>11. BlankInv'
  BY <1>2, <1>3, <1>9, BlankStays, FetchTyped DEF TabParts
<1>12. EventsInv'
  <2> SUFFICES ASSUME NEW t \in Threads, t \notin doubted', HasEvent(t)', ~Certain(t)'
               PROVE  LastEvent(t, Truth(t))'
    BY DEF EventsInv
  <2>1. LastEvent(t, Truth(t)) /\ Truth(t)' = Truth(t)
    BY <1>2, <1>3, <1>8, Unmoved DEF TabParts, EventsInv
  <2> QED BY <1>2, <2>1 DEF LastEvent
<1> QED BY <1>4, <1>5, <1>6, <1>7, <1>10, <1>11, <1>12, PartsOfTab DEF DInv, TabParts, TabInv, Shown

LEMMA NewsTyped ==
    ASSUME NEW s \in Seq(News), NEW i \in DOMAIN s
    PROVE  \/ s[i] \in {Opened} \cup {Deleted(t) : t \in Threads}
           \/ /\ s[i].on \in Threads
              /\ s[i].row \in Summaries
              /\ s[i] = Updated(s[i].on, s[i].row)
<1>1. s[i] \in News
  OBVIOUS
<1>2. CASE \E t \in Threads, row \in Summaries : s[i] = Updated(t, row)
  BY <1>2, NewsParts
<1> QED BY <1>1, <1>2 DEF News

\* News goes out: to the tab, or the pages that are on their way lack it.
LEMMA EmitKeeps ==
    ASSUME DInv, NEW w \in Writers, EmitRow(w) \/ EmitDeleted(w)
    PROVE  DInv'
<1> DEFINE on == job[w].on
           news == IF PublishRow(w) THEN Updated(on, job[w].draft) ELSE Deleted(on)
<1>1. /\ PublishRow(w) \/ PublishDeleted(w)
      /\ job[w].at \in {"publish", "deleted"}
      /\ PublishRow(w) <=> job[w].at = "publish"
      /\ UNCHANGED <<list, cursor, error, online, opens>>
      /\ rows' = rows /\ running' = running
      /\ Emit(on, news)
  BY DEF EmitRow, EmitDeleted, PublishRow, PublishDeleted, At
<1>2. RInv /\ TypeOK /\ TabParts
  BY PartsOfTab DEF DInv
<1>3. RInv'
  BY <1>1, <1>2, RegistrySteps DEF RegistryNext
<1>4. on \in Threads /\ job[w].draft \in Summaries
  BY <1>1, <1>2 DEF RInv, RegistryTypeOK, Jobs
<1>5. PICK e \in News : /\ e = news /\ e.on = on
                       /\ e.row = IF job[w].at = "publish" THEN job[w].draft ELSE NoSummary
  BY <1>1, <1>4, NewsParts
<1> HIDE DEF news
<1>6. doubted' = doubted \cup Raced' /\ ClockInv' /\ RacedInv' /\ JobsInv'
  <2>1. doubted' = doubted \cup Raced'
    BY <1>1 DEF Emit
  <2> QED BY <1>1, <1>2, <2>1, ClockKept, JobsKept, RacedKept DEF RegistryNext, TabParts
<1>7. \A t \in Threads \ {on} : Certain(t) => Certain(t)'
  BY <1>1, <1>2, OuterCertain
<1>8. \A t \in Threads : Truth(t)' = Truth(t)
  BY <1>1, Unmoved
<1>9. on \notin doubted => e.row = Truth(on)
  <2>1. on \notin doubted => JobRight(w, on)
    BY <1>2, <1>4 DEF TabParts, JobsInv
  <2> QED BY <1>1, <1>5, <2>1 DEF JobRight, Truth
<1>10. CASE online
  <2>1. feed' = Append(feed, e) /\ UNCHANGED fetch /\ feed \in Seq(News)
    BY <1>1, <1>2, <1>5, <1>10 DEF Emit, TabParts, FeedTyped
  <2>2. /\ feed' \in Seq(News)
        /\ \A t : HasEvent(t)' <=> HasEvent(t) \/ e.on = t
        /\ LastEvent(e.on, e.row)'
        /\ \A t, row : LastEvent(t, row) /\ t # e.on => LastEvent(t, row)'
        /\ (\E i \in DOMAIN feed : feed[i] = Opened) => \E i \in DOMAIN feed' : feed'[i] = Opened
    BY <1>5, <2>1, Appended
  <2>3. TypeOK'
    <3>1. RegistryTypeOK' /\ doubted' \in SUBSET Threads
      BY <1>2, <1>3, <1>6 DEF RInv, TypeOK, Raced
    <3> QED BY <1>1, <1>2, <2>1, <2>2, <3>1, NewsTyped DEF TypeOK
  <2>4. FeedTyped'
    BY <1>1, <1>10, <2>2 DEF FeedTyped
  <2>5. \A f \in Loads \cup {More} : SamePage(f) /\ fetch'[f].still = fetch[f].still
    BY <2>1 DEF SamePage
  <2>6. \A t \in Threads : Coming(t) => Coming(t)'
    BY <1>5, <1>7, <2>2 DEF Coming
  <2>7. Shown'
    BY <1>1, <1>2, <1>6, <2>1, <2>2, <2>5, <2>6, ShownStays DEF TabParts
  <2>8. BlankInv'
    BY <1>2, <2>1, <2>5, BlankStays, FetchTyped DEF TabParts
  <2>9. EventsInv'
    <3> SUFFICES ASSUME NEW t \in Threads, t \notin doubted', HasEvent(t)', ~Certain(t)'
                 PROVE  LastEvent(t, Truth(t))'
      BY DEF EventsInv
    <3>1. CASE t = on
      <4>1. e.row = Truth(t)'
        BY <1>6, <1>8, <1>9, <3>1
      <4> QED BY <1>5, <2>2, <3>1, <4>1 DEF LastEvent
    <3>2. CASE t # on
      <4>1. LastEvent(t, Truth(t))
        BY <1>2, <1>5, <1>6, <1>7, <2>2, <3>2 DEF TabParts, EventsInv
      <4>2. PICK row : row = Truth(t)
        OBVIOUS
      <4>3. LastEvent(t, row)' /\ Truth(t)' = row
        BY <1>5, <1>8, <2>2, <3>2, <4>1, <4>2
      <4> QED BY <4>3 DEF LastEvent
    <3> QED BY <3>1, <3>2
  <2> QED BY <1>3, <1>6, <2>3, <2>4, <2>7, <2>8, <2>9, PartsOfTab DEF DInv, TabParts, TabInv, Shown
<1>11. CASE ~online
  <2>1. fetch' = Overtake(on) /\ UNCHANGED feed
    BY <1>1, <1>11 DEF Emit
  <2>2. fetch \in [Loads \cup {More} -> Fetches]
    BY <1>2, FetchTyped
  <2>3. /\ DOMAIN fetch' = DOMAIN fetch
        /\ fetch' \in [Loads \cup {More} -> Fetches]
        /\ \A f \in Loads \cup {More} : SamePage(f) /\ fetch'[f].still = fetch[f].still \ {on}
    BY <2>1, <2>2 DEF Overtake, SamePage, Fetches
  <2>4. feed = <<>>
    BY <1>2, <1>11 DEF TabParts, FeedTyped
  <2>5. \A t : ~HasEvent(t) /\ ~HasEvent(t)'
    BY <2>1, <2>4 DEF HasEvent
  <2>6. TypeOK'
    <3>1. RegistryTypeOK' /\ doubted' \in SUBSET Threads
      BY <1>2, <1>3, <1>6 DEF RInv, TypeOK, Raced
    <3> QED BY <1>1, <1>2, <2>1, <2>3, <3>1 DEF TypeOK
  <2>7. FeedTyped' /\ EventsInv'
    BY <1>1, <1>2, <2>1, <2>5 DEF FeedTyped, TabParts, EventsInv
  <2>8. \A t : Reloads(t)'
    BY <1>1, <1>11 DEF Reloads
  <2>9. BlankInv'
    BY <1>2, <2>3, BlankStays, FetchTyped DEF TabParts
  <2>10. \A f \in Loads \cup {More}, t \in Threads : PageShows(f, t)' <=> PageShows(f, t)
    BY <1>1, <2>3, SameShown
  <2>11. StillInv'
    <3> SUFFICES ASSUME NEW l \in Loads, NEW t \in Threads,
                        fetch'[l].at = "read", t \in fetch'[l].still
                 PROVE  PageShows(l, t)' \/ Coming(t)'
      BY DEF StillInv
    <3>1. fetch[l].at = "read" /\ t \in fetch[l].still /\ t # on
      BY <2>3 DEF SamePage
    <3>2. PageShows(l, t) \/ Certain(t)
      BY <1>2, <2>5, <3>1 DEF TabParts, Shown, StillInv, Coming
    <3> QED BY <1>7, <2>10, <3>1, <3>2 DEF Coming
  <2>12. LoadsInv' /\ ListInv'
    BY <2>8 DEF LoadsInv, ListInv
  <2>13. MoreInv'
    BY <1>1, <1>2, <1>6, <2>3, <2>8 DEF TabParts, Shown, MoreInv, SamePage
  <2> QED BY <1>3, <1>6, <2>6, <2>7, <2>9, <2>11, <2>12, <2>13, PartsOfTab
          DEF DInv, TabParts, TabInv, Shown
<1> QED BY <1>2, <1>10, <1>11 DEF TypeOK

\* What is heard of a thread, from the stream or in an answer, is what the list
\* shows of it; a page that is on its way lacks it.
LEMMA HearShows ==
    ASSUME DInv, NEW on \in Threads, NEW row, Hear(on, row),
           rows' = rows, running' = running, \A t \in Threads : Certain(t) => Certain(t)',
           UNCHANGED <<cursor, error, online>>,
           \A t \in Threads \ {on} : HasEvent(t) => HasEvent(t)',
           (\E i \in DOMAIN feed : feed[i] = Opened) => \E i \in DOMAIN feed' : feed'[i] = Opened,
           on \notin doubted => Coming(on)' \/ row = Truth(on)
    PROVE  /\ Shown' /\ BlankInv' /\ doubted \cup Raced' \subseteq doubted'
           /\ fetch' \in [Loads \cup {More} -> Fetches]
           /\ row \in Summaries => list' \in Lists
<1>1. TypeOK /\ TabParts
  BY PartsOfTab DEF DInv
<1>2. /\ fetch \in [Loads \cup {More} -> Fetches] /\ list \in [Threads -> Summaries]
      /\ fetch' = Overtake(on) /\ list' = [list EXCEPT ![on] = row]
      /\ doubted' = doubted \cup Raced' \cup (IF InTheMaking = {} THEN {} ELSE {on})
  BY <1>1, FetchTyped DEF Hear, TypeOK, Lists
<1>3. /\ DOMAIN fetch' = DOMAIN fetch /\ DOMAIN fetch = Loads \cup {More}
      /\ fetch' \in [Loads \cup {More} -> Fetches]
      /\ \A f \in Loads \cup {More} : SamePage(f) /\ fetch'[f].still = fetch[f].still \ {on}
  BY <1>2 DEF Overtake, SamePage, Fetches
<1>4. \A t \in Threads \ {on} : list'[t] = list[t] /\ (Coming(t) => Coming(t)')
  BY <1>2 DEF Coming
<1>5. on \notin doubted' => /\ \A l \in Loads : fetch[l].at # "read"
                            /\ fetch[More].at \notin {"sent", "read"}
  BY <1>2, <1>3 DEF InTheMaking
<1>6. fetch[More].at \in {"none", "sent", "read"}
  BY <1>2 DEF Fetches
<1>7. StillInv'
  <2> SUFFICES ASSUME NEW l \in Loads, NEW t \in Threads,
                      fetch'[l].at = "read", t \in fetch'[l].still
               PROVE  PageShows(l, t)' \/ Coming(t)'
    BY DEF StillInv
  <2>1. fetch[l].at = "read" /\ t \in fetch[l].still /\ t # on
    BY <1>3 DEF SamePage
  <2>2. PageShows(l, t) \/ Coming(t)
    BY <1>1, <2>1 DEF TabParts, Shown, StillInv
  <2> QED BY <1>3, <1>4, <2>1, <2>2, SameShown
<1>8. \A t \in Threads : Reloads(t) => Reloads(t)'
  BY <1>3, SameReloads
<1>9. LoadsInv'
  <2> SUFFICES ASSUME NEW l \in Loads, NEW t \in Threads, t \notin doubted', fetch'[l].at = "read"
               PROVE  PageShows(l, t)' \/ Coming(t)' \/ Reloads(t)'
    BY DEF LoadsInv
  <2>1. fetch[l].at = "read" /\ t # on /\ t \notin doubted
    BY <1>2, <1>3, <1>5 DEF SamePage
  <2>2. PageShows(l, t) \/ Coming(t) \/ Reloads(t)
    BY <1>1, <2>1 DEF TabParts, Shown, LoadsInv
  <2> QED BY <1>3, <1>4, <1>8, <2>1, <2>2, SameShown
<1>10. ListInv'
  <2> SUFFICES ASSUME NEW t \in Threads, t \notin doubted'
               PROVE  Shows(list[t], cursor, t)' \/ Coming(t)' \/ Reloads(t)' \/ error'
    BY DEF ListInv
  <2>1. t \notin doubted
    BY <1>2
  <2>2. CASE t = on
    BY <1>2, <2>1, <2>2, Unmoved DEF Shows
  <2>3. CASE t # on
    <3>1. Shows(list[t], cursor, t) \/ Coming(t) \/ Reloads(t) \/ error
      BY <1>1, <2>1 DEF TabParts, Shown, ListInv
    <3>2. Shows(list[t], cursor, t) => Shows(list[t], cursor, t)'
      BY <1>4, <2>3, Unmoved DEF Shows, Before
    <3> QED BY <1>4, <1>8, <2>3, <3>1, <3>2
  <2> QED BY <2>2, <2>3
<1>11. MoreInv'
  <2> SUFFICES ASSUME NEW t \in Threads, t \notin doubted'
               PROVE  /\ fetch'[More].at # "none" => /\ fetch'[More].captured[t] = list'[t]
                                                     /\ fetch'[More].from = cursor' /\ cursor' # NoKey
                      /\ fetch'[More].at = "read" =>
                           MoreShows(t)' \/ Coming(t)' \/ Reloads(t)' \/ error'
    BY DEF MoreInv
  <2>1. t \notin doubted /\ fetch'[More].at = fetch[More].at
    BY <1>2, <1>3 DEF SamePage
  <2>2. CASE t = on
    BY <1>5, <1>6, <2>1, <2>2
  <2>3. CASE t # on
    <3>1. /\ fetch[More].at # "none" => /\ fetch[More].captured[t] = list[t]
                                        /\ fetch[More].from = cursor /\ cursor # NoKey
          /\ fetch[More].at = "read" => MoreShows(t) \/ Coming(t) \/ Reloads(t) \/ error
      BY <1>1, <2>1 DEF TabParts, Shown, MoreInv
    <3>2. MoreShows(t)' <=> MoreShows(t)
      BY <1>3, <1>4, <2>3, SameMore
    <3> QED BY <1>3, <1>4, <1>8, <2>3, <3>1, <3>2 DEF SamePage
  <2> QED BY <2>2, <2>3
<1>12. BlankInv'
  BY <1>1, <1>3, BlankStays DEF TabParts
<1>13. row \in Summaries => list' \in Lists
  BY <1>2 DEF Lists
<1> QED BY <1>2, <1>3, <1>7, <1>9, <1>10, <1>11, <1>12, <1>13 DEF Shown

\* AnswerHere: the answer to a command of the tab.
LEMMA AnswerKeeps ==
    ASSUME DInv, NEW w \in Writers, AnswerHere(w)
    PROVE  DInv'
<1> DEFINE on == job[w].on
<1>1. RInv /\ TypeOK /\ TabParts
  BY PartsOfTab DEF DInv
<1>2. /\ Answer(w) /\ Hear(on, job[w].draft)
      /\ UNCHANGED <<cursor, error, online, feed, opens>>
      /\ rows' = rows /\ running' = running /\ job[w].at = "answer"
      /\ ~PublishRow(w) /\ ~PublishDeleted(w)
  BY DEF AnswerHere, Answer, At, PublishRow, PublishDeleted
<1>3. on \in Threads /\ job[w].draft \in Summaries
  BY <1>1, <1>2 DEF RInv, RegistryTypeOK, Jobs
<1>4. RInv'
  BY <1>1, <1>2, RegistrySteps DEF RegistryNext
<1>5. \A t \in Threads : Certain(t) => Certain(t)'
  BY <1>1, <1>2, OuterCertain
<1>6. \A t : HasEvent(t)' <=> HasEvent(t)
  BY <1>2 DEF HasEvent
<1>7. on \notin doubted => job[w].draft = Truth(on)
  BY <1>1, <1>2, <1>3 DEF TabParts, JobsInv, JobRight
<1>8. /\ Shown' /\ BlankInv' /\ doubted \cup Raced' \subseteq doubted'
      /\ fetch' \in [Loads \cup {More} -> Fetches] /\ list' \in Lists
  BY <1>2, <1>3, <1>5, <1>6, <1>7, HearShows
<1>9. ClockInv' /\ RacedInv' /\ JobsInv'
  BY <1>1, <1>2, <1>8, ClockKept, JobsKept, RacedKept DEF RegistryNext, TabParts
<1>10. TypeOK'
  <2>1. RegistryTypeOK' /\ doubted' \in SUBSET Threads
    BY <1>1, <1>2, <1>3, <1>4 DEF RInv, TypeOK, Raced, Hear
  <2> QED BY <1>1, <1>2, <1>8, <2>1 DEF TypeOK
<1>11. FeedTyped'
  BY <1>1, <1>2 DEF TabParts, FeedTyped
<1>12. EventsInv'
  <2> SUFFICES ASSUME NEW t \in Threads, t \notin doubted', HasEvent(t)', ~Certain(t)'
               PROVE  LastEvent(t, Truth(t))'
    BY DEF EventsInv
  <2>1. LastEvent(t, Truth(t)) /\ Truth(t)' = Truth(t)
    BY <1>1, <1>2, <1>5, <1>6, <1>8, Unmoved DEF TabParts, EventsInv
  <2> QED BY <1>2, <2>1 DEF LastEvent
<1> QED BY <1>4, <1>8, <1>9, <1>10, <1>11, <1>12, PartsOfTab DEF DInv, TabParts, TabInv, Shown

\* Steps of the tab: nothing changes in the registry.
LEMMA RegistryStill ==
    ASSUME DInv, UNCHANGED registryVars
    PROVE  /\ RInv' /\ ClockInv' /\ RegistryTypeOK'
           /\ rows' = rows /\ running' = running /\ Raced' = Raced
           /\ \A t : (Certain(t)' <=> Certain(t))
           /\ \A t \in Threads : Truth(t)' = Truth(t)
           /\ doubted \subseteq doubted' => JobsInv' /\ RacedInv'
<1>1. rows' = rows /\ running' = running /\ job' = job /\ clock' = clock
  BY DEF registryVars
<1>2. RInv' /\ RegistryTypeOK'
  BY RegistrySteps DEF DInv, RInv
<1>3. Raced' = Raced
  BY <1>1 DEF Raced, WritersOn
<1>4. \A t : (Certain(t)' <=> Certain(t))
  BY <1>1 DEF Certain, Exists
<1>5. \A t \in Threads : Truth(t)' = Truth(t)
  BY <1>1, Unmoved
<1>6. doubted \subseteq doubted' => JobsInv' /\ RacedInv'
  <2> SUFFICES ASSUME doubted \subseteq doubted' PROVE JobsInv' /\ RacedInv'
    OBVIOUS
  <2>1. RacedInv'
    BY <1>3 DEF DInv, TabInv, RacedInv
  <2>2. JobsInv'
    BY <1>1 DEF DInv, TabInv, JobsInv, JobRight, Truth, Summary, Exists
  <2> QED BY <2>1, <2>2
<1>7. ClockInv'
  BY <1>1 DEF DInv, TabInv, ClockInv
<1> QED BY <1>1, <1>2, <1>3, <1>4, <1>5, <1>6, <1>7

\* TakeEvent: the next event of the stream.
LEMMA EventKeeps ==
    ASSUME DInv, TakeEvent
    PROVE  DInv'
<1>0. PICK e : e = Head(feed)
  OBVIOUS
<1>1. RInv /\ TypeOK /\ TabParts
  BY PartsOfTab DEF DInv
<1>2. /\ UNCHANGED registryVars /\ Hear(e.on, e.row) /\ e # Opened
      /\ UNCHANGED <<cursor, error, online, opens>>
      /\ feed # <<>> /\ feed' = Tail(feed) /\ feed \in Seq(News) /\ (~online => feed = <<>>)
  BY <1>0, <1>1 DEF TakeEvent, TabParts, FeedTyped
<1>3. /\ feed' \in Seq(News) /\ e \in News /\ HasEvent(e.on)
      /\ \A t : HasEvent(t)' => HasEvent(t)
      /\ \A t : HasEvent(t) => HasEvent(t)' \/ e.on = t
      /\ \A t, row : LastEvent(t, row) => LastEvent(t, row)' \/ (e.on = t /\ e.row = row /\ ~HasEvent(t)')
      /\ (\E i \in DOMAIN feed : feed[i] = Opened) => \E i \in DOMAIN feed' : feed'[i] = Opened
  BY <1>0, <1>2, Handed
<1>4. e.on \in Threads /\ e.row \in Summaries
  BY <1>2, <1>3, NewsParts
<1>5. /\ RInv' /\ ClockInv' /\ RegistryTypeOK' /\ rows' = rows /\ running' = running
      /\ \A t : (Certain(t)' <=> Certain(t))
      /\ \A t \in Threads : Truth(t)' = Truth(t)
      /\ doubted \subseteq doubted' => JobsInv' /\ RacedInv'
  BY <1>2, RegistryStill
<1>6. e.on \notin doubted => Coming(e.on)' \/ e.row = Truth(e.on)
  <2> SUFFICES ASSUME e.on \notin doubted, ~Certain(e.on), ~HasEvent(e.on)' PROVE e.row = Truth(e.on)
    BY <1>5 DEF Coming
  <2>1. LastEvent(e.on, Truth(e.on))
    BY <1>1, <1>3, <1>4 DEF TabParts, EventsInv
  <2>2. PICK row : row = Truth(e.on)
    OBVIOUS
  <2>3. ~LastEvent(e.on, row)'
    BY DEF HasEvent, LastEvent
  <2> QED BY <1>3, <2>1, <2>2, <2>3
<1>7. /\ Shown' /\ BlankInv' /\ doubted \cup Raced' \subseteq doubted'
      /\ fetch' \in [Loads \cup {More} -> Fetches] /\ list' \in Lists
  BY <1>2, <1>3, <1>4, <1>5, <1>6, HearShows
<1>8. TypeOK'
  <2>1. doubted' \in SUBSET Threads
    BY <1>1, <1>2, <1>4 DEF TypeOK, Hear, Raced
  <2> QED BY <1>1, <1>2, <1>3, <1>5, <1>7, <2>1, NewsTyped DEF TypeOK
<1>9. FeedTyped'
  BY <1>2, <1>3 DEF FeedTyped
<1>10. EventsInv'
  <2> SUFFICES ASSUME NEW t \in Threads, t \notin doubted', HasEvent(t)', ~Certain(t)'
               PROVE  LastEvent(t, Truth(t))'
    BY DEF EventsInv
  <2>1. LastEvent(t, Truth(t))
    BY <1>1, <1>3, <1>5, <1>7 DEF TabParts, EventsInv
  <2>2. PICK row : row = Truth(t)
    OBVIOUS
  <2>3. LastEvent(t, row)' /\ Truth(t)' = row
    BY <1>3, <1>5, <2>1, <2>2
  <2> QED BY <2>3 DEF LastEvent
<1> QED BY <1>5, <1>7, <1>8, <1>9, <1>10, PartsOfTab DEF DInv, TabParts, TabInv, Shown

\* Connect: the open event is in front, and makes the tab load.
LEMMA ConnectKeeps ==
    ASSUME DInv, Connect
    PROVE  DInv'
<1>1. RInv /\ TypeOK /\ TabParts
  BY PartsOfTab DEF DInv
<1>2. /\ UNCHANGED registryVars /\ UNCHANGED <<list, cursor, error, fetch, doubted>>
      /\ ~online /\ online' = TRUE /\ opens' = opens + 1 /\ feed' = <<Opened>> /\ opens < MaxOpens
      /\ feed = <<>>
  BY <1>1 DEF Connect, MayOpen, TabParts, FeedTyped
<1>3. /\ RInv' /\ ClockInv' /\ RegistryTypeOK' /\ rows' = rows /\ running' = running
      /\ \A t : (Certain(t)' <=> Certain(t))
      /\ \A t \in Threads : Truth(t)' = Truth(t)
      /\ JobsInv' /\ RacedInv'
  BY <1>2, RegistryStill
<1>4. /\ feed' \in Seq(News) /\ 1 \in DOMAIN feed' /\ feed'[1] = Opened
      /\ \A t \in Threads : ~HasEvent(t)'
  BY <1>2, NewsParts, RegistryAssumption DEF HasEvent
<1>5. \A t : Reloads(t)'
  BY <1>4 DEF Reloads
<1>6. \A t : ~HasEvent(t)
  BY <1>2 DEF HasEvent
<1>7. \A f \in Loads \cup {More} : SamePage(f) /\ fetch'[f].still = fetch[f].still
  BY <1>2 DEF SamePage
<1>8. BlankInv'
  BY <1>1, <1>2, <1>7, BlankStays, FetchTyped DEF TabParts
<1>9. TypeOK'
  <2>1. opens' \in 0..MaxOpens
    BY <1>1, <1>2, DirectoryAssumption DEF TypeOK
  <2>2. \A i \in DOMAIN feed' : feed'[i] = Opened
    BY <1>2
  <2> QED BY <1>1, <1>2, <1>3, <2>1, <2>2 DEF TypeOK
<1>10. FeedTyped' /\ EventsInv'
  BY <1>2, <1>4 DEF FeedTyped, EventsInv
<1>11. StillInv'
  <2> SUFFICES ASSUME NEW l \in Loads, NEW t \in Threads,
                      fetch'[l].at = "read", t \in fetch'[l].still
               PROVE  PageShows(l, t)' \/ Coming(t)'
    BY DEF StillInv
  <2>1. PageShows(l, t) \/ Certain(t)
    BY <1>1, <1>2, <1>6 DEF TabParts, Shown, StillInv, Coming
  <2> QED BY <1>3, <1>7, <2>1, SameShown DEF Coming
<1>12. LoadsInv' /\ ListInv'
  BY <1>5 DEF LoadsInv, ListInv
<1>13. MoreInv'
  BY <1>1, <1>2, <1>5 DEF TabParts, Shown, MoreInv
<1> QED BY <1>3, <1>8, <1>9, <1>10, <1>11, <1>12, <1>13, PartsOfTab
        DEF DInv, TabParts, TabInv, Shown

\* Disconnect: what was under way on the stream is lost, and known to be.
LEMMA DisconnectKeeps ==
    ASSUME DInv, Disconnect
    PROVE  DInv'
<1>1. RInv /\ TypeOK /\ TabParts
  BY PartsOfTab DEF DInv
<1>2. /\ UNCHANGED registryVars /\ UNCHANGED <<list, cursor, error, opens, doubted>>
      /\ online' = FALSE /\ feed' = <<>>
      /\ fetch' = [f \in DOMAIN fetch |-> [fetch[f] EXCEPT !.still = @ \ Unheard]]
  BY DEF Disconnect
<1>3. /\ RInv' /\ ClockInv' /\ RegistryTypeOK' /\ rows' = rows /\ running' = running
      /\ \A t : (Certain(t)' <=> Certain(t))
      /\ JobsInv' /\ RacedInv'
  BY <1>2, RegistryStill
<1>4. /\ feed' \in Seq(News) /\ \A t : ~HasEvent(t)'
  BY <1>2 DEF HasEvent
<1>5. \A t : Reloads(t)'
  BY <1>2 DEF Reloads
<1>6. /\ DOMAIN fetch' = DOMAIN fetch /\ DOMAIN fetch = Loads \cup {More}
      /\ fetch' \in [Loads \cup {More} -> Fetches]
      /\ \A f \in Loads \cup {More} : SamePage(f) /\ fetch'[f].still = fetch[f].still \ Unheard
  <2>1. fetch \in [Loads \cup {More} -> Fetches]
    BY <1>1, FetchTyped
  <2> QED BY <1>2, <2>1 DEF SamePage, Fetches
<1>7. \A t \in Threads : HasEvent(t) => t \in Unheard
  BY RegistryAssumption DEF HasEvent, Unheard
<1>8. BlankInv'
  BY <1>1, <1>6, BlankStays DEF TabParts
<1>9. TypeOK'
  <2>1. \A i \in DOMAIN feed' : FALSE
    BY <1>2
  <2> HIDE <1>2
  <2>2. UNCHANGED <<list, cursor, error, opens, doubted>> /\ online' = FALSE
    BY <1>2
  <2> QED BY <1>1, <1>3, <1>6, <2>1, <2>2 DEF TypeOK
<1>10. FeedTyped' /\ EventsInv'
  BY <1>2, <1>4 DEF FeedTyped, EventsInv
<1>11. StillInv'
  <2> SUFFICES ASSUME NEW l \in Loads, NEW t \in Threads,
                      fetch'[l].at = "read", t \in fetch'[l].still
               PROVE  PageShows(l, t)' \/ Coming(t)'
    BY DEF StillInv
  <2>1. fetch[l].at = "read" /\ t \in fetch[l].still /\ t \notin Unheard
    BY <1>6 DEF SamePage
  <2>2. PageShows(l, t) \/ Certain(t)
    BY <1>1, <1>7, <2>1 DEF TabParts, Shown, StillInv, Coming
  <2> QED BY <1>3, <1>6, <2>2, SameShown DEF Coming
<1>12. LoadsInv' /\ ListInv'
  BY <1>5 DEF LoadsInv, ListInv
<1>13. MoreInv'
  BY <1>1, <1>2, <1>5, <1>6 DEF TabParts, Shown, MoreInv, SamePage
<1> QED BY <1>3, <1>8, <1>9, <1>10, <1>11, <1>12, <1>13, PartsOfTab
        DEF DInv, TabParts, TabInv, Shown

\* A step of the tab that takes nothing from the stream.
LEMMA TabSteps ==
    ASSUME DInv, UNCHANGED registryVars, UNCHANGED <<online, feed, opens>>
    PROVE  /\ RInv' /\ ClockInv' /\ FeedTyped' /\ rows' = rows /\ running' = running
           /\ \A t : (HasEvent(t)' <=> HasEvent(t)) /\ (Coming(t)' <=> Coming(t))
           /\ \A t \in Threads : Truth(t)' = Truth(t)
           /\ doubted \subseteq doubted' => JobsInv' /\ RacedInv' /\ EventsInv'
           /\ /\ fetch' \in [Loads \cup {More} -> Fetches]
              /\ list' \in Lists /\ cursor' \in Keys /\ error' \in BOOLEAN
              /\ doubted' \subseteq Threads
              => TypeOK'
<1>1. /\ RInv' /\ ClockInv' /\ RegistryTypeOK' /\ rows' = rows /\ running' = running
      /\ \A t : (Certain(t)' <=> Certain(t))
      /\ \A t \in Threads : Truth(t)' = Truth(t)
      /\ doubted \subseteq doubted' => JobsInv' /\ RacedInv'
  BY RegistryStill
<1>2. FeedTyped'
  BY DEF DInv, TabInv, FeedTyped
<1>3. \A t : (HasEvent(t)' <=> HasEvent(t)) /\ (Coming(t)' <=> Coming(t))
  BY <1>1 DEF HasEvent, Coming
<1>4. doubted \subseteq doubted' => EventsInv'
  <2> SUFFICES ASSUME doubted \subseteq doubted',
                      NEW t \in Threads, t \notin doubted', HasEvent(t)', ~Certain(t)'
               PROVE  LastEvent(t, Truth(t))'
    BY DEF EventsInv
  <2>1. LastEvent(t, Truth(t)) /\ Truth(t)' = Truth(t)
    BY <1>1, <1>3 DEF DInv, TabInv, EventsInv
  <2> QED BY <2>1 DEF LastEvent
<1>5. ASSUME /\ fetch' \in [Loads \cup {More} -> Fetches]
             /\ list' \in Lists /\ cursor' \in Keys /\ error' \in BOOLEAN
             /\ doubted' \subseteq Threads
      PROVE  TypeOK'
  BY <1>1, <1>5 DEF DInv, TypeOK
<1> QED BY <1>1, <1>2, <1>3, <1>4, <1>5

\* TakeOpen: the stream is open, and the list is asked for.
LEMMA OpenKeeps ==
    ASSUME DInv, TakeOpen
    PROVE  DInv'
<1>1. RInv /\ TypeOK /\ TabParts
  BY PartsOfTab DEF DInv
<1>2. PICK l \in Loads : fetch[l].at = "none" /\ fetch' = [fetch EXCEPT ![l] = Sent]
  BY DEF TakeOpen
<1>3. PICK e : e = Head(feed)
  OBVIOUS
<1>4. /\ UNCHANGED registryVars /\ UNCHANGED <<list, cursor, error, online, opens, doubted>>
      /\ e = Opened /\ feed # <<>> /\ feed' = Tail(feed) /\ feed \in Seq(News) /\ (~online => feed = <<>>)
  BY <1>1, <1>3 DEF TakeOpen, TabParts, FeedTyped
<1>5. /\ feed' \in Seq(News)
      /\ \A t : HasEvent(t)' => HasEvent(t)
      /\ \A t : HasEvent(t) => HasEvent(t)' \/ e.on = t
      /\ \A t, row : LastEvent(t, row) => LastEvent(t, row)' \/ (e.on = t /\ ~HasEvent(t)')
  BY <1>3, <1>4, Handed
<1>6. \A t \in Threads : e.on # t
  BY <1>4, NewsParts, RegistryAssumption
<1>7. /\ RInv' /\ ClockInv' /\ RegistryTypeOK' /\ rows' = rows /\ running' = running
      /\ \A t : (Certain(t)' <=> Certain(t))
      /\ \A t \in Threads : Truth(t)' = Truth(t)
      /\ JobsInv' /\ RacedInv'
  BY <1>4, RegistryStill
<1>8. \A t \in Threads : Coming(t)' <=> Coming(t)
  BY <1>5, <1>6, <1>7 DEF Coming
<1>9. /\ fetch' \in [Loads \cup {More} -> Fetches]
      /\ DOMAIN fetch' = Loads \cup {More} /\ l \in DOMAIN fetch /\ l # More
      /\ fetch'[l] = Sent
      /\ \A f \in (Loads \cup {More}) \ {l} : fetch'[f] = fetch[f]
  <2>1. Sent \in Fetches
    BY DEF Sent, NoFetch, Fetches, NoKey, Keys, NoRow, Rows, NoList, Lists, NoSummary, Summaries
  <2> QED BY <1>1, <1>2, <2>1, FetchTyped
<1>10. /\ Sent.at = "sent" /\ Sent.from = NoKey /\ Sent.page = NoList
       /\ \A t \in Threads : Sent.recs[t] = NoRow
  BY DEF Sent, NoFetch
<1>11. \A t : Reloads(t)'
  BY <1>9, <1>10 DEF Reloads
<1>12. BlankInv'
  BY <1>1, <1>9, <1>10, FetchTyped DEF TabParts, BlankInv, Unread
<1>13. TypeOK'
  BY <1>1, <1>4, <1>5, <1>7, <1>9, NewsTyped DEF TypeOK
<1>14. FeedTyped'
  BY <1>4, <1>5 DEF FeedTyped
<1>15. EventsInv'
  <2> SUFFICES ASSUME NEW t \in Threads, t \notin doubted', HasEvent(t)', ~Certain(t)'
               PROVE  LastEvent(t, Truth(t))'
    BY DEF EventsInv
  <2>1. LastEvent(t, Truth(t))
    BY <1>1, <1>4, <1>5, <1>7 DEF TabParts, EventsInv
  <2>2. PICK row : row = Truth(t)
    OBVIOUS
  <2>3. LastEvent(t, row)' /\ Truth(t)' = row
    BY <1>5, <1>6, <1>7, <2>1, <2>2
  <2> QED BY <2>3 DEF LastEvent
<1>16. StillInv'
  <2> SUFFICES ASSUME NEW k \in Loads, NEW t \in Threads,
                      fetch'[k].at = "read", t \in fetch'[k].still
               PROVE  PageShows(k, t)' \/ Coming(t)'
    BY DEF StillInv
  <2>1. k # l
    BY <1>9, <1>10
  <2>2. SamePage(k) /\ fetch'[k] = fetch[k]
    BY <1>9, <2>1 DEF SamePage
  <2>3. PageShows(k, t) \/ Coming(t)
    BY <1>1, <2>2 DEF TabParts, Shown, StillInv
  <2> QED BY <1>7, <1>8, <2>2, <2>3, SameShown
<1>17. LoadsInv' /\ ListInv'
  BY <1>11 DEF LoadsInv, ListInv
<1>18. MoreInv'
  BY <1>1, <1>4, <1>9, <1>11 DEF TabParts, Shown, MoreInv
<1> QED BY <1>7, <1>12, <1>13, <1>14, <1>15, <1>16, <1>17, <1>18, PartsOfTab
        DEF DInv, TabParts, TabInv, Shown

-----------------------------------------------------------------------------
(* The pages the tab asks for.                                             *)

\* ReadPage: what was read is as it is.
LEMMA ReadKeeps ==
    ASSUME DInv, NEW f \in Loads \cup {More}, ReadPage(f)
    PROVE  DInv'
<1>1. RInv /\ TypeOK /\ TabParts
  BY PartsOfTab DEF DInv
<1>2. /\ UNCHANGED registryVars
      /\ UNCHANGED <<list, cursor, error, online, feed, opens, doubted>>
  BY DEF ReadPage
<1>3. /\ RInv' /\ ClockInv' /\ FeedTyped' /\ rows' = rows /\ running' = running
      /\ \A t : Coming(t)' <=> Coming(t)
      /\ \A t \in Threads : Truth(t)' = Truth(t)
      /\ JobsInv' /\ RacedInv' /\ EventsInv'
      /\ fetch' \in [Loads \cup {More} -> Fetches] => TypeOK'
  BY <1>1, <1>2, TabSteps DEF TypeOK
<1>4. PICK from : from = fetch[f].from
  OBVIOUS
<1>5. PICK recs : recs = [t \in Threads |-> IF t \in Page(from) THEN rows[t] ELSE NoRow]
  OBVIOUS
<1>6. PICK next : next = NextKey(from)
  OBVIOUS
<1>7. PICK still : still = Quiet
  OBVIOUS
<1>8. /\ fetch[f].at = "sent"
      /\ fetch' = [fetch EXCEPT ![f].at = "read", ![f].recs = recs, ![f].next = next, ![f].still = still]
  BY <1>4, <1>5, <1>6, <1>7 DEF ReadPage
<1>9. fetch \in [Loads \cup {More} -> Fetches] /\ More \notin Loads
  BY <1>1, FetchTyped
<1>10. from \in Keys /\ fetch[f].page = NoList
  BY <1>1, <1>4, <1>8, <1>9 DEF Fetches, TabParts, BlankInv
<1>11. next \in Keys /\ \A t \in Candidates(from) \ Page(from) : next # NoKey /\ Before(Key(t), next)
  BY <1>1, <1>6, <1>10, PageEnds
<1>12. \A t \in Page(from) : t \in Threads /\ Exists(t)
  BY DEF Page, Candidates
<1>13. recs \in [Threads -> Rows] /\ still \subseteq Threads
  BY <1>1, <1>5, <1>7 DEF RInv, RegistryTypeOK, Rows, NoRow, Quiet
<1>14. /\ fetch'[f].at = "read" /\ fetch'[f].recs = recs /\ fetch'[f].next = next
       /\ fetch'[f].still = still /\ fetch'[f].page = NoList /\ fetch'[f].from = from
       /\ fetch'[f].captured = fetch[f].captured
       /\ DOMAIN fetch' = Loads \cup {More}
       /\ \A g \in (Loads \cup {More}) \ {f} : fetch'[g] = fetch[g]
  BY <1>4, <1>8, <1>9, <1>10 DEF Fetches
<1>15. fetch' \in [Loads \cup {More} -> Fetches]
  BY <1>8, <1>9, <1>11, <1>13 DEF Fetches
<1>16. \A t \in Threads : /\ t \in Page(from) => Unread(f, t)' /\ recs[t] = rows[t]
                          /\ t \notin Page(from) => ~Unread(f, t)'
  BY <1>3, <1>5, <1>12, <1>14 DEF Unread, Exists
<1>17. ASSUME f \in Loads, NEW t \in Threads PROVE PageShows(f, t)'
  <2>1. CASE t \in Page(from)
    BY <1>3, <1>14, <1>16, <2>1 DEF PageShows
  <2>2. CASE t \notin Page(from)
    <3>1. from = NoKey
      BY <1>1, <1>4, <1>17 DEF TabParts, BlankInv
    <3>2. ~Exists(t) \/ (Exists(t) /\ next # NoKey /\ Before(Key(t), next))
      BY <1>11, <2>2, <3>1 DEF Candidates
    <3>3. NoList[t] = NoSummary /\ (~Exists(t) => Truth(t) = NoSummary)
      BY DEF NoList, Truth
    <3>4. Shows(fetch[f].page[t], fetch[f].next, t)'
      BY <1>3, <1>14, <3>2, <3>3, Unmoved DEF Shows, Before
    <3> QED BY <1>16, <2>2, <3>4 DEF PageShows
  <2> QED BY <2>1, <2>2
<1>18. \A g \in (Loads \cup {More}) \ {f} : SamePage(g)
  BY <1>14 DEF SamePage
<1>19. \A t \in Threads, l \in Loads : (PageShows(l, t) \/ l = f) => PageShows(l, t)'
  BY <1>3, <1>17, <1>18, SameShown
<1>20. \A t \in Threads : Reloads(t) => Reloads(t)'
  <2> SUFFICES ASSUME NEW t \in Threads, Reloads(t) PROVE Reloads(t)'
    OBVIOUS
  <2>1. CASE ~online \/ \E i \in DOMAIN feed : feed[i] = Opened
    BY <1>2, <2>1 DEF Reloads
  <2>2. CASE \E l \in Loads : fetch[l].at = "sent"
    <3>1. PICK l \in Loads : fetch[l].at = "sent"
      BY <2>2
    <3>2. fetch'[l].at = "sent" \/ (fetch'[l].at = "read" /\ PageShows(l, t)')
      BY <1>14, <1>17, <3>1
    <3> QED BY <3>2 DEF Reloads
  <2>3. CASE \E l \in Loads : fetch[l].at = "read" /\ PageShows(l, t)
    <3>1. PICK l \in Loads : fetch[l].at = "read" /\ PageShows(l, t)
      BY <2>3
    <3>2. fetch'[l].at = "read" /\ PageShows(l, t)'
      BY <1>14, <1>19, <3>1
    <3> QED BY <3>2 DEF Reloads
  <2> QED BY <2>1, <2>2, <2>3 DEF Reloads
<1>21. BlankInv'
  <2>1. \A l \in Loads : fetch'[l].from = NoKey
    BY <1>1, <1>4, <1>14 DEF TabParts, BlankInv
  <2>2. ASSUME NEW g \in Loads \cup {More}, fetch'[g].at # "read"
        PROVE  fetch'[g].page = NoList /\ \A t \in Threads : fetch'[g].recs[t] = NoRow
    BY <1>1, <1>9, <1>14, <2>2 DEF TabParts, BlankInv, Unread
  <2> QED BY <1>14, <2>1, <2>2 DEF BlankInv, Unread
<1>22. StillInv'
  <2> SUFFICES ASSUME NEW l \in Loads, NEW t \in Threads,
                      fetch'[l].at = "read", t \in fetch'[l].still
               PROVE  PageShows(l, t)' \/ Coming(t)'
    BY DEF StillInv
  <2>1. l = f \/ PageShows(l, t) \/ Coming(t)
    BY <1>1, <1>14 DEF TabParts, Shown, StillInv
  <2> QED BY <1>3, <1>19, <2>1
<1>23. LoadsInv'
  <2> SUFFICES ASSUME NEW l \in Loads, NEW t \in Threads \ doubted, fetch'[l].at = "read"
               PROVE  PageShows(l, t)' \/ Coming(t)' \/ Reloads(t)'
    BY <1>2 DEF LoadsInv
  <2>1. l = f \/ PageShows(l, t) \/ Coming(t) \/ Reloads(t)
    BY <1>1, <1>14 DEF TabParts, Shown, LoadsInv
  <2> QED BY <1>3, <1>19, <1>20, <2>1
<1>24. ListInv'
  <2> SUFFICES ASSUME NEW t \in Threads \ doubted
               PROVE  Shows(list[t], cursor, t)' \/ Coming(t)' \/ Reloads(t)' \/ error'
    BY <1>2 DEF ListInv
  <2>1. Shows(list[t], cursor, t) \/ Coming(t) \/ Reloads(t) \/ error
    BY <1>1 DEF TabParts, Shown, ListInv
  <2>2. Shows(list[t], cursor, t) => Shows(list[t], cursor, t)'
    BY <1>2, <1>3, Unmoved DEF Shows, Before
  <2> QED BY <1>2, <1>3, <1>20, <2>1, <2>2
<1>25. MoreInv'
  <2> SUFFICES ASSUME NEW t \in Threads \ doubted
               PROVE  /\ fetch'[More].at # "none" => /\ fetch'[More].captured[t] = list[t]
                                                     /\ fetch'[More].from = cursor /\ cursor # NoKey
                      /\ fetch'[More].at = "read" =>
                           MoreShows(t)' \/ Coming(t)' \/ Reloads(t)' \/ error'
    BY <1>2 DEF MoreInv
  <2>1. /\ fetch[More].at # "none" => /\ fetch[More].captured[t] = list[t]
                                      /\ fetch[More].from = cursor /\ cursor # NoKey
        /\ fetch[More].at = "read" => MoreShows(t) \/ Coming(t) \/ Reloads(t) \/ error
    BY <1>1 DEF TabParts, Shown, MoreInv
  <2>2. CASE f # More
    <3>1. SamePage(More) /\ fetch'[More] = fetch[More]
      BY <1>14, <1>18, <2>2
    <3>2. MoreShows(t)' <=> MoreShows(t)
      BY <1>2, <1>3, <3>1, SameMore
    <3> QED BY <1>2, <1>3, <1>20, <2>1, <3>1, <3>2
  <2>3. CASE f = More
    <3>1. from = cursor /\ cursor # NoKey /\ fetch[More].captured[t] = list[t]
      BY <1>4, <1>8, <2>1, <2>3
    <3>2. ASSUME Shows(list[t], cursor, t) PROVE MoreShows(t)'
      <4>1. CASE t \in Page(from)
        BY <1>3, <1>14, <1>16, <2>3, <4>1 DEF MoreShows
      <4>2. CASE t \notin Page(from)
        <5>1. \/ list[t] = Truth(t)
              \/ list[t] = NoSummary /\ Exists(t) /\ next # NoKey /\ Before(Key(t), next)
          BY <1>11, <3>1, <3>2, <4>2 DEF Shows, Candidates
        <5>2. NoList[t] = NoSummary
          BY DEF NoList
        <5>3. ~Unread(More, t)' /\ fetch'[More].next = next /\ fetch'[More].page[t] = NoSummary
          BY <1>14, <1>16, <2>3, <4>2, <5>2
        <5>4. Shows(list[t], fetch[More].next, t)'
          BY <1>2, <1>3, <5>1, <5>3, Unmoved DEF Shows, Before
        <5> QED BY <5>3, <5>4 DEF MoreShows
      <4> QED BY <4>1, <4>2
    <3>3. Shows(list[t], cursor, t) \/ Coming(t) \/ Reloads(t) \/ error
      BY <1>1 DEF TabParts, Shown, ListInv
    <3> QED BY <1>2, <1>3, <1>14, <1>20, <2>3, <3>1, <3>2, <3>3
  <2> QED BY <2>2, <2>3
<1> QED BY <1>3, <1>15, <1>21, <1>22, <1>23, <1>24, <1>25, PartsOfTab
        DEF DInv, TabParts, TabInv, Shown

\* ComposePage: a record that is as it is becomes the row of its thread.
LEMMA ComposeKeeps ==
    ASSUME DInv, NEW f \in Loads \cup {More}, NEW u \in Threads, ComposePage(f, u)
    PROVE  DInv'
<1>1. RInv /\ TypeOK /\ TabParts
  BY PartsOfTab DEF DInv
<1>2. /\ UNCHANGED registryVars
      /\ UNCHANGED <<list, cursor, error, online, feed, opens, doubted>>
  BY DEF ComposePage
<1>3. /\ RInv' /\ ClockInv' /\ FeedTyped' /\ rows' = rows /\ running' = running
      /\ \A t : Coming(t)' <=> Coming(t)
      /\ \A t \in Threads : Truth(t)' = Truth(t)
      /\ JobsInv' /\ RacedInv' /\ EventsInv'
      /\ fetch' \in [Loads \cup {More} -> Fetches] => TypeOK'
  BY <1>1, <1>2, TabSteps DEF TypeOK
<1>4. PICK rec : rec = fetch[f].recs[u]
  OBVIOUS
<1>5. PICK row : row = Summary(u, rec)
  OBVIOUS
<1>6. /\ rec # NoRow
      /\ fetch' = [fetch EXCEPT ![f].page[u] = row, ![f].recs[u] = NoRow]
  BY <1>4, <1>5 DEF ComposePage
<1>7. fetch \in [Loads \cup {More} -> Fetches] /\ More \notin Loads
  BY <1>1, FetchTyped
<1>8. fetch[f].at = "read"
  BY <1>1, <1>4, <1>6, <1>7 DEF TabParts, BlankInv, Unread
<1>9. rec \in Rows /\ row \in Summaries /\ row # NoSummary /\ NoRow \in Rows
  <2>1. rec \in Rows
    BY <1>4, <1>7 DEF Fetches
  <2>2. running[u] \in BOOLEAN
    BY <1>1 DEF RInv, RegistryTypeOK
  <2> QED BY <1>5, <1>6, <2>1, <2>2 DEF Summary, Summaries, NoSummary, NoRow, Rows
<1>10. PICK p, r : p = [fetch[f].page EXCEPT ![u] = row] /\ r = [fetch[f].recs EXCEPT ![u] = NoRow]
  OBVIOUS
<1>11. /\ p \in Lists /\ r \in [Threads -> Rows]
       /\ p[u] = row /\ r[u] = NoRow
       /\ \A t \in Threads \ {u} : p[t] = fetch[f].page[t] /\ r[t] = fetch[f].recs[t]
  BY <1>7, <1>9, <1>10 DEF Fetches, Lists
<1>12. /\ fetch'[f].at = "read" /\ fetch'[f].recs = r /\ fetch'[f].page = p
       /\ fetch'[f].next = fetch[f].next /\ fetch'[f].still = fetch[f].still
       /\ fetch'[f].from = fetch[f].from /\ fetch'[f].captured = fetch[f].captured
       /\ DOMAIN fetch' = Loads \cup {More}
       /\ \A g \in (Loads \cup {More}) \ {f} : fetch'[g] = fetch[g]
  BY <1>6, <1>7, <1>8, <1>10 DEF Fetches
<1>13. fetch' \in [Loads \cup {More} -> Fetches]
  <2>1. fetch' = [fetch EXCEPT ![f] = [fetch[f] EXCEPT !.page = p, !.recs = r]]
    BY <1>6, <1>7, <1>10 DEF Fetches
  <2>2. PICK q : q = fetch[f]
    OBVIOUS
  <2>3. q \in Fetches
    BY <1>7, <2>2
  <2>4. [q EXCEPT !.page = p, !.recs = r] \in Fetches
    BY <1>11, <2>3 DEF Fetches
  <2> QED BY <1>7, <2>1, <2>2, <2>4
<1>14. \A g \in (Loads \cup {More}) \ {f} : SamePage(g)
  BY <1>12 DEF SamePage
<1>15. ~Unread(f, u)' /\ (rec = rows[u] => row = Truth(u))
  BY <1>5, <1>6, <1>11, <1>12 DEF Unread, Truth, Exists
<1>16. \A t \in Threads : PageShows(f, t) => PageShows(f, t)'
  <2> SUFFICES ASSUME NEW t \in Threads, PageShows(f, t) PROVE PageShows(f, t)'
    OBVIOUS
  <2>1. CASE t = u
    <3>1. row = Truth(t)
      BY <1>4, <1>6, <1>15, <2>1 DEF PageShows, Unread
    <3> QED BY <1>3, <1>11, <1>12, <1>15, <2>1, <3>1 DEF PageShows, Shows
  <2>2. CASE t # u
    BY <1>3, <1>11, <1>12, <2>2, Unmoved DEF PageShows, Unread, Shows, Before
  <2> QED BY <2>1, <2>2
<1>17. \A t \in Threads, l \in Loads : PageShows(l, t) => PageShows(l, t)'
  BY <1>3, <1>14, <1>16, SameShown
<1>18. \A t \in Threads : Reloads(t) => Reloads(t)'
  <2>1. \A l \in Loads : fetch'[l].at = fetch[l].at
    BY <1>8, <1>12
  <2> QED BY <1>2, <1>17, <2>1 DEF Reloads
<1>19. BlankInv'
  <2>1. ASSUME NEW g \in Loads \cup {More}, fetch'[g].at # "read"
        PROVE  fetch'[g].page = NoList /\ \A t \in Threads : fetch'[g].recs[t] = NoRow
    BY <1>1, <1>7, <1>12, <2>1 DEF TabParts, BlankInv, Unread
  <2>2. \A l \in Loads : fetch'[l].from = NoKey
    BY <1>1, <1>12 DEF TabParts, BlankInv
  <2> QED BY <1>12, <2>1, <2>2 DEF BlankInv, Unread
<1>20. StillInv'
  BY <1>1, <1>3, <1>8, <1>12, <1>17 DEF TabParts, Shown, StillInv
<1>21. LoadsInv'
  BY <1>1, <1>2, <1>3, <1>8, <1>12, <1>17, <1>18 DEF TabParts, Shown, LoadsInv
<1>22. ListInv'
  <2> SUFFICES ASSUME NEW t \in Threads \ doubted
               PROVE  Shows(list[t], cursor, t)' \/ Coming(t)' \/ Reloads(t)' \/ error'
    BY <1>2 DEF ListInv
  <2>1. Shows(list[t], cursor, t) \/ Coming(t) \/ Reloads(t) \/ error
    BY <1>1 DEF TabParts, Shown, ListInv
  <2>2. Shows(list[t], cursor, t) => Shows(list[t], cursor, t)'
    BY <1>2, <1>3, Unmoved DEF Shows, Before
  <2> QED BY <1>2, <1>3, <1>18, <2>1, <2>2
<1>23. \A t \in Threads : MoreShows(t) => MoreShows(t)'
  <2> SUFFICES ASSUME NEW t \in Threads, MoreShows(t) PROVE MoreShows(t)'
    OBVIOUS
  <2>1. CASE f # More
    BY <1>2, <1>3, <1>14, <2>1, SameMore
  <2>2. CASE f = More /\ t = u
    <3>1. row = Truth(t)
      BY <1>4, <1>6, <1>15, <2>2 DEF MoreShows, Unread
    <3>2. Shows(row, fetch[More].next, t)'
      BY <1>3, <2>2, <3>1 DEF Shows
    <3> QED BY <1>9, <1>11, <1>12, <1>15, <2>2, <3>2 DEF MoreShows
  <2>3. CASE f = More /\ t # u
    BY <1>2, <1>3, <1>11, <1>12, <2>3, Unmoved DEF MoreShows, Unread, Shows, Before
  <2> QED BY <2>1, <2>2, <2>3
<1>24. MoreInv'
  <2>1. /\ fetch'[More].at = fetch[More].at /\ fetch'[More].captured = fetch[More].captured
        /\ fetch'[More].from = fetch[More].from
    BY <1>8, <1>12
  <2> QED BY <1>1, <1>2, <1>3, <1>18, <1>23, <2>1 DEF TabParts, Shown, MoreInv
<1> QED BY <1>3, <1>13, <1>19, <1>20, <1>21, <1>22, <1>24, PartsOfTab
        DEF DInv, TabParts, TabInv, Shown

\* A load that ends leaves the others as they are.
LEMMA EndedLoad ==
    ASSUME DInv, UNCHANGED registryVars, UNCHANGED <<online, feed, opens>>,
           NEW l \in Loads, fetch' = [fetch EXCEPT ![l] = NoFetch]
    PROVE  /\ fetch' \in [Loads \cup {More} -> Fetches] /\ fetch'[l].at = "none"
           /\ \A f \in (Loads \cup {More}) \ {l} : fetch'[f] = fetch[f] /\ SamePage(f)
           /\ BlankInv' /\ StillInv'
           /\ \A t \in Threads, k \in Loads \ {l} : PageShows(k, t)' <=> PageShows(k, t)
<1>1. RInv /\ TypeOK /\ TabParts
  BY PartsOfTab DEF DInv
<1>2. rows' = rows /\ running' = running /\ \A t : Coming(t)' <=> Coming(t)
  BY TabSteps
<1>3. fetch \in [Loads \cup {More} -> Fetches] /\ More \notin Loads
  BY <1>1, FetchTyped
<1>4. /\ NoFetch \in Fetches /\ NoFetch.at = "none" /\ NoFetch.from = NoKey /\ NoFetch.page = NoList
      /\ \A t \in Threads : NoFetch.recs[t] = NoRow
  BY DEF NoFetch, Fetches, NoKey, Keys, NoRow, Rows, NoList, Lists, NoSummary, Summaries
<1>5. /\ fetch' \in [Loads \cup {More} -> Fetches] /\ fetch'[l] = NoFetch
      /\ \A f \in (Loads \cup {More}) \ {l} : fetch'[f] = fetch[f]
  BY <1>3, <1>4
<1>6. \A f \in (Loads \cup {More}) \ {l} : SamePage(f)
  BY <1>5 DEF SamePage
<1>7. \A t \in Threads, k \in Loads \ {l} : PageShows(k, t)' <=> PageShows(k, t)
  BY <1>2, <1>6, SameShown
<1>8. BlankInv'
  <2>1. ASSUME NEW g \in Loads \cup {More}, fetch'[g].at # "read"
        PROVE  fetch'[g].page = NoList /\ \A t \in Threads : fetch'[g].recs[t] = NoRow
    BY <1>1, <1>3, <1>4, <1>5, <2>1 DEF TabParts, BlankInv, Unread
  <2>2. \A k \in Loads : fetch'[k].from = NoKey
    BY <1>1, <1>4, <1>5 DEF TabParts, BlankInv
  <2> QED BY <1>5, <2>1, <2>2 DEF BlankInv, Unread
<1>9. StillInv'
  <2> SUFFICES ASSUME NEW k \in Loads, NEW t \in Threads,
                      fetch'[k].at = "read", t \in fetch'[k].still
               PROVE  PageShows(k, t)' \/ Coming(t)'
    BY DEF StillInv
  <2>1. k # l /\ fetch'[k] = fetch[k]
    BY <1>4, <1>5
  <2> QED BY <1>1, <1>2, <1>7, <2>1 DEF TabParts, Shown, StillInv
<1> QED BY <1>4, <1>5, <1>6, <1>7, <1>8, <1>9

\* A load on its way that is not outdated shows the thread, or news is coming.
LEMMA NotOutdated ==
    ASSUME DInv, NEW l, NEW k \in Loads \ {l}, fetch[k].at = "read",
           NEW t \in Threads, t \notin Outdated(l)
    PROVE  PageShows(k, t) \/ Coming(t)
<1>1. k \in InTheMaking \ {l, More}
  BY FetchTyped DEF DInv, InTheMaking
<1>2. t \in fetch[k].still
  BY <1>1 DEF Outdated
<1> QED BY <1>2 DEF DInv, TabInv, StillInv

\* LoadDone: the page replaces the list, and ends the doubt of the threads that
\* nobody was at work on.
LEMMA LoadKeeps ==
    ASSUME DInv, NEW l \in Loads, LoadDone(l)
    PROVE  DInv'
<1>1. RInv /\ TypeOK /\ TabParts
  BY PartsOfTab DEF DInv
<1>2. /\ UNCHANGED registryVars /\ UNCHANGED <<online, feed, opens>>
      /\ fetch' = [fetch EXCEPT ![l] = NoFetch] /\ fetch[l].at = "read"
      /\ \A t \in Threads : ~Unread(l, t)
      /\ list' = fetch[l].page /\ cursor' = fetch[l].next /\ error' = FALSE
      /\ fetch[More].at # "none" => doubted' = Threads
      /\ fetch[More].at = "none" => doubted' = (doubted \ Sure) \cup Outdated(l)
  BY DEF LoadDone, Arrived, Unread
<1>3. /\ fetch' \in [Loads \cup {More} -> Fetches] /\ fetch'[l].at = "none"
      /\ \A f \in (Loads \cup {More}) \ {l} : fetch'[f] = fetch[f] /\ SamePage(f)
      /\ BlankInv' /\ StillInv'
      /\ \A t \in Threads, k \in Loads \ {l} : PageShows(k, t)' <=> PageShows(k, t)
  BY <1>2, EndedLoad
<1>4. /\ fetch \in [Loads \cup {More} -> Fetches] /\ More \notin Loads /\ l \in Loads \cup {More}
      /\ DOMAIN fetch = Loads \cup {More}
  BY <1>1, FetchTyped
<1>5. list' \in Lists /\ cursor' \in Keys
  <2>1. fetch[l] \in Fetches
    BY <1>4
  <2> QED BY <1>2, <2>1 DEF Fetches
<1>6. doubted' \subseteq Threads
  BY <1>1, <1>2 DEF TypeOK, Outdated
<1>7. /\ RInv' /\ ClockInv' /\ FeedTyped' /\ rows' = rows /\ running' = running
      /\ \A t : (HasEvent(t)' <=> HasEvent(t)) /\ (Coming(t)' <=> Coming(t))
      /\ \A t \in Threads : Truth(t)' = Truth(t)
      /\ TypeOK'
  BY <1>2, <1>3, <1>5, <1>6, TabSteps
<1>8. /\ Raced' = Raced /\ \A t : (Certain(t)' <=> Certain(t))
      /\ job' = job
  BY <1>2, RegistryStill DEF registryVars
<1>9. \A t \in Threads \ doubted' : /\ fetch[More].at = "none" /\ t \notin Outdated(l)
                                    /\ t \notin doubted \/ t \in Sure
  BY <1>2
<1>10. \A t \in Sure : /\ \A w \in Writers : job[w].on # t
                       /\ ~HasEvent(t) /\ ~(t \in Raced) /\ t \in fetch[l].still
  <2> SUFFICES ASSUME NEW t \in Sure
               PROVE  /\ \A w \in Writers : job[w].on # t
                      /\ ~HasEvent(t) /\ ~(t \in Raced) /\ t \in fetch[l].still
    OBVIOUS
  <2>1. WritersOn(t) = {} /\ t \notin Unheard /\ t \in Threads
    BY DEF Sure, Quiet
  <2>2. \A w \in Writers : job[w].on # t
    BY <2>1 DEF WritersOn
  <2>3. ~HasEvent(t)
    BY <2>1, RegistryAssumption DEF HasEvent, Unheard
  <2>4. ~(t \in Raced)
    BY <2>1, FS_EmptySet DEF Raced
  <2>5. l \in InTheMaking
    BY <1>2, <1>4 DEF InTheMaking
  <2> QED BY <2>2, <2>3, <2>4, <2>5 DEF Sure
<1>11. RacedInv'
  <2> SUFFICES ASSUME NEW t \in Raced PROVE t \in doubted'
    BY <1>8 DEF RacedInv
  <2>1. t \in Threads /\ t \in doubted
    BY <1>1 DEF TabParts, RacedInv, Raced
  <2> QED BY <1>9, <1>10, <2>1
<1>12. JobsInv'
  <2> SUFFICES ASSUME NEW t \in Threads \ doubted'
               PROVE  /\ \A v, w \in Writers : job'[v].on = t /\ job'[w].on = t => v = w
                      /\ \A w \in Writers : job'[w].on = t => JobRight(w, t)'
    BY DEF JobsInv
  <2>1. \A w \in Writers : JobRight(w, t) => JobRight(w, t)'
    BY <1>7, <1>8 DEF JobRight, Exists
  <2>2. \/ \A w \in Writers : job[w].on # t
        \/ /\ \A v, w \in Writers : job[v].on = t /\ job[w].on = t => v = w
           /\ \A w \in Writers : job[w].on = t => JobRight(w, t)
    BY <1>1, <1>9, <1>10 DEF TabParts, JobsInv
  <2> QED BY <1>8, <2>1, <2>2
<1>13. EventsInv'
  <2> SUFFICES ASSUME NEW t \in Threads \ doubted', HasEvent(t), ~Certain(t)
               PROVE  LastEvent(t, Truth(t))'
    BY <1>7, <1>8 DEF EventsInv
  <2>1. LastEvent(t, Truth(t)) /\ Truth(t)' = Truth(t)
    BY <1>1, <1>7, <1>9, <1>10 DEF TabParts, EventsInv
  <2> QED BY <1>2, <2>1 DEF LastEvent
<1>14. LoadsInv'
  <2> SUFFICES ASSUME NEW k \in Loads, NEW t \in Threads \ doubted', fetch'[k].at = "read"
               PROVE  PageShows(k, t)' \/ Coming(t)' \/ Reloads(t)'
    BY DEF LoadsInv
  <2>1. k # l /\ fetch[k].at = "read"
    BY <1>3
  <2>2. PageShows(k, t) \/ Coming(t)
    BY <1>9, <2>1, NotOutdated
  <2> QED BY <1>3, <1>7, <2>1, <2>2
<1>15. ListInv'
  <2> SUFFICES ASSUME NEW t \in Threads \ doubted'
               PROVE  Shows(list[t], cursor, t)' \/ Coming(t)' \/ Reloads(t)'
    BY DEF ListInv
  <2>1. PageShows(l, t) \/ Coming(t) \/ Reloads(t)
    BY <1>1, <1>2, <1>9, <1>10 DEF TabParts, Shown, LoadsInv, StillInv
  <2>2. PageShows(l, t) => Shows(list[t], cursor, t)'
    <3>1. PageShows(l, t) => Shows(fetch[l].page[t], fetch[l].next, t)
      BY <1>2 DEF PageShows
    <3> QED BY <1>2, <1>7, <3>1, Unmoved DEF Shows, Before
  <2>3. Reloads(t) /\ ~PageShows(l, t) => Reloads(t)'
    BY <1>2, <1>3 DEF Reloads
  <2> QED BY <1>7, <2>1, <2>2, <2>3
<1>16. MoreInv'
  <2> SUFFICES ASSUME NEW t \in Threads \ doubted' PROVE fetch'[More].at = "none"
    BY DEF MoreInv
  <2> QED BY <1>3, <1>4, <1>9
<1> QED BY <1>3, <1>7, <1>11, <1>12, <1>13, <1>14, <1>15, <1>16 DEF DInv, TabInv

\* LoadFails: the list is behind the error.
LEMMA FailKeeps ==
    ASSUME DInv, NEW l \in Loads, LoadFails(l)
    PROVE  DInv'
<1>1. RInv /\ TypeOK /\ TabParts
  BY PartsOfTab DEF DInv
<1>2. /\ UNCHANGED registryVars /\ UNCHANGED <<online, feed, opens>>
      /\ fetch' = [fetch EXCEPT ![l] = NoFetch]
      /\ list' = list /\ cursor' = cursor /\ error' = TRUE
      /\ doubted' = doubted \cup Outdated(l)
  BY DEF LoadFails
<1>3. /\ fetch' \in [Loads \cup {More} -> Fetches] /\ fetch'[l].at = "none"
      /\ \A f \in (Loads \cup {More}) \ {l} : fetch'[f] = fetch[f] /\ SamePage(f)
      /\ BlankInv' /\ StillInv'
      /\ \A t \in Threads, k \in Loads \ {l} : PageShows(k, t)' <=> PageShows(k, t)
  BY <1>2, EndedLoad
<1>4. More \notin Loads
  BY <1>1, FetchTyped
<1>5. doubted' \subseteq Threads /\ list' \in Lists /\ cursor' \in Keys
  BY <1>1, <1>2 DEF TypeOK, Outdated
<1>6. /\ RInv' /\ ClockInv' /\ FeedTyped' /\ \A t : (Coming(t)' <=> Coming(t))
      /\ JobsInv' /\ RacedInv' /\ EventsInv' /\ TypeOK'
  BY <1>2, <1>3, <1>5, TabSteps
<1>7. LoadsInv'
  <2> SUFFICES ASSUME NEW k \in Loads, NEW t \in Threads \ doubted', fetch'[k].at = "read"
               PROVE  PageShows(k, t)' \/ Coming(t)' \/ Reloads(t)'
    BY DEF LoadsInv
  <2>1. k # l /\ fetch[k].at = "read"
    BY <1>3
  <2>2. PageShows(k, t) \/ Coming(t)
    BY <1>2, <2>1, NotOutdated
  <2> QED BY <1>3, <1>6, <2>1, <2>2
<1>8. ListInv'
  BY <1>2 DEF ListInv
<1>9. MoreInv'
  <2>1. fetch'[More] = fetch[More]
    BY <1>3, <1>4
  <2> QED BY <1>1, <1>2, <2>1 DEF TabParts, Shown, MoreInv
<1> QED BY <1>3, <1>6, <1>7, <1>8, <1>9 DEF DInv, TabInv

\* The steps of loadMore leave the loads as they are.
LEMMA MoreSteps ==
    ASSUME DInv, UNCHANGED registryVars, UNCHANGED <<error, online, feed, opens, doubted>>,
           NEW q \in Fetches, fetch' = [fetch EXCEPT ![More] = q],
           q.at # "read", q.page = NoList, \A t \in Threads : q.recs[t] = NoRow,
           list' \in Lists, cursor' \in Keys
    PROVE  /\ RInv' /\ ClockInv' /\ FeedTyped' /\ TypeOK' /\ rows' = rows /\ running' = running
           /\ JobsInv' /\ RacedInv' /\ EventsInv' /\ BlankInv' /\ StillInv' /\ LoadsInv'
           /\ \A t \in Threads : /\ Truth(t)' = Truth(t) /\ (Coming(t)' <=> Coming(t))
                                 /\ Reloads(t) => Reloads(t)'
           /\ fetch'[More] = q
<1>1. RInv /\ TypeOK /\ TabParts
  BY PartsOfTab DEF DInv
<1>2. fetch \in [Loads \cup {More} -> Fetches] /\ More \notin Loads
  BY <1>1, FetchTyped
<1>3. /\ fetch' \in [Loads \cup {More} -> Fetches] /\ fetch'[More] = q
      /\ \A l \in Loads : fetch'[l] = fetch[l] /\ SamePage(l)
  BY <1>2 DEF SamePage
<1>4. doubted \subseteq Threads /\ error \in BOOLEAN
  BY <1>1 DEF TypeOK
<1>5. /\ RInv' /\ ClockInv' /\ FeedTyped' /\ TypeOK' /\ rows' = rows /\ running' = running
      /\ JobsInv' /\ RacedInv' /\ EventsInv'
      /\ \A t : Coming(t)' <=> Coming(t)
      /\ \A t \in Threads : Truth(t)' = Truth(t)
  BY <1>3, <1>4, TabSteps
<1>6. \A t \in Threads, l \in Loads : PageShows(l, t)' <=> PageShows(l, t)
  BY <1>3, <1>5, SameShown
<1>7. \A t \in Threads : Reloads(t) => Reloads(t)'
  BY <1>3, <1>6 DEF Reloads
<1>8. BlankInv'
  <2>1. ASSUME NEW g \in Loads \cup {More}, fetch'[g].at # "read"
        PROVE  fetch'[g].page = NoList /\ \A t \in Threads : fetch'[g].recs[t] = NoRow
    BY <1>1, <1>2, <1>3, <2>1 DEF TabParts, BlankInv, Unread
  <2>2. \A l \in Loads : fetch'[l].from = NoKey
    BY <1>1, <1>3 DEF TabParts, BlankInv
  <2> QED BY <1>3, <2>1, <2>2 DEF BlankInv, Unread
<1>9. StillInv'
  BY <1>1, <1>3, <1>5, <1>6 DEF TabParts, Shown, StillInv
<1>10. LoadsInv'
  BY <1>1, <1>3, <1>5, <1>6, <1>7 DEF TabParts, Shown, LoadsInv
<1> QED BY <1>3, <1>5, <1>7, <1>8, <1>9, <1>10

LEMMA NoFetchTyped ==
    /\ NoFetch \in Fetches /\ NoFetch.at = "none" /\ NoFetch.page = NoList
    /\ \A t \in Threads : NoFetch.recs[t] = NoRow
BY DEF NoFetch, Fetches, NoKey, Keys, NoRow, Rows, NoList, Lists, NoSummary, Summaries

\* StartMore and MoreFails: the list is as it was.
LEMMA AskMoreKeeps ==
    ASSUME DInv, StartMore \/ MoreFails
    PROVE  DInv'
<1>1. RInv /\ TypeOK /\ TabParts
  BY PartsOfTab DEF DInv
<1>2. PICK q : /\ fetch' = [fetch EXCEPT ![More] = q]
               /\ \/ q = NoFetch
                  \/ q = [Sent EXCEPT !.from = cursor, !.captured = list] /\ cursor # NoKey
  BY DEF StartMore, MoreFails
<1>3. /\ UNCHANGED registryVars
      /\ UNCHANGED <<list, cursor, error, online, feed, opens, doubted>>
  BY DEF StartMore, MoreFails
<1>4. list \in Lists /\ cursor \in Keys
  BY <1>1 DEF TypeOK
<1>5. /\ q \in Fetches /\ q.page = NoList /\ \A t \in Threads : q.recs[t] = NoRow
      /\ \/ q.at = "none"
         \/ q.at = "sent" /\ q.captured = list /\ q.from = cursor /\ cursor # NoKey
  <2>1. CASE q = NoFetch
    BY <2>1, NoFetchTyped
  <2>2. CASE q = [Sent EXCEPT !.from = cursor, !.captured = list] /\ cursor # NoKey
    BY <1>4, <2>2 DEF Sent, NoFetch, Fetches, NoRow, Rows, NoKey, Keys, NoList, Lists, NoSummary, Summaries
  <2> QED BY <1>2, <2>1, <2>2
<1>6. /\ RInv' /\ ClockInv' /\ FeedTyped' /\ TypeOK' /\ rows' = rows /\ running' = running
      /\ JobsInv' /\ RacedInv' /\ EventsInv' /\ BlankInv' /\ StillInv' /\ LoadsInv'
      /\ \A t \in Threads : /\ Truth(t)' = Truth(t) /\ (Coming(t)' <=> Coming(t))
                            /\ Reloads(t) => Reloads(t)'
      /\ fetch'[More] = q
  BY <1>2, <1>3, <1>4, <1>5, MoreSteps
<1>7. ListInv'
  <2> SUFFICES ASSUME NEW t \in Threads \ doubted
               PROVE  Shows(list[t], cursor, t)' \/ Coming(t)' \/ Reloads(t)' \/ error'
    BY <1>3 DEF ListInv
  <2>1. Shows(list[t], cursor, t) \/ Coming(t) \/ Reloads(t) \/ error
    BY <1>1 DEF TabParts, Shown, ListInv
  <2>2. Shows(list[t], cursor, t) => Shows(list[t], cursor, t)'
    BY <1>3, <1>6, Unmoved DEF Shows, Before
  <2> QED BY <1>3, <1>6, <2>1, <2>2
<1>8. MoreInv'
  BY <1>3, <1>5, <1>6 DEF MoreInv
<1> QED BY <1>6, <1>7, <1>8 DEF DInv, TabInv

\* MoreDone: the page is merged into the list, which is still the one captured.
LEMMA MoreKeeps ==
    ASSUME DInv, MoreDone
    PROVE  DInv'
<1>1. RInv /\ TypeOK /\ TabParts
  BY PartsOfTab DEF DInv
<1>2. /\ UNCHANGED registryVars /\ UNCHANGED <<error, online, feed, opens, doubted>>
      /\ fetch' = [fetch EXCEPT ![More] = NoFetch]
      /\ list' = [t \in Threads |-> IF fetch[More].page[t] # NoSummary THEN fetch[More].page[t]
                                    ELSE fetch[More].captured[t]]
      /\ cursor' = fetch[More].next /\ fetch[More].at = "read"
      /\ \A t \in Threads : ~Unread(More, t)
  BY DEF MoreDone, Arrived, Unread
<1>3. list' \in Lists /\ cursor' \in Keys
  <2>1. fetch[More] \in Fetches
    BY <1>1, FetchTyped
  <2> QED BY <1>2, <2>1 DEF Fetches, Lists
<1>4. /\ RInv' /\ ClockInv' /\ FeedTyped' /\ TypeOK' /\ rows' = rows /\ running' = running
      /\ JobsInv' /\ RacedInv' /\ EventsInv' /\ BlankInv' /\ StillInv' /\ LoadsInv'
      /\ \A t \in Threads : /\ Truth(t)' = Truth(t) /\ (Coming(t)' <=> Coming(t))
                            /\ Reloads(t) => Reloads(t)'
      /\ fetch'[More] = NoFetch
  BY <1>2, <1>3, NoFetchTyped, MoreSteps
<1>5. ListInv'
  <2> SUFFICES ASSUME NEW t \in Threads \ doubted
               PROVE  Shows(list[t], cursor, t)' \/ Coming(t)' \/ Reloads(t)' \/ error'
    BY <1>2 DEF ListInv
  <2>1. fetch[More].captured[t] = list[t] /\ (MoreShows(t) \/ Coming(t) \/ Reloads(t) \/ error)
    BY <1>1, <1>2 DEF TabParts, Shown, MoreInv
  <2>2. MoreShows(t) => Shows(list[t], cursor, t)'
    <3>1. MoreShows(t) => Shows(IF fetch[More].page[t] # NoSummary THEN fetch[More].page[t] ELSE list[t],
                                fetch[More].next, t)
      BY <1>2 DEF MoreShows
    <3>2. list'[t] = IF fetch[More].page[t] # NoSummary THEN fetch[More].page[t] ELSE list[t]
      BY <1>2, <2>1
    <3> QED BY <1>2, <1>4, <3>1, <3>2, Unmoved DEF Shows, Before
  <2> QED BY <1>2, <1>4, <2>1, <2>2
<1>6. MoreInv'
  BY <1>4, NoFetchTyped DEF MoreInv
<1> QED BY <1>4, <1>5, <1>6 DEF DInv, TabInv

-----------------------------------------------------------------------------
\* The workspace mounts with a load on its way.
LEMMA TabStarts == Init => DInv
<1> SUFFICES ASSUME Init PROVE DInv
  OBVIOUS
<1>1. RInv
  BY RegistryStarts DEF Init
<1>2. PICK l \in Loads : fetch = [f \in Loads \cup {More} |-> IF f = l THEN Sent ELSE NoFetch]
  BY DEF Init
<1>3. /\ Sent \in Fetches /\ Sent.at = "sent" /\ Sent.page = NoList /\ Sent.from = NoKey
      /\ NoFetch.from = NoKey
      /\ \A t \in Threads : Sent.recs[t] = NoRow
  BY DEF Sent, NoFetch, Fetches, NoKey, Keys, NoRow, Rows, NoList, Lists, NoSummary, Summaries
<1>4. More \notin Loads
  BY DirectoryAssumption DEF More
<1>5. /\ fetch \in [Loads \cup {More} -> Fetches] /\ fetch[More].at = "none" /\ fetch[l].at = "sent"
      /\ \A f \in Loads \cup {More} : fetch[f].at # "read"
  BY <1>2, <1>3, <1>4, NoFetchTyped
<1>6. TypeOK
  <2>1. list \in Lists /\ cursor \in Keys
    BY DEF Init, NoList, Lists, NoSummary, NoRow, Rows, Summaries, NoKey, Keys
  <2>2. opens \in 0..MaxOpens
    BY DirectoryAssumption DEF Init
  <2>3. \A i \in DOMAIN feed : FALSE
    BY DEF Init
  <2>4. error \in BOOLEAN /\ online \in BOOLEAN /\ doubted \in SUBSET Threads
    BY DEF Init
  <2> QED BY <1>1, <1>5, <2>1, <2>2, <2>3, <2>4 DEF TypeOK, RInv
<1>7. \A w \in Writers : job[w].on = 0 /\ job[w].at = "idle"
  BY DEF Init, RegistryInit, Idle
<1>8. RacedInv
  <2>1. \A t \in Threads : WritersOn(t) = {}
    BY <1>7, RegistryAssumption DEF WritersOn
  <2> QED BY <2>1, FS_EmptySet DEF RacedInv, Raced
<1>9. JobsInv /\ ClockInv
  BY <1>7, RegistryAssumption DEF JobsInv, ClockInv, Init, RegistryInit
<1>10. FeedTyped /\ EventsInv
  BY DEF Init, FeedTyped, EventsInv, HasEvent
<1>11. BlankInv
  BY <1>2, <1>3, <1>4, NoFetchTyped DEF BlankInv, Unread
<1>12. StillInv /\ LoadsInv /\ MoreInv
  BY <1>5 DEF StillInv, LoadsInv, MoreInv
<1>13. ListInv
  BY DEF ListInv, Reloads, Init
<1> QED BY <1>1, <1>6, <1>8, <1>9, <1>10, <1>11, <1>12, <1>13 DEF DInv, TabInv

\* What is not in doubt is shown right once everything has settled: nothing of
\* it is coming and no load is on its way, so the list has it.
LEMMA SettledShows == DInv => Converged
<1> SUFFICES ASSUME DInv, Settled, NEW t \in Threads \ doubted PROVE Right(t)
  BY DEF Converged, RowsConverge, DInv
<1>1. Shows(list[t], cursor, t) \/ Coming(t) \/ Reloads(t)
  BY DEF DInv, TabInv, ListInv, Settled
<1>2. ~Certain(t)
  BY DEF Settled, Certain, At, Telling
<1>3. DOMAIN feed = {}
  BY DEF Settled
<1>4. ~Coming(t)
  BY <1>2, <1>3 DEF Coming, HasEvent
<1>5. ~Reloads(t)
  BY <1>3, FetchTyped DEF Settled, Reloads, DInv
<1>6. Shows(list[t], cursor, t)
  BY <1>1, <1>4, <1>5
<1> QED BY <1>6 DEF Shows, Right, Truth

LEMMA TabKeeps == DInv /\ [Next]_vars => DInv'
<1> SUFFICES ASSUME DInv, [Next]_vars PROVE DInv'
  OBVIOUS
<1>1. CASE Work \/ \E w \in Writers : AnswerElsewhere(w)
  BY <1>1, WorkKeeps
<1>2. CASE \E w \in Writers : EmitRow(w) \/ EmitDeleted(w) \/ AnswerHere(w)
  BY <1>2, EmitKeeps, AnswerKeeps
<1>3. CASE Connect \/ Disconnect \/ TakeOpen \/ TakeEvent
  BY <1>3, ConnectKeeps, DisconnectKeeps, OpenKeeps, EventKeeps
<1>4. CASE \E f \in Loads \cup {More} : ReadPage(f) \/ \E t \in Threads : ComposePage(f, t)
  BY <1>4, ReadKeeps, ComposeKeeps
<1>5. CASE \E l \in Loads : LoadDone(l) \/ LoadFails(l)
  BY <1>5, LoadKeeps, FailKeeps
<1>6. CASE StartMore \/ MoreDone \/ MoreFails
  BY <1>6, AskMoreKeeps, MoreKeeps
<1>7. CASE UNCHANGED vars
  <2>1. UNCHANGED registryVars
    BY <1>7 DEF vars
  <2>2. /\ list' = list /\ cursor' = cursor /\ error' = error /\ fetch' = fetch
        /\ online' = online /\ feed' = feed /\ opens' = opens /\ doubted' = doubted
    BY <1>7 DEF vars, tabVars
  <2>3. /\ RInv' /\ ClockInv' /\ FeedTyped' /\ TypeOK' /\ rows' = rows /\ running' = running
        /\ JobsInv' /\ RacedInv' /\ EventsInv'
        /\ \A t \in Threads : Coming(t)' <=> Coming(t)
    BY <2>1, <2>2, TabSteps DEF DInv, TypeOK
  <2>4. /\ DOMAIN fetch' = DOMAIN fetch /\ DOMAIN fetch = Loads \cup {More}
        /\ \A f \in Loads \cup {More} : SamePage(f) /\ fetch'[f].still = fetch[f].still
    BY <2>2, FetchTyped DEF SamePage, DInv
  <2>5. Shown /\ BlankInv
    BY DEF DInv, TabInv, Shown
  <2>6. Shown'
    BY <2>2, <2>3, <2>4, <2>5, ShownStays
  <2>7. BlankInv'
    BY <2>4, <2>5, BlankStays
  <2> QED BY <2>3, <2>6, <2>7 DEF DInv, TabInv, Shown
<1> QED BY <1>1, <1>2, <1>3, <1>4, <1>5, <1>6, <1>7 DEF Next

\* Once everything has settled the list shows every thread right that is not in
\* doubt, however the steps of the writers, the stream and the pages interleaved
\* (merge, load, loadMore, the directory stream, the registry's publications).
THEOREM ListConverges == Spec => []Converged
<1>1. Spec => []DInv
  BY TabStarts, TabKeeps, PTL DEF Spec
<1> QED BY <1>1, SettledShows, PTL
=============================================================================
