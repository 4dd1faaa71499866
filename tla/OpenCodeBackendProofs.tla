------------------------ MODULE OpenCodeBackendProofs ------------------------
(***************************************************************************)
(* One server for all prompts, turns that are told to their end, as what   *)
(* they were and with their usage, messages that are settled whole, and    *)
(* requests that both sides agree on, for any number of prompts, owners,   *)
(* parts and requests.                                                     *)
(***************************************************************************)
EXTENDS OpenCodeBackend, FiniteSetTheorems, TLAPS

-----------------------------------------------------------------------------
(* Types, variable by variable.                                            *)

PromptSteps == {"new", "lock", "spawning", "open", "claim", "claimed", "failed", "panicked",
                "returned"}
RunSteps == {"none", "sent", "closing", "idle", "gone"}
RowStates == {"idle", "running", "waiting_input"}

RowTyped == rec \in [live : BOOLEAN, native : Nobody]

BackendTyped ==
  b \in [server : Nobody, starting : Nobody, thread : Nobody, bySession : SUBSET Prompts]

Objects == [turn : Nobody, interrupted : Nobody, started : Nobody, usage : [Prompts -> 0..2],
            state : RowStates, pending : SUBSET Requests, assembling : [Prompts -> SUBSET Parts]]
ObjectsTyped == object \in [Prompts -> Objects]

Calls == [pc : PromptSteps, nat : Nobody]
CallsTyped == call \in [Prompts -> Calls]

Runs == [pc : RunSteps, t : Nobody, id : Nobody, mark : Nobody, ok : BOOLEAN]
RunsTyped ==
  /\ run \in [Prompts -> Runs]
  /\ \A c \in Prompts : run[c].pc = "closing" => run[c].t \in Prompts

\* What a server says.
Lines == ({"message.part.updated"} \X Prompts \X Parts)
         \cup ({"asked"} \X Prompts \X Asks \X Kinds)
         \cup ({"replied"} \X Nobody \X Asks)
         \cup ({"message.updated"} \X Prompts \X {0})

Processes == [alive : BOOLEAN, inbox : SUBSET Prompts, work : Nobody, sent : SUBSET Parts,
              completed : BOOLEAN, answered : SUBSET Prompts, failed : SUBSET Prompts,
              open : SUBSET Requests, pipe : Seq(Lines)]
ProcessesTyped == proc \in [Prompts -> Processes]

IsHistory(g) ==
  /\ g = [finished |-> g.finished, settled |-> g.settled, asked |-> g.asked,
          wrong |-> g.wrong, lost |-> g.lost, slipped |-> g.slipped]
  /\ g.slipped \in BOOLEAN
HistoryTyped == IsHistory(h)

Typed == /\ RowTyped /\ BackendTyped /\ ObjectsTyped /\ CallsTyped /\ RunsTyped
         /\ ProcessesTyped /\ HistoryTyped

-----------------------------------------------------------------------------
(* The servers: a prompt that spawns one holds the mutex, and there is no  *)
(* stored server meanwhile; a process that lives is one of the two.        *)

ServerInv ==
  /\ \A c \in Prompts : call[c].pc = "spawning" <=> b.starting = c
  /\ b.server = None \/ b.starting = None
  /\ \A s \in Prompts : proc[s].alive => s \in {b.server, b.starting}

-----------------------------------------------------------------------------
(* The turns.  A mark is always that of the turn it is on.                 *)

MarkInv ==
  /\ \A t \in Prompts : object[t].interrupted \in {None, object[t].turn}
  /\ \A c \in Prompts : run[c].pc = "closing" => run[c].mark \in {None, run[c].id}
  /\ ~h.wrong

\* A prompt claims one object, and once.
OwnerInv ==
  \A t, c \in Prompts : object[t].turn = c =>
    /\ call[c].pc \in {"claimed", "returned"}
    /\ \A u \in Prompts : object[u].turn = c => u = t

RunInv == \A c \in Prompts : run[c].pc # "none" <=> call[c].pc = "returned"

\* Outside the mishaps: the turn that was claimed is the one the usage is
\* counted for, until the second section of its end.
StartedInv == \A t \in Prompts : object[t].turn # None => object[t].started = object[t].turn
ClosingInv ==
  \A c \in Prompts : run[c].pc = "closing" =>
    run[c].id = c /\ \A t \in Prompts : object[t].turn # c

\* A prompt that has claimed is the turn of the thread, whose row says so once
\* the prompt was sent.
ClaimInv ==
  /\ Live => rec.live
  /\ rec.live => \A c \in Prompts : call[c].pc = "claimed" \/ run[c].pc = "sent"
                                    => Live /\ object[b.thread].turn = c
  /\ Live => \A c \in Prompts : run[c].pc = "sent" => object[b.thread].state # "idle"

\* What was sent is under way, or told, with its usage.
ToldInv ==
  /\ rec.live => \A c \in Prompts : call[c].pc = "returned" =>
                   run[c].pc \in {"sent", "closing"} \/ \E f \in h.finished : f[1] = c
  /\ \A f \in h.finished : f[2] => f[3][f[1]] = 1

CleanInv == ~h.slipped => StartedInv /\ ClosingInv /\ ClaimInv /\ ToldInv

TurnInv == MarkInv /\ OwnerInv /\ RunInv /\ CleanInv

IInv == Typed /\ ServerInv /\ TurnInv

-----------------------------------------------------------------------------
(* What a step leaves alone.                                               *)

PlacesStay == b'.server = b.server /\ b'.starting = b.starting
ThreadStays == b'.thread = b.thread
LivesStay == \A s \in Prompts : proc'[s].alive => proc[s].alive
SpawningStays == \A c \in Prompts : call'[c].pc = "spawning" <=> call[c].pc = "spawning"
ClaimsStay == \A c \in Prompts : \A pc \in {"claimed", "returned"} : call'[c].pc = pc <=> call[c].pc = pc
TurnsStay == \A t \in Prompts :
  /\ object'[t].turn = object[t].turn /\ object'[t].started = object[t].started
  /\ object'[t].interrupted \in {None, object[t].turn}
  /\ object[t].state # "idle" => object'[t].state # "idle"
RunsStay == run' = run
ToldStays == (~h.wrong => ~h'.wrong) /\ (~h'.slipped => ~h.slipped /\ h'.finished = h.finished)

LEMMA NoneIsNoPrompt == None \notin Prompts /\ None \in Nobody /\ Prompts \subseteq Nobody
BY OpenCodeAssumption DEF Nobody

LEMMA ServersStay ==
  ASSUME ServerInv, PlacesStay, LivesStay, SpawningStays
  PROVE  ServerInv'
BY DEF ServerInv, PlacesStay, LivesStay, SpawningStays

LEMMA TurnsStayTold ==
  ASSUME IInv, rec'.live = rec.live, ThreadStays, ClaimsStay, TurnsStay, RunsStay, ToldStays
  PROVE  TurnInv'
<1>1. MarkInv'
  BY DEF IInv, TurnInv, MarkInv, TurnsStay, RunsStay, ToldStays
<1>2. OwnerInv'
  BY DEF IInv, TurnInv, OwnerInv, TurnsStay, ClaimsStay
<1>3. RunInv'
  BY DEF IInv, TurnInv, RunInv, RunsStay, ClaimsStay
<1>4. CleanInv'
  <2> SUFFICES ASSUME ~h'.slipped PROVE (StartedInv /\ ClosingInv /\ ClaimInv /\ ToldInv)'
    BY DEF CleanInv
  <2>1. ~h.slipped /\ h'.finished = h.finished
    BY DEF ToldStays
  <2>2. StartedInv /\ ClosingInv /\ ClaimInv /\ ToldInv
    BY <2>1 DEF IInv, TurnInv, CleanInv
  <2>3. StartedInv' /\ ClosingInv'
    BY <2>2 DEF StartedInv, ClosingInv, TurnsStay, RunsStay
  <2>4. ClaimInv'
    <3>1. Live' = Live /\ (Live => b.thread \in Prompts)
      BY NoneIsNoPrompt DEF ThreadStays, Live, IInv, Typed, BackendTyped, Nobody
    <3>2. \A c \in Prompts : /\ call'[c].pc = "claimed" <=> call[c].pc = "claimed"
                             /\ run'[c].pc = "sent" <=> run[c].pc = "sent"
      BY DEF ClaimsStay, RunsStay
    <3> QED BY <2>2, <3>1, <3>2 DEF ClaimInv, TurnsStay, ThreadStays
  <2>5. ToldInv'
    BY <2>1, <2>2 DEF ToldInv, RunsStay, ClaimsStay
  <2> QED BY <2>3, <2>4, <2>5
<1> QED BY <1>1, <1>2, <1>3, <1>4 DEF TurnInv

LEMMA TypedStays ==
  ASSUME IInv
  PROVE  /\ UNCHANGED rec => RowTyped' /\ rec'.live = rec.live
         /\ UNCHANGED b => BackendTyped' /\ PlacesStay /\ ThreadStays
         /\ UNCHANGED object => ObjectsTyped' /\ TurnsStay
         /\ UNCHANGED call => CallsTyped' /\ SpawningStays /\ ClaimsStay
         /\ UNCHANGED run => RunsTyped' /\ RunsStay
         /\ UNCHANGED proc => ProcessesTyped' /\ LivesStay
         /\ UNCHANGED h => HistoryTyped' /\ ToldStays
<1>1. UNCHANGED rec => RowTyped' /\ rec'.live = rec.live
  BY DEF IInv, Typed, RowTyped
<1>2. UNCHANGED b => BackendTyped' /\ PlacesStay /\ ThreadStays
  BY DEF IInv, Typed, BackendTyped, PlacesStay, ThreadStays
<1>3. UNCHANGED object => ObjectsTyped' /\ TurnsStay
  BY DEF IInv, Typed, ObjectsTyped, TurnInv, MarkInv, TurnsStay
<1>4. UNCHANGED call => CallsTyped' /\ SpawningStays /\ ClaimsStay
  BY DEF IInv, Typed, CallsTyped, SpawningStays, ClaimsStay
<1>5. UNCHANGED run => RunsTyped' /\ RunsStay
  BY DEF IInv, Typed, RunsTyped, RunsStay
<1>6. UNCHANGED proc => ProcessesTyped' /\ LivesStay
  BY DEF IInv, Typed, ProcessesTyped, LivesStay
<1>7. UNCHANGED h => HistoryTyped' /\ ToldStays
  BY DEF IInv, Typed, HistoryTyped, IsHistory, ToldStays
<1> QED BY <1>1, <1>2, <1>3, <1>4, <1>5, <1>6, <1>7

\* A step that keeps the types and none of whose changes reach the servers and
\* the turns.
LEMMA Frame ==
  ASSUME IInv, Typed', PlacesStay, LivesStay, SpawningStays, rec'.live = rec.live, ThreadStays,
         ClaimsStay, TurnsStay, RunsStay, ToldStays
  PROVE  IInv'
BY ServersStay, TurnsStayTold DEF IInv

-----------------------------------------------------------------------------
(* One value of one variable changes.                                      *)

\* A prompt that has not claimed moves, short of claiming or spawning.
LEMMA CallTyped ==
  ASSUME IInv, NEW c \in Prompts, NEW q \in Calls, call' = [call EXCEPT ![c] = q]
  PROVE  /\ CallsTyped' /\ call'[c] = q /\ \A d \in Prompts \ {c} : call'[d] = call[d]
         /\ call[c].pc \notin {"claimed", "returned"} /\ q.pc \notin {"claimed", "returned"}
            => ClaimsStay
         /\ (q.pc = "spawning" <=> call[c].pc = "spawning") => SpawningStays
<1>1. /\ call' \in [Prompts -> Calls] /\ call'[c] = q
      /\ \A d \in Prompts \ {c} : call'[d] = call[d]
  BY DEF IInv, Typed, CallsTyped
<1>2. call[c].pc \notin {"claimed", "returned"} /\ q.pc \notin {"claimed", "returned"} => ClaimsStay
  BY <1>1 DEF ClaimsStay
<1>3. (q.pc = "spawning" <=> call[c].pc = "spawning") => SpawningStays
  BY <1>1 DEF SpawningStays
<1> QED BY <1>1, <1>2, <1>3 DEF CallsTyped

LEMMA GotoTyped ==
  ASSUME IInv, NEW c \in Prompts, NEW pc \in PromptSteps, Goto(c, pc)
  PROVE  /\ CallsTyped' /\ call'[c].pc = pc /\ \A d \in Prompts \ {c} : call'[d] = call[d]
         /\ call[c].pc \notin {"claimed", "returned"} /\ pc \notin {"claimed", "returned"}
            => ClaimsStay
         /\ (pc = "spawning" <=> call[c].pc = "spawning") => SpawningStays
<1> DEFINE q == [call[c] EXCEPT !.pc = pc]
<1>1. call[c] \in Calls
  BY DEF IInv, Typed, CallsTyped
<1>2. q \in Calls /\ q.pc = pc
  BY <1>1 DEF Calls
<1>3. call' = [call EXCEPT ![c] = q]
  BY DEF Goto
<1> HIDE DEF q
<1> QED BY <1>2, <1>3, CallTyped

\* An object changes, its turn aside.
LEMMA ObjectTyped ==
  ASSUME IInv, NEW t, NEW q \in Objects, object' = [object EXCEPT ![t] = q]
  PROVE  /\ ObjectsTyped' /\ (t \in Prompts => object'[t] = q)
         /\ \A u \in Prompts \ {t} : object'[u] = object[u]
         /\ t \in Prompts /\ q.turn = object[t].turn /\ q.started = object[t].started
            /\ q.interrupted \in {None, object[t].turn}
            /\ (object[t].state # "idle" => q.state # "idle") => TurnsStay
<1>1. /\ object' \in [Prompts -> Objects] /\ (t \in Prompts => object'[t] = q)
      /\ \A u \in Prompts \ {t} : object'[u] = object[u]
  BY DEF IInv, Typed, ObjectsTyped
<1>2. ASSUME t \in Prompts, q.turn = object[t].turn, q.started = object[t].started,
             q.interrupted \in {None, object[t].turn}, object[t].state # "idle" => q.state # "idle"
      PROVE  TurnsStay
  BY <1>1, <1>2 DEF TurnsStay, IInv, TurnInv, MarkInv
<1> QED BY <1>1, <1>2 DEF ObjectsTyped

\* The table's object, when there is one.
LEMMA LiveTyped ==
  ASSUME IInv, Live
  PROVE  /\ b.thread \in Prompts /\ object[b.thread] \in Objects
         /\ object[b.thread].interrupted \in {None, object[b.thread].turn}
BY NoneIsNoPrompt DEF Live, IInv, Typed, BackendTyped, ObjectsTyped, Nobody, TurnInv, MarkInv

LEMMA SetStateTyped ==
  ASSUME IInv, NEW state \in RowStates, setState(state)
  PROVE  /\ ObjectsTyped' /\ (state # "idle" => TurnsStay)
         /\ Live => object'[b.thread].state = state
         /\ \A t \in Prompts : object'[t].turn = object[t].turn /\ object'[t].started = object[t].started
                               /\ object'[t].interrupted = object[t].interrupted
<1>1. CASE ~Live
  <2>1. UNCHANGED object
    BY <1>1 DEF setState
  <2> QED BY <1>1, <2>1, TypedStays
<1>2. CASE Live
  <2> DEFINE t == b.thread
             q == [object[t] EXCEPT !.state = state]
  <2>1. /\ t \in Prompts /\ object[t] \in Objects
        /\ object[t].interrupted \in {None, object[t].turn}
    BY <1>2, LiveTyped
  <2>2. /\ q \in Objects /\ q.turn = object[t].turn /\ q.started = object[t].started
        /\ q.interrupted = object[t].interrupted /\ q.state = state
    BY <2>1 DEF Objects
  <2>3. object' = [object EXCEPT ![t] = q]
    BY <1>2 DEF setState
  <2> HIDE DEF q, t
  <2>4. /\ ObjectsTyped' /\ (state # "idle" => TurnsStay) /\ object'[t] = q
        /\ \A u \in Prompts \ {t} : object'[u] = object[u]
    BY <2>1, <2>2, <2>3, ObjectTyped
  <2> QED BY <2>1, <2>2, <2>4 DEF t
<1> QED BY <1>1, <1>2

\* One process changes, or one the table does not name.
LEMMA ProcessTyped ==
  ASSUME IInv, NEW s, NEW q, s \in Prompts => q \in Processes /\ (q.alive => proc[s].alive),
         proc' = [proc EXCEPT ![s] = q]
  PROVE  ProcessesTyped' /\ LivesStay
BY DEF IInv, Typed, ProcessesTyped, LivesStay

\* One field of a history changes.
Told(g, f) == /\ IsHistory(f) /\ f.finished = g.finished /\ f.wrong = g.wrong
              /\ f.slipped = g.slipped

LEMMA HistoryFields ==
  ASSUME NEW g, IsHistory(g), NEW x
  PROVE  /\ Told(g, [g EXCEPT !.lost = x])
         /\ Told(g, [g EXCEPT !.asked = x])
         /\ Told(g, [g EXCEPT !.settled = x])
<1>1. Told(g, [g EXCEPT !.lost = x])
  BY DEF IsHistory, Told
<1>2. Told(g, [g EXCEPT !.asked = x])
  BY DEF IsHistory, Told
<1>3. Told(g, [g EXCEPT !.settled = x])
  BY DEF IsHistory, Told
<1> QED BY <1>1, <1>2, <1>3

LEMMA NoteTyped ==
  ASSUME IInv, NEW g, NEW mishap, IsHistory(g), g.finished = h.finished, g.wrong = h.wrong,
         g.slipped = h.slipped, Note(g, mishap)
  PROVE  HistoryTyped' /\ ToldStays
<1>1. CASE mishap \/ h.slipped
  <2>1. h' = [NoHistory EXCEPT !.asked = g.asked, !.lost = TRUE, !.slipped = TRUE]
    BY <1>1 DEF Note
  <2> QED BY <2>1 DEF NoHistory, HistoryTyped, IsHistory, ToldStays
<1>2. CASE ~(mishap \/ h.slipped)
  <2> DEFINE settled == IF g.lost THEN {} ELSE g.settled
  <2>1. h' = [g EXCEPT !.settled = settled]
    BY <1>2 DEF Note
  <2> HIDE DEF settled
  <2> QED BY <1>2, <2>1 DEF HistoryTyped, IsHistory, ToldStays
<1> QED BY <1>1, <1>2

LEMMA SaysTyped ==
  ASSUME IInv, NEW s \in Prompts, NEW p \in Processes, p.alive => proc[s].alive, NEW g, IsHistory(g),
         g.finished = h.finished, g.wrong = h.wrong, g.slipped = h.slipped,
         NEW lines \in Seq(Lines), Says(s, p, g, lines)
  PROVE  IInv'
<1> DEFINE heard == stream \notin {"closed", "connecting"} /\ s = b.server
           pipe == IF heard THEN p.pipe \o lines ELSE p.pipe
           q == [p EXCEPT !.pipe = pipe]
           note == [g EXCEPT !.lost = g.lost \/ ~heard]
<1>1. pipe \in Seq(Lines)
  BY DEF Processes
<1>2. q \in Processes /\ q.alive = p.alive
  <2> HIDE DEF pipe
  <2> QED BY <1>1 DEF Processes
<1>3. proc' = [proc EXCEPT ![s] = q]
  BY DEF Says
<1>4. Note(note, FALSE)
  BY DEF Says
<1>5. /\ IsHistory(note) /\ note.finished = h.finished /\ note.wrong = h.wrong
      /\ note.slipped = h.slipped
  <2> HIDE DEF heard
  <2> QED BY DEF IsHistory
<1> HIDE DEF q, note
<1>6. ProcessesTyped' /\ LivesStay
  BY <1>2, <1>3, ProcessTyped
<1>7. HistoryTyped' /\ ToldStays
  BY <1>4, <1>5, NoteTyped
<1>8. UNCHANGED <<rec, b, object, call, run>>
  BY DEF Says
<1>9. Typed' /\ PlacesStay /\ SpawningStays /\ ThreadStays /\ ClaimsStay /\ TurnsStay /\ RunsStay
      /\ rec'.live = rec.live
  BY <1>6, <1>7, <1>8, TypedStays DEF Typed
<1> QED BY <1>6, <1>7, <1>9, Frame

-----------------------------------------------------------------------------
(* The steps of a prompt.                                                  *)

LEMMA ArriveKeeps ==
  ASSUME IInv, NEW c \in Prompts, Arrive(c)
  PROVE  IInv'
<1> DEFINE q == IF Turn # None THEN [NoCall EXCEPT !.pc = "failed"]
                               ELSE [pc |-> "lock", nat |-> rec.native]
<1>1. call[c].pc = "new" /\ call' = [call EXCEPT ![c] = q]
      /\ UNCHANGED <<rec, b, object, run, proc, h>>
  BY DEF Arrive
<1>2. q \in Calls /\ q.pc \in {"failed", "lock"}
  BY NoneIsNoPrompt DEF Calls, NoCall, PromptSteps, IInv, Typed, RowTyped
<1> HIDE DEF q
<1>3. CallsTyped' /\ ClaimsStay /\ SpawningStays
  BY <1>1, <1>2, CallTyped
<1>4. /\ Typed' /\ PlacesStay /\ LivesStay /\ ThreadStays /\ TurnsStay /\ RunsStay /\ ToldStays
      /\ rec'.live = rec.live
  BY <1>1, <1>3, TypedStays DEF Typed
<1> QED BY <1>3, <1>4, Frame

\* A step of a prompt that has not claimed, of which only the prompt is told.
LEMMA WaitingKeeps ==
  ASSUME IInv, NEW c \in Prompts, call[c].pc \in {"lock", "claim"}, NEW pc \in {"open", "failed"},
         Goto(c, pc), UNCHANGED <<rec, b, object, run, proc, respond, h>>
  PROVE  IInv'
<1>1. CallsTyped' /\ ClaimsStay /\ SpawningStays
  BY GotoTyped DEF PromptSteps
<1>2. /\ Typed' /\ PlacesStay /\ LivesStay /\ ThreadStays /\ TurnsStay /\ RunsStay /\ ToldStays
      /\ rec'.live = rec.live
  BY <1>1, TypedStays DEF Typed
<1> QED BY <1>1, <1>2, Frame

LEMMA ensureServerKeeps ==
  ASSUME IInv, NEW c \in Prompts, ensureServer(c)
  PROVE  IInv'
BY WaitingKeeps DEF ensureServer

LEMMA OptionInvalidKeeps ==
  ASSUME IInv, NEW c \in Prompts, OptionInvalid(c)
  PROVE  IInv'
BY WaitingKeeps DEF OptionInvalid

LEMMA spawnKeeps ==
  ASSUME IInv, NEW c \in Prompts, spawn(c)
  PROVE  IInv'
<1> USE NoneIsNoPrompt
<1>1. /\ call[c].pc = "lock" /\ b.starting = None /\ b.server = None /\ Goto(c, "spawning")
      /\ b' = [b EXCEPT !.starting = c] /\ proc' = [proc EXCEPT ![c].alive = TRUE]
      /\ UNCHANGED <<rec, object, run, respond, h>>
  BY DEF spawn
<1>2. /\ CallsTyped' /\ ClaimsStay /\ call'[c].pc = "spawning"
      /\ \A d \in Prompts \ {c} : call'[d] = call[d]
  BY <1>1, GotoTyped DEF PromptSteps
<1>3. BackendTyped' /\ b'.server = None /\ b'.starting = c /\ ThreadStays
  BY <1>1 DEF IInv, Typed, BackendTyped, ThreadStays
<1>4. ProcessesTyped' /\ \A s \in Prompts \ {c} : proc'[s] = proc[s]
  <2> DEFINE q == [proc[c] EXCEPT !.alive = TRUE]
  <2>1. proc[c] \in Processes
    BY DEF IInv, Typed, ProcessesTyped
  <2>2. q \in Processes /\ proc' = [proc EXCEPT ![c] = q]
    BY <1>1, <2>1 DEF Processes
  <2> HIDE DEF q
  <2> QED BY <2>2 DEF IInv, Typed, ProcessesTyped
<1>5. /\ Typed' /\ TurnsStay /\ RunsStay /\ ToldStays /\ rec'.live = rec.live
  BY <1>1, <1>2, <1>3, <1>4, TypedStays DEF Typed
<1>6. TurnInv'
  BY <1>2, <1>3, <1>5, TurnsStayTold
<1>7. ServerInv'
  BY <1>1, <1>2, <1>3, <1>4 DEF IInv, ServerInv
<1> QED BY <1>5, <1>6, <1>7 DEF IInv

LEMMA ListeningKeeps ==
  ASSUME IInv, NEW c \in Prompts, Listening(c)
  PROVE  IInv'
<1> USE NoneIsNoPrompt
<1>1. /\ call[c].pc = "spawning" /\ Goto(c, "open") /\ b' = [b EXCEPT !.server = c, !.starting = None]
      /\ UNCHANGED <<rec, object, run, proc, h>>
  BY DEF Listening
<1>2. /\ CallsTyped' /\ ClaimsStay /\ call'[c].pc = "open"
      /\ \A d \in Prompts \ {c} : call'[d] = call[d]
  BY <1>1, GotoTyped DEF PromptSteps
<1>3. BackendTyped' /\ b'.server = c /\ b'.starting = None /\ ThreadStays
  BY <1>1 DEF IInv, Typed, BackendTyped, ThreadStays
<1>4. /\ Typed' /\ TurnsStay /\ RunsStay /\ ToldStays /\ rec'.live = rec.live
  BY <1>1, <1>2, <1>3, TypedStays DEF Typed
<1>5. TurnInv'
  BY <1>2, <1>3, <1>4, TurnsStayTold
<1>6. ServerInv'
  <2>1. b.starting = c /\ b.server = None
    BY <1>1 DEF IInv, ServerInv
  <2>2. \A d \in Prompts : call'[d].pc # "spawning"
    BY <1>2, <2>1 DEF IInv, ServerInv
  <2>3. \A s \in Prompts : proc[s].alive => s = c
    BY <2>1 DEF IInv, ServerInv
  <2> QED BY <1>1, <1>3, <2>2, <2>3 DEF ServerInv
<1> QED BY <1>4, <1>5, <1>6 DEF IInv

LEMMA KilledTyped ==
  ASSUME IInv, NEW s \in Prompts, proc' = Killed(s)
  PROVE  ProcessesTyped' /\ LivesStay /\ ~proc'[s].alive
<1> DEFINE q == [NoProcess EXCEPT !.pipe = proc[s].pipe]
<1>1. proc \in [Prompts -> Processes] /\ proc[s] \in Processes
  BY DEF IInv, Typed, ProcessesTyped
<1>2. q \in Processes /\ q.alive = FALSE
  BY <1>1, NoneIsNoPrompt DEF Processes, NoProcess
<1>3. proc' = [proc EXCEPT ![s] = q]
  BY DEF Killed
<1> HIDE DEF q
<1> QED BY <1>1, <1>2, <1>3, ProcessTyped

LEMMA SpawnFailsKeeps ==
  ASSUME IInv, NEW c \in Prompts, SpawnFails(c)
  PROVE  IInv'
<1> USE NoneIsNoPrompt
<1>1. /\ call[c].pc = "spawning" /\ Goto(c, "failed") /\ b' = [b EXCEPT !.starting = None]
      /\ proc' = Killed(c) /\ UNCHANGED <<rec, object, run, h>>
  BY DEF SpawnFails
<1>2. /\ CallsTyped' /\ ClaimsStay /\ call'[c].pc = "failed"
      /\ \A d \in Prompts \ {c} : call'[d] = call[d]
  BY <1>1, GotoTyped DEF PromptSteps
<1>3. BackendTyped' /\ b'.server = b.server /\ b'.starting = None /\ ThreadStays
  BY <1>1 DEF IInv, Typed, BackendTyped, ThreadStays
<1>4. ProcessesTyped' /\ LivesStay /\ ~proc'[c].alive
  BY <1>1, KilledTyped
<1>5. /\ Typed' /\ TurnsStay /\ RunsStay /\ ToldStays /\ rec'.live = rec.live
  BY <1>1, <1>2, <1>3, <1>4, TypedStays DEF Typed
<1>6. TurnInv'
  BY <1>2, <1>3, <1>5, TurnsStayTold
<1>7. ServerInv'
  <2>1. b.starting = c /\ b.server = None
    BY <1>1 DEF IInv, ServerInv
  <2>2. \A d \in Prompts : call'[d].pc # "spawning"
    BY <1>2, <2>1 DEF IInv, ServerInv
  <2>3. \A s \in Prompts : ~proc'[s].alive
    BY <1>4, <2>1 DEF IInv, ServerInv, LivesStay
  <2> QED BY <1>3, <2>1, <2>2, <2>3 DEF ServerInv
<1> QED BY <1>5, <1>6, <1>7 DEF IInv

\* A mishap in which nothing was told keeps what does not depend on history.
LEMMA MishapTyped ==
  ASSUME IInv, NEW g, NEW mishap, mishap \/ h.slipped, Note(g, mishap)
  PROVE  HistoryTyped' /\ ~h'.wrong /\ h'.slipped
<1>1. h' = [NoHistory EXCEPT !.asked = g.asked, !.lost = TRUE, !.slipped = TRUE]
  BY DEF Note
<1> QED BY <1>1 DEF NoHistory, HistoryTyped, IsHistory

\* The thread object is new.
LEMMA openSessionKeeps ==
  ASSUME IInv, NEW c \in Prompts, openSession(c)
  PROVE  IInv'
<1> USE NoneIsNoPrompt
<1> DEFINE n == IF call[c].nat = None THEN c ELSE call[c].nat
           q == [pc |-> "claim", nat |-> n]
<1>1. call[c].pc = "open" /\ UNCHANGED <<run, proc>>
  BY DEF openSession
<1>2. CASE Goto(c, "failed") /\ UNCHANGED <<rec, b, object, h>>
  <2>1. CallsTyped' /\ ClaimsStay /\ SpawningStays
    BY <1>1, <1>2, GotoTyped DEF PromptSteps
  <2>2. /\ Typed' /\ PlacesStay /\ LivesStay /\ ThreadStays /\ TurnsStay /\ RunsStay /\ ToldStays
        /\ rec'.live = rec.live
    BY <1>1, <1>2, <2>1, TypedStays DEF Typed
  <2> QED BY <2>1, <2>2, Frame
<1>3. CASE call' = [call EXCEPT ![c] = q] /\ ~(Goto(c, "failed") /\ UNCHANGED <<rec, b, object, h>>)
  <2>1. n \in Prompts /\ q \in Calls /\ q.pc = "claim"
    BY DEF IInv, Typed, CallsTyped, Calls, PromptSteps, Nobody
  <2> HIDE DEF q, n
  <2>2. CallsTyped' /\ ClaimsStay /\ SpawningStays
    BY <1>1, <1>3, <2>1, CallTyped
  <2>3. CASE UNCHANGED <<rec, b, object, h>>
    <3>1. /\ Typed' /\ PlacesStay /\ LivesStay /\ ThreadStays /\ TurnsStay /\ RunsStay /\ ToldStays
          /\ rec'.live = rec.live
      BY <1>1, <2>2, <2>3, TypedStays DEF Typed
    <3> QED BY <2>2, <3>1, Frame
  <2>4. CASE /\ rec' = IF rec.live THEN [rec EXCEPT !.native = n] ELSE rec
             /\ b' = [b EXCEPT !.thread = c, !.bySession = b.bySession \cup {n}]
             /\ object' = [object EXCEPT ![c] = newThread]
             /\ Note(h, Live \/ ~rec.live)
    <3>1. RowTyped' /\ rec'.live = rec.live
      BY <2>1, <2>4 DEF IInv, Typed, RowTyped
    <3>2. BackendTyped' /\ PlacesStay /\ b'.thread = c
      BY <2>1, <2>4 DEF IInv, Typed, BackendTyped, PlacesStay
    <3>3. newThread \in Objects
      BY DEF newThread, Objects, RowStates
    <3>4. /\ ObjectsTyped' /\ object'[c] = newThread
          /\ \A t \in Prompts \ {c} : object'[t] = object[t]
      BY <2>4, <3>3 DEF IInv, Typed, ObjectsTyped
    <3>5. HistoryTyped' /\ ToldStays
      BY <2>4, NoteTyped DEF IInv, Typed, HistoryTyped
    <3>6. Typed' /\ LivesStay /\ RunsStay
      BY <1>1, <2>2, <3>1, <3>2, <3>4, <3>5, TypedStays DEF Typed
    <3>7. ServerInv'
      BY <2>2, <3>2, <3>6, ServersStay DEF IInv
    <3>8. newThread.turn = None /\ newThread.interrupted = None
      BY DEF newThread
    <3>9. MarkInv'
      BY <3>4, <3>5, <3>6, <3>8 DEF IInv, TurnInv, MarkInv, RunsStay, ToldStays
    <3>10. OwnerInv' /\ RunInv'
      BY <2>2, <3>4, <3>6, <3>8 DEF IInv, TurnInv, OwnerInv, RunInv, RunsStay, ClaimsStay
    <3>11. CleanInv'
      <4> SUFFICES ASSUME ~h'.slipped PROVE (StartedInv /\ ClosingInv /\ ClaimInv /\ ToldInv)'
        BY DEF CleanInv
      <4>1. ~h.slipped /\ h'.finished = h.finished
        BY <3>5 DEF ToldStays
      <4>2. StartedInv /\ ClosingInv /\ ClaimInv /\ ToldInv
        BY <4>1 DEF IInv, TurnInv, CleanInv
      <4>3. ~Live /\ rec.live
        BY <2>4, MishapTyped
      <4>4. \A d \in Prompts : call[d].pc # "claimed" /\ run[d].pc # "sent"
        BY <4>2, <4>3 DEF ClaimInv
      <4>5. StartedInv' /\ ClosingInv'
        BY <3>4, <3>6, <3>8, <4>2 DEF StartedInv, ClosingInv, RunsStay
      <4>6. ClaimInv'
        BY <2>2, <3>1, <3>6, <4>3, <4>4 DEF ClaimInv, ClaimsStay, RunsStay
      <4>7. ToldInv'
        BY <2>2, <3>1, <3>6, <4>1, <4>2 DEF ToldInv, RunsStay, ClaimsStay
      <4> QED BY <4>5, <4>6, <4>7
    <3> QED BY <3>6, <3>7, <3>9, <3>10, <3>11 DEF IInv, TurnInv
  <2> QED BY <1>3, <2>3, <2>4 DEF openSession, q, n
<1> QED BY <1>2, <1>3 DEF openSession

\* The turn is claimed.
LEMMA ClaimKeeps ==
  ASSUME IInv, NEW c \in Prompts, Claim(c)
  PROVE  IInv'
<1> USE NoneIsNoPrompt
<1>1. call[c].pc = "claim" /\ UNCHANGED <<rec, b, run, proc>>
  BY DEF Claim
<1>2. CASE Goto(c, "panicked") /\ UNCHANGED <<object, h>>
  <2>1. CallsTyped' /\ ClaimsStay /\ SpawningStays
    BY <1>1, <1>2, GotoTyped DEF PromptSteps
  <2>2. /\ Typed' /\ PlacesStay /\ LivesStay /\ ThreadStays /\ TurnsStay /\ RunsStay /\ ToldStays
        /\ rec'.live = rec.live
    BY <1>1, <1>2, <2>1, TypedStays DEF Typed
  <2> QED BY <2>1, <2>2, Frame
<1>3. CASE Live
  <2> DEFINE t == b.thread
             q == [object[t] EXCEPT !.turn = c, !.interrupted = None, !.started = c,
                                    !.usage = newThread.usage]
  <2>1. /\ Goto(c, "claimed") /\ object' = [object EXCEPT ![t] = q]
        /\ Note(h, object[t].turn # None \/ object[t].started # None)
    BY <1>3 DEF Claim, Live
  <2>2. t \in Prompts /\ object[t] \in Objects
    BY <1>3, LiveTyped
  <2>3. newThread.usage \in [Prompts -> 0..2]
    BY DEF newThread
  <2>4. q \in Objects /\ q.turn = c /\ q.interrupted = None /\ q.started = c
    BY <2>2, <2>3 DEF Objects
  <2> HIDE DEF q
  <2>5. /\ CallsTyped' /\ SpawningStays /\ call'[c].pc = "claimed"
        /\ \A d \in Prompts \ {c} : call'[d] = call[d]
    BY <1>1, <2>1, GotoTyped DEF PromptSteps
  <2>6. ObjectsTyped' /\ object'[t] = q /\ \A u \in Prompts \ {t} : object'[u] = object[u]
    BY <2>1, <2>2, <2>4, ObjectTyped
  <2>7. HistoryTyped' /\ ToldStays
    BY <2>1, NoteTyped DEF IInv, Typed, HistoryTyped
  <2>8. Typed' /\ PlacesStay /\ LivesStay
    BY <1>1, <2>5, <2>6, <2>7, TypedStays DEF Typed
  <2>9. ServerInv'
    BY <2>5, <2>8, ServersStay DEF IInv
  <2>10. MarkInv'
    BY <1>1, <2>4, <2>6, <2>7 DEF IInv, TurnInv, MarkInv, ToldStays
  <2>11. \A u \in Prompts : object[u].turn # c
    BY <1>1 DEF IInv, TurnInv, OwnerInv
  <2>12. OwnerInv'
    BY <2>2, <2>4, <2>5, <2>6, <2>11 DEF IInv, TurnInv, OwnerInv
  <2>13. RunInv'
    BY <1>1, <2>5 DEF IInv, TurnInv, RunInv
  <2>14. CleanInv'
    <3> SUFFICES ASSUME ~h'.slipped PROVE (StartedInv /\ ClosingInv /\ ClaimInv /\ ToldInv)'
      BY DEF CleanInv
    <3>1. ~h.slipped /\ h'.finished = h.finished
      BY <2>7 DEF ToldStays
    <3>2. StartedInv /\ ClosingInv /\ ClaimInv /\ ToldInv
      BY <3>1 DEF IInv, TurnInv, CleanInv
    <3>3. object[t].turn = None
      BY <2>1, MishapTyped
    <3>4. run[c].pc = "none"
      BY <1>1 DEF IInv, TurnInv, RunInv
    <3>5. \A d \in Prompts : call[d].pc # "claimed" /\ run[d].pc # "sent"
      BY <1>3, <3>2, <3>3 DEF ClaimInv
    <3>6. StartedInv' /\ ClosingInv'
      BY <1>1, <2>2, <2>4, <2>6, <3>2, <3>4 DEF StartedInv, ClosingInv
    <3>7. ClaimInv'
      BY <1>1, <1>3, <2>2, <2>4, <2>5, <2>6, <3>2, <3>4, <3>5 DEF ClaimInv, Live
    <3>8. ToldInv'
      BY <1>1, <2>5, <3>1, <3>2 DEF ToldInv
    <3> QED BY <3>6, <3>7, <3>8
  <2> QED BY <2>8, <2>9, <2>10, <2>12, <2>13, <2>14 DEF IInv, TurnInv
<1> QED BY <1>2, <1>3 DEF Claim, Live

LEMMA PostTyped ==
  ASSUME IInv, NEW c \in Prompts, Post(c)
  PROVE  ProcessesTyped' /\ LivesStay
<1> DEFINE s == b.server
<1>1. CASE UNCHANGED proc
  BY <1>1, TypedStays
<1>2. CASE ~UNCHANGED proc /\ s \in Prompts
  <2> DEFINE f == [proc[s] EXCEPT !.failed = proc[s].failed \cup {c}]
             i == [proc[s] EXCEPT !.inbox = proc[s].inbox \cup {c}]
  <2>1. proc[s] \in Processes
    BY <1>2 DEF IInv, Typed, ProcessesTyped
  <2>2. f \in Processes /\ f.alive = proc[s].alive /\ i \in Processes /\ i.alive = proc[s].alive
    BY <2>1 DEF Processes
  <2>3. proc' = [proc EXCEPT ![s] = f] \/ proc' = [proc EXCEPT ![s] = i]
    BY <1>2 DEF Post
  <2> HIDE DEF f, i, s
  <2> QED BY <2>2, <2>3, ProcessTyped
<1>3. s \in Prompts \/ UNCHANGED proc
  BY NoneIsNoPrompt DEF Post, Server, NoProcess, IInv, Typed, BackendTyped, Nobody
<1> QED BY <1>1, <1>2, <1>3

\* The message is posted, the row running.
LEMMA PromptReturnsKeeps ==
  ASSUME IInv, NEW c \in Prompts, PromptReturns(c)
  PROVE  IInv'
<1> USE NoneIsNoPrompt
<1> DEFINE q == [NoCall EXCEPT !.pc = "returned"]
           r == [run[c] EXCEPT !.pc = "sent"]
<1>1. /\ call[c].pc = "claimed" /\ call' = [call EXCEPT ![c] = q]
      /\ setState("running") /\ Post(c) /\ UNCHANGED <<rec, b, h>>
  BY DEF PromptReturns
<1>2. q \in Calls /\ q.pc = "returned"
  BY DEF Calls, NoCall, PromptSteps
<1>3. run[c] \in Runs /\ run' = [run EXCEPT ![c] = r] /\ r \in Runs /\ r.pc = "sent"
  BY DEF PromptReturns, IInv, Typed, RunsTyped, Runs, RunSteps
<1> HIDE DEF q, r
<1>4. /\ CallsTyped' /\ SpawningStays /\ call'[c].pc = "returned"
      /\ \A d \in Prompts \ {c} : call'[d] = call[d]
  BY <1>1, <1>2, CallTyped
<1>5. RunsTyped' /\ run'[c].pc = "sent" /\ \A d \in Prompts \ {c} : run'[d] = run[d]
  BY <1>3 DEF IInv, Typed, RunsTyped
<1>6. /\ ObjectsTyped' /\ TurnsStay /\ (Live => object'[b.thread].state = "running")
      /\ \A t \in Prompts : /\ object'[t].turn = object[t].turn
                            /\ object'[t].started = object[t].started
                            /\ object'[t].interrupted = object[t].interrupted
  BY <1>1, SetStateTyped DEF RowStates
<1>7. ProcessesTyped' /\ LivesStay
  BY <1>1, PostTyped
<1>8. Typed' /\ PlacesStay /\ ToldStays
  BY <1>1, <1>4, <1>5, <1>6, <1>7, TypedStays DEF Typed
<1>9. ServerInv'
  BY <1>4, <1>7, <1>8, ServersStay DEF IInv
<1>10. MarkInv'
  BY <1>5, <1>6, <1>8 DEF IInv, TurnInv, MarkInv, ToldStays
<1>11. OwnerInv' /\ RunInv'
  BY <1>1, <1>4, <1>5, <1>6 DEF IInv, TurnInv, OwnerInv, RunInv
<1>12. CleanInv'
  <2> SUFFICES ASSUME ~h'.slipped PROVE (StartedInv /\ ClosingInv /\ ClaimInv /\ ToldInv)'
    BY DEF CleanInv
  <2>1. StartedInv /\ ClosingInv /\ ClaimInv /\ ToldInv /\ h' = h
    BY <1>1 DEF IInv, TurnInv, CleanInv
  <2>2. StartedInv' /\ ClosingInv'
    BY <1>5, <1>6, <2>1 DEF StartedInv, ClosingInv
  <2>3. ClaimInv'
    <3>1. Live => b.thread \in Prompts
      BY LiveTyped
    <3>2. Live' = Live /\ b' = b /\ rec' = rec
      BY <1>1 DEF Live
    <3> QED BY <1>1, <1>4, <1>5, <1>6, <2>1, <3>1, <3>2 DEF ClaimInv
  <2>4. ToldInv'
    BY <1>1, <1>4, <1>5, <2>1 DEF ToldInv
  <2> QED BY <2>2, <2>3, <2>4
<1> QED BY <1>8, <1>9, <1>10, <1>11, <1>12 DEF IInv, TurnInv

-----------------------------------------------------------------------------
(* The end of a turn.                                                      *)

\* The first section: the object's turn is given up.
LEMMA TurnAnsweredKeeps ==
  ASSUME IInv, NEW c \in Prompts, TurnAnswered(c)
  PROVE  IInv'
<1> USE NoneIsNoPrompt
<1>1. run[c].pc = "sent" /\ UNCHANGED <<rec, b, call>>
  BY DEF TurnAnswered
<1>2. ProcessesTyped' /\ LivesStay
  <2> DEFINE q(s) == [proc[s] EXCEPT !.answered = proc[s].answered \ {c}, !.failed = proc[s].failed \ {c}]
  <2>1. ASSUME NEW s \in Prompts PROVE q(s) \in Processes /\ q(s).alive = proc[s].alive
    <3>1. proc[s] \in Processes
      BY DEF IInv, Typed, ProcessesTyped
    <3> QED BY <3>1 DEF Processes
  <2>2. proc' = [s \in Prompts |-> q(s)]
    BY DEF TurnAnswered
  <2> HIDE DEF q
  <2> QED BY <2>1, <2>2 DEF ProcessesTyped, LivesStay
<1>3. run \in [Prompts -> Runs] /\ run[c] \in Runs
  BY DEF IInv, Typed, RunsTyped
<1>4. CASE ~Live
  <2> DEFINE r == [run[c] EXCEPT !.pc = "gone"]
  <2>1. run' = [run EXCEPT ![c] = r] /\ UNCHANGED <<object, h>>
    BY <1>4 DEF TurnAnswered
  <2>2. r \in Runs /\ r.pc = "gone"
    BY <1>3 DEF Runs, RunSteps
  <2> HIDE DEF r
  <2>3. RunsTyped' /\ run'[c].pc = "gone" /\ \A d \in Prompts \ {c} : run'[d] = run[d]
    BY <1>3, <2>1, <2>2 DEF IInv, Typed, RunsTyped
  <2>4. Typed' /\ PlacesStay /\ SpawningStays
    BY <1>1, <1>2, <2>1, <2>3, TypedStays DEF Typed
  <2>5. ServerInv'
    BY <1>2, <2>4, ServersStay DEF IInv
  <2>6. MarkInv' /\ OwnerInv' /\ RunInv'
    BY <1>1, <2>1, <2>3 DEF IInv, TurnInv, MarkInv, OwnerInv, RunInv
  <2>7. CleanInv'
    BY <1>1, <1>4, <2>1, <2>3 DEF IInv, TurnInv, CleanInv, StartedInv, ClosingInv, ClaimInv, ToldInv, Live
  <2> QED BY <2>4, <2>5, <2>6, <2>7 DEF IInv, TurnInv
<1>5. CASE Live
  <2> DEFINE t == b.thread
             q == [object[t] EXCEPT !.turn = None, !.interrupted = None]
             r == [pc |-> "closing", t |-> t, id |-> object[t].turn,
                   mark |-> object[t].interrupted, ok |-> c \in Server.answered]
  <2>1. t \in Prompts /\ object[t] \in Objects /\ object[t].interrupted \in {None, object[t].turn}
    BY <1>5, LiveTyped
  <2>2. /\ object' = [object EXCEPT ![t] = q] /\ run' = [run EXCEPT ![c] = r]
        /\ Note(h, object[t].turn # c)
    BY <1>5, <2>1 DEF TurnAnswered, Turn, IInv, Typed, ObjectsTyped
  <2>3. q \in Objects /\ q.turn = None /\ q.interrupted = None /\ q.started = object[t].started
        /\ q.state = object[t].state
    BY <2>1 DEF Objects
  <2>4. r \in Runs /\ r.pc = "closing" /\ r.t = t /\ r.id = object[t].turn
        /\ r.mark \in {None, r.id}
    BY <2>1 DEF Runs, RunSteps, Objects
  <2> HIDE DEF q, r
  <2>5. ObjectsTyped' /\ object'[t] = q /\ \A u \in Prompts \ {t} : object'[u] = object[u]
    BY <2>1, <2>2, <2>3, ObjectTyped
  <2>6. RunsTyped' /\ run'[c] = r /\ \A d \in Prompts \ {c} : run'[d] = run[d]
    BY <1>3, <2>1, <2>2, <2>4 DEF IInv, Typed, RunsTyped
  <2>7. HistoryTyped' /\ ToldStays
    BY <2>2, NoteTyped DEF IInv, Typed, HistoryTyped
  <2>8. Typed' /\ PlacesStay /\ SpawningStays
    BY <1>1, <1>2, <2>5, <2>6, <2>7, TypedStays DEF Typed
  <2>9. ServerInv'
    BY <1>2, <2>8, ServersStay DEF IInv
  <2>10. MarkInv'
    BY <2>3, <2>4, <2>5, <2>6, <2>7 DEF IInv, TurnInv, MarkInv, ToldStays
  <2>11. OwnerInv'
    BY <1>1, <2>3, <2>5 DEF IInv, TurnInv, OwnerInv
  <2>12. RunInv'
    BY <1>1, <2>4, <2>6 DEF IInv, TurnInv, RunInv
  <2>13. CleanInv'
    <3> SUFFICES ASSUME ~h'.slipped PROVE (StartedInv /\ ClosingInv /\ ClaimInv /\ ToldInv)'
      BY DEF CleanInv
    <3>1. ~h.slipped /\ h'.finished = h.finished
      BY <2>7 DEF ToldStays
    <3>2. StartedInv /\ ClosingInv /\ ClaimInv /\ ToldInv
      BY <3>1 DEF IInv, TurnInv, CleanInv
    <3>3. object[t].turn = c
      BY <2>2, MishapTyped
    <3>4. \A d \in Prompts \ {c} : call[d].pc # "claimed" /\ run[d].pc # "sent"
      BY <1>5, <3>2, <3>3 DEF ClaimInv
    <3>5. StartedInv'
      BY <2>1, <2>3, <2>5, <3>2 DEF StartedInv
    <3>6. \A u \in Prompts : object'[u].turn # c
      BY <2>1, <2>3, <2>5, <3>3 DEF IInv, TurnInv, OwnerInv
    <3>7. ClosingInv'
      BY <2>1, <2>3, <2>4, <2>5, <2>6, <3>2, <3>3, <3>6 DEF ClosingInv
    <3>8. ClaimInv'
      <4>1. call[c].pc = "returned"
        BY <1>1 DEF IInv, TurnInv, RunInv
      <4>2. \A d \in Prompts : call'[d].pc # "claimed" /\ run'[d].pc # "sent"
        BY <1>1, <2>4, <2>6, <3>4, <4>1
      <4> QED BY <1>1, <3>2, <4>2 DEF ClaimInv, Live
    <3>9. ToldInv'
      BY <1>1, <2>4, <2>6, <3>1, <3>2 DEF ToldInv
    <3> QED BY <3>5, <3>7, <3>8, <3>9
  <2> QED BY <2>8, <2>9, <2>10, <2>11, <2>12, <2>13 DEF IInv, TurnInv
<1> QED BY <1>4, <1>5

\* The second section: the turn is told, with its usage.
LEMMA TurnFinishedKeeps ==
  ASSUME IInv, NEW c \in Prompts, TurnFinished(c)
  PROVE  IInv'
<1> USE NoneIsNoPrompt
<1> DEFINE t == run[c].t
           total == IF run[c].ok THEN Counted(object[t].usage, c) ELSE object[t].usage
           told == <<run[c].id, run[c].ok, total>>
           g == [h EXCEPT !.finished = h.finished \cup {told},
                          !.wrong = h.wrong \/ run[c].mark \notin {None, run[c].id}]
           q == [object[t] EXCEPT !.usage = total, !.started = None]
           r == [NoRun EXCEPT !.pc = "idle"]
<1>1. /\ run[c].pc = "closing" /\ run' = [run EXCEPT ![c] = r] /\ UNCHANGED <<rec, b, call, proc>>
      /\ Note(g, object[t].started # c)
  BY DEF TurnFinished
<1>2. t \in Prompts
  BY <1>1 DEF IInv, Typed, RunsTyped
<1>3. object[t] \in Objects /\ object' = [object EXCEPT ![t] = q]
  BY <1>2 DEF TurnFinished, IInv, Typed, ObjectsTyped
<1>4. object[t].usage \in [Prompts -> 0..2] /\ total \in [Prompts -> 0..2]
      /\ (run[c].ok => total[c] = 1)
  BY <1>3 DEF Objects, Counted
<1>5. told[1] = run[c].id /\ told[2] = run[c].ok /\ told[3] = total
  OBVIOUS
<1> HIDE DEF total
<1>6. /\ q \in Objects /\ q.turn = object[t].turn /\ q.interrupted = object[t].interrupted
      /\ q.started = None /\ q.state = object[t].state
  BY <1>3, <1>4 DEF Objects
<1>7. r \in Runs /\ r.pc = "idle"
  BY DEF Runs, RunSteps, NoRun
<1> HIDE DEF q, r
<1>8. /\ ObjectsTyped' /\ object'[t] = q /\ \A u \in Prompts \ {t} : object'[u] = object[u]
  BY <1>2, <1>3, <1>6, ObjectTyped
<1>9. RunsTyped' /\ run'[c].pc = "idle" /\ \A d \in Prompts \ {c} : run'[d] = run[d]
  BY <1>1, <1>7 DEF IInv, Typed, RunsTyped
<1>10. run[c].mark \in {None, run[c].id}
  BY <1>1 DEF IInv, TurnInv, MarkInv
<1> HIDE DEF told
<1>11. /\ HistoryTyped' /\ ~h'.wrong
       /\ ~h'.slipped => /\ ~h.slipped /\ object[t].started = c
                         /\ h'.finished = h.finished \cup {told}
  <2>1. CASE object[t].started # c \/ h.slipped
    BY <1>1, <2>1, MishapTyped
  <2>2. CASE ~(object[t].started # c \/ h.slipped)
    <3> DEFINE settled == IF g.lost THEN {} ELSE g.settled
    <3>1. h' = [g EXCEPT !.settled = settled]
      BY <1>1, <2>2 DEF Note
    <3>2. IsHistory(h) /\ ~h.wrong
      BY DEF IInv, Typed, HistoryTyped, TurnInv, MarkInv
    <3>3. IsHistory(g) /\ ~g.wrong /\ ~g.slipped /\ g.finished = h.finished \cup {told}
      <4> DEFINE k == [h EXCEPT !.finished = h.finished \cup {told}]
      <4>1. (h.wrong \/ run[c].mark \notin {None, run[c].id}) = FALSE
        BY <1>10, <3>2
      <4>2. g = [k EXCEPT !.wrong = FALSE]
        BY <4>1
      <4>3. IsHistory(k) /\ k.finished = h.finished \cup {told} /\ k.slipped = h.slipped
        BY <3>2 DEF IsHistory
      <4> HIDE DEF k, g
      <4> QED BY <2>2, <4>2, <4>3 DEF IsHistory
    <3> HIDE DEF settled, g
    <3> QED BY <2>2, <3>1, <3>3 DEF HistoryTyped, IsHistory
  <2> QED BY <2>1, <2>2
<1>12. Typed' /\ PlacesStay /\ SpawningStays /\ LivesStay
  BY <1>1, <1>8, <1>9, <1>11, TypedStays DEF Typed
<1>13. ServerInv'
  BY <1>12, ServersStay DEF IInv
<1>14. MarkInv' /\ OwnerInv' /\ RunInv'
  BY <1>1, <1>2, <1>6, <1>8, <1>9, <1>11 DEF IInv, TurnInv, MarkInv, OwnerInv, RunInv
<1>15. CleanInv'
  <2> SUFFICES ASSUME ~h'.slipped PROVE (StartedInv /\ ClosingInv /\ ClaimInv /\ ToldInv)'
    BY DEF CleanInv
  <2>1. ~h.slipped /\ object[t].started = c /\ h'.finished = h.finished \cup {told}
    BY <1>11
  <2>2. StartedInv /\ ClosingInv /\ ClaimInv /\ ToldInv
    BY <2>1 DEF IInv, TurnInv, CleanInv
  <2>3. run[c].id = c /\ object[t].turn = None
    BY <1>1, <1>2, <2>1, <2>2 DEF ClosingInv, StartedInv
  <2>4. StartedInv' /\ ClosingInv'
    BY <1>2, <1>6, <1>8, <1>9, <2>2, <2>3 DEF StartedInv, ClosingInv
  <2>5. ClaimInv'
    <3>1. Live => b.thread \in Prompts
      BY LiveTyped
    <3>2. Live' = Live /\ b' = b /\ rec' = rec /\ call' = call
      BY <1>1 DEF Live
    <3>3. \A u \in Prompts : object'[u].turn = object[u].turn /\ object'[u].state = object[u].state
      BY <1>2, <1>6, <1>8
    <3> QED BY <1>1, <1>9, <2>2, <3>1, <3>2, <3>3 DEF ClaimInv
  <2>6. ToldInv'
    BY <1>1, <1>4, <1>5, <1>9, <2>1, <2>2, <2>3 DEF ToldInv
  <2> QED BY <2>4, <2>5, <2>6
<1> QED BY <1>12, <1>13, <1>14, <1>15 DEF IInv, TurnInv

\* The row is idle, unless a turn was claimed meanwhile: a mishap.
LEMMA TurnIdleKeeps ==
  ASSUME IInv, NEW c \in Prompts, TurnIdle(c)
  PROVE  IInv'
<1> USE NoneIsNoPrompt
<1> DEFINE r == [run[c] EXCEPT !.pc = "gone"]
<1>1. /\ run[c].pc = "idle" /\ setState("idle") /\ Note(h, Turn # None)
      /\ UNCHANGED <<rec, b, call, proc>>
  BY DEF TurnIdle
<1>2. run[c] \in Runs /\ run' = [run EXCEPT ![c] = r] /\ r \in Runs /\ r.pc = "gone"
  BY DEF TurnIdle, IInv, Typed, RunsTyped, Runs, RunSteps
<1> HIDE DEF r
<1>3. RunsTyped' /\ run'[c].pc = "gone" /\ \A d \in Prompts \ {c} : run'[d] = run[d]
  BY <1>2 DEF IInv, Typed, RunsTyped
<1>4. /\ ObjectsTyped'
      /\ \A t \in Prompts : /\ object'[t].turn = object[t].turn
                            /\ object'[t].started = object[t].started
                            /\ object'[t].interrupted = object[t].interrupted
  BY <1>1, SetStateTyped DEF RowStates
<1>5. HistoryTyped' /\ ToldStays
  BY <1>1, NoteTyped DEF IInv, Typed, HistoryTyped
<1>6. Typed' /\ PlacesStay /\ SpawningStays /\ LivesStay
  BY <1>1, <1>3, <1>4, <1>5, TypedStays DEF Typed
<1>7. ServerInv'
  BY <1>6, ServersStay DEF IInv
<1>8. MarkInv' /\ OwnerInv' /\ RunInv'
  BY <1>1, <1>3, <1>4, <1>5 DEF IInv, TurnInv, MarkInv, OwnerInv, RunInv, ToldStays
<1>9. CleanInv'
  <2> SUFFICES ASSUME ~h'.slipped PROVE (StartedInv /\ ClosingInv /\ ClaimInv /\ ToldInv)'
    BY DEF CleanInv
  <2>1. ~h.slipped /\ h'.finished = h.finished /\ Turn = None
    BY <1>1, <1>5, MishapTyped DEF ToldStays
  <2>2. StartedInv /\ ClosingInv /\ ClaimInv /\ ToldInv
    BY <2>1 DEF IInv, TurnInv, CleanInv
  <2>3. StartedInv' /\ ClosingInv'
    BY <1>3, <1>4, <2>2 DEF StartedInv, ClosingInv
  <2>4. ClaimInv'
    <3>1. Live => b.thread \in Prompts /\ object[b.thread].turn = None
      BY <2>1, LiveTyped DEF Turn
    <3>2. Live' = Live /\ b' = b /\ rec' = rec /\ call' = call
      BY <1>1 DEF Live
    <3>3. Live => \A d \in Prompts : run'[d].pc # "sent"
      BY <1>3, <2>2, <3>1 DEF ClaimInv
    <3> QED BY <1>3, <1>4, <2>2, <3>1, <3>2, <3>3 DEF ClaimInv
  <2>5. ToldInv'
    BY <1>1, <1>3, <2>1, <2>2 DEF ToldInv
  <2> QED BY <2>3, <2>4, <2>5
<1> QED BY <1>6, <1>7, <1>8, <1>9 DEF IInv, TurnInv

-----------------------------------------------------------------------------
(* The owner's other requests.                                             *)

LEMMA InterruptKeeps ==
  ASSUME IInv, Interrupt
  PROVE  IInv'
<1> USE NoneIsNoPrompt
<1> DEFINE t == b.thread
           q == [object[t] EXCEPT !.interrupted = object[t].turn]
<1>1. Live /\ UNCHANGED <<rec, b, call, run, proc, h>>
  BY DEF Interrupt, Turn
<1>2. t \in Prompts /\ object[t] \in Objects
  BY <1>1, LiveTyped
<1>3. object' = [object EXCEPT ![t] = q]
  BY <1>1, <1>2 DEF Interrupt, Turn
<1>4. /\ q \in Objects /\ q.turn = object[t].turn /\ q.started = object[t].started
      /\ q.interrupted = object[t].turn /\ q.state = object[t].state
  BY <1>2 DEF Objects
<1> HIDE DEF q, t
<1>5. ObjectsTyped' /\ TurnsStay
  BY <1>2, <1>3, <1>4, ObjectTyped
<1>6. /\ Typed' /\ PlacesStay /\ LivesStay /\ SpawningStays /\ ClaimsStay /\ ThreadStays
      /\ RunsStay /\ ToldStays /\ rec'.live = rec.live
  BY <1>1, <1>5, TypedStays DEF Typed
<1> QED BY <1>5, <1>6, Frame

\* What is on offer changes.
LEMMA PendingTyped ==
  ASSUME IInv, Live, NEW P \in SUBSET Requests,
         object' = [object EXCEPT ![b.thread].pending = P]
  PROVE  ObjectsTyped' /\ TurnsStay
<1> DEFINE t == b.thread
           q == [object[t] EXCEPT !.pending = P]
<1>1. t \in Prompts /\ object[t] \in Objects /\ object[t].interrupted \in {None, object[t].turn}
  BY LiveTyped
<1>2. /\ q \in Objects /\ q.turn = object[t].turn /\ q.started = object[t].started
      /\ q.interrupted = object[t].interrupted /\ q.state = object[t].state
  BY <1>1 DEF Objects
<1>3. object' = [object EXCEPT ![t] = q]
  BY <1>1
<1> HIDE DEF q, t
<1> QED BY <1>1, <1>2, <1>3, ObjectTyped

LEMMA RespondTakesKeeps ==
  ASSUME IInv, NEW o \in Owners, NEW a \in Requests, RespondTakes(o, a)
  PROVE  IInv'
<1> DEFINE P == object[b.thread].pending \ {a}
<1>1. Live /\ UNCHANGED <<rec, b, call, run, proc, h>>
  BY DEF RespondTakes, Pending
<1>2. b.thread \in Prompts /\ object[b.thread] \in Objects
  BY <1>1, LiveTyped
<1>3. P \in SUBSET Requests /\ object' = [object EXCEPT ![b.thread].pending = P]
  BY <1>2 DEF RespondTakes, Objects
<1> HIDE DEF P
<1>4. ObjectsTyped' /\ TurnsStay
  BY <1>1, <1>3, PendingTyped
<1>5. /\ Typed' /\ PlacesStay /\ LivesStay /\ SpawningStays /\ ClaimsStay /\ ThreadStays
      /\ RunsStay /\ ToldStays /\ rec'.live = rec.live
  BY <1>1, <1>4, TypedStays DEF Typed
<1> QED BY <1>4, <1>5, Frame

LEMMA RespondKeeps ==
  ASSUME IInv, NEW o \in Owners, Respond(o)
  PROVE  IInv'
<1> DEFINE a == AnswerTo(respond[o][1])
           s == b.server
<1>1. UNCHANGED <<rec, b, call, run>>
  BY DEF Respond
<1>2. ObjectsTyped' /\ TurnsStay
  <2>1. setState("running") \/ UNCHANGED object
    BY DEF Respond
  <2> QED BY <2>1, SetStateTyped, TypedStays DEF RowStates
<1>3. ProcessesTyped' /\ LivesStay
  <2>1. CASE UNCHANGED proc
    BY <2>1, TypedStays
  <2>2. CASE a \in Server.open /\ proc' = [proc EXCEPT ![s].open = @ \ {a}]
    <3> DEFINE q == [proc[s] EXCEPT !.open = proc[s].open \ {a}]
    <3>1. s \in Prompts
      BY <2>2, NoneIsNoPrompt DEF Server, NoProcess, IInv, Typed, BackendTyped, Nobody
    <3>2. proc[s] \in Processes /\ proc' = [proc EXCEPT ![s] = q]
      BY <2>2, <3>1 DEF IInv, Typed, ProcessesTyped
    <3> HIDE DEF a
    <3>3. q \in Processes /\ q.alive = proc[s].alive
      BY <3>2 DEF Processes
    <3> HIDE DEF q, s
    <3> QED BY <3>2, <3>3, ProcessTyped
  <2> QED BY <2>1, <2>2 DEF Respond
<1>4. HistoryTyped' /\ ToldStays
  <2> DEFINE g == [h EXCEPT !.lost = TRUE]
  <2>1. CASE UNCHANGED h
    BY <2>1, TypedStays
  <2>2. CASE Note(g, FALSE)
    <3>1. IsHistory(g) /\ g.finished = h.finished /\ g.wrong = h.wrong /\ g.slipped = h.slipped
      BY HistoryFields DEF Told, IInv, Typed, HistoryTyped
    <3> HIDE DEF g
    <3> QED BY <2>2, <3>1, NoteTyped
  <2> QED BY <2>1, <2>2 DEF Respond
<1>5. /\ Typed' /\ PlacesStay /\ SpawningStays /\ ClaimsStay /\ ThreadStays
      /\ RunsStay /\ rec'.live = rec.live
  BY <1>1, <1>2, <1>3, <1>4, TypedStays DEF Typed
<1> QED BY <1>2, <1>3, <1>4, <1>5, Frame

\* Nothing is claimed of a thread that is deleted.
LEMMA DiscardKeeps ==
  ASSUME IInv, Discard
  PROVE  IInv'
<1> USE NoneIsNoPrompt
<1> DEFINE s == b.server
<1>1. UNCHANGED <<object, call, run, h>>
  BY DEF Discard
<1>2. RowTyped' /\ ~rec'.live
  BY DEF Discard, IInv, Typed, RowTyped
<1>3. BackendTyped' /\ PlacesStay /\ b'.thread = None
  BY DEF Discard, IInv, Typed, BackendTyped, PlacesStay
<1>4. ProcessesTyped' /\ LivesStay
  <2>1. CASE UNCHANGED proc
    BY <2>1, TypedStays
  <2>2. CASE Server.alive
    <3> DEFINE failed == proc[s].failed \cup ({proc[s].work} \ {None}) \cup proc[s].inbox
               q == [proc[s] EXCEPT !.work = None, !.open = {}, !.inbox = {}, !.failed = failed]
    <3>1. s \in Prompts
      BY <2>2 DEF Server, NoProcess, IInv, Typed, BackendTyped, Nobody
    <3>2. proc[s] \in Processes
      BY <3>1 DEF IInv, Typed, ProcessesTyped
    <3>3. failed \in SUBSET Prompts
      BY <3>2 DEF Processes, Nobody
    <3>4. proc' = [proc EXCEPT ![s] = q] \/ UNCHANGED proc
      BY <3>1 DEF Discard
    <3> HIDE DEF failed
    <3>5. q \in Processes /\ q.alive = proc[s].alive
      BY <3>2, <3>3 DEF Processes
    <3> HIDE DEF q, s
    <3> QED BY <3>4, <3>5, ProcessTyped, TypedStays
  <2> QED BY <2>1, <2>2 DEF Discard
<1>5. Typed' /\ SpawningStays
  BY <1>1, <1>2, <1>3, <1>4, TypedStays DEF Typed
<1>6. ServerInv'
  BY <1>3, <1>4, <1>5, ServersStay DEF IInv
<1>7. MarkInv' /\ OwnerInv' /\ RunInv'
  BY <1>1 DEF IInv, TurnInv, MarkInv, OwnerInv, RunInv
<1>8. CleanInv'
  BY <1>1, <1>2, <1>3 DEF IInv, TurnInv, CleanInv, StartedInv, ClosingInv, ClaimInv, ToldInv, Live
<1> QED BY <1>5, <1>6, <1>7, <1>8 DEF IInv, TurnInv

-----------------------------------------------------------------------------
(* The server.                                                             *)

\* No prompt moves, and what the table names stays.
LEMMA QuietStep ==
  ASSUME IInv, UNCHANGED <<rec, b, call, run>>, ObjectsTyped', TurnsStay, ProcessesTyped', LivesStay,
         HistoryTyped', ToldStays
  PROVE  IInv'
<1>1. /\ Typed' /\ PlacesStay /\ SpawningStays /\ ThreadStays /\ ClaimsStay /\ RunsStay
      /\ rec'.live = rec.live
  BY TypedStays DEF Typed
<1> QED BY <1>1, Frame

LEMMA ServerTakesKeeps ==
  ASSUME IInv, NEW s \in Prompts, NEW c \in Prompts, ServerTakes(s, c)
  PROVE  IInv'
<1> DEFINE q == [proc[s] EXCEPT !.inbox = proc[s].inbox \ {c}, !.work = c, !.sent = {},
                                !.completed = FALSE]
<1>1. proc[s] \in Processes /\ proc' = [proc EXCEPT ![s] = q]
      /\ UNCHANGED <<rec, b, object, call, run, h>>
  BY DEF ServerTakes, IInv, Typed, ProcessesTyped
<1>2. q \in Processes /\ q.alive = proc[s].alive
  BY <1>1, NoneIsNoPrompt DEF Processes
<1> HIDE DEF q
<1>3. ProcessesTyped' /\ LivesStay
  BY <1>1, <1>2, ProcessTyped
<1> QED BY <1>1, <1>3, TypedStays, QuietStep

LEMMA ServerSaysPartKeeps ==
  ASSUME IInv, NEW s \in Prompts, NEW i \in Parts, ServerSaysPart(s, i)
  PROVE  IInv'
<1> DEFINE m == proc[s].work
           p == [proc[s] EXCEPT !.sent = proc[s].sent \cup {i}]
           lines == <<<<"message.part.updated", m, i>>>>
<1>1. proc[s] \in Processes /\ m \in Prompts
  BY DEF ServerSaysPart, IInv, Typed, ProcessesTyped, Processes, Nobody
<1>2. p \in Processes /\ p.alive = proc[s].alive
  BY <1>1 DEF Processes
<1>3. lines \in Seq(Lines)
  BY <1>1 DEF Lines
<1>4. Says(s, p, h, lines)
  BY <1>1 DEF ServerSaysPart
<1> HIDE DEF p, lines
<1> QED BY <1>2, <1>3, <1>4, SaysTyped DEF IInv, Typed, HistoryTyped

LEMMA ServerAsksKeeps ==
  ASSUME IInv, NEW s \in Prompts, NEW kind \in Kinds, ServerAsks(s, kind)
  PROVE  IInv'
<1> DEFINE m == proc[s].work
           n == h.asked + 1
           p == [proc[s] EXCEPT !.open = proc[s].open \cup {<<n, kind>>}]
           g == [h EXCEPT !.asked = n]
           lines == <<<<"asked", m, n, kind>>>>
<1>1. proc[s] \in Processes /\ m \in Prompts /\ n \in Asks
  BY DEF ServerAsks, IInv, Typed, ProcessesTyped, Processes, Nobody
<1>2. Says(s, p, g, lines)
  BY <1>1 DEF ServerAsks
<1> HIDE DEF n
<1>3. p \in Processes /\ p.alive = proc[s].alive
  BY <1>1 DEF Processes, Requests
<1>4. lines \in Seq(Lines)
  BY <1>1 DEF Lines
<1>5. IsHistory(g) /\ g.finished = h.finished /\ g.wrong = h.wrong /\ g.slipped = h.slipped
  BY HistoryFields DEF Told, IInv, Typed, HistoryTyped
<1> HIDE DEF p, lines, g
<1> QED BY <1>2, <1>3, <1>4, <1>5, SaysTyped

LEMMA ServerForgetsKeeps ==
  ASSUME IInv, NEW s \in Prompts, NEW a \in Requests, ServerForgets(s, a)
  PROVE  IInv'
<1> DEFINE m == proc[s].work
           p == [proc[s] EXCEPT !.open = proc[s].open \ {a}]
           lines == <<<<"replied", m, a[1]>>>>
<1>1. proc[s] \in Processes /\ m \in Nobody
  BY DEF IInv, Typed, ProcessesTyped, Processes
<1>2. p \in Processes /\ p.alive = proc[s].alive
  BY <1>1 DEF Processes
<1>3. lines \in Seq(Lines)
  BY <1>1 DEF Lines, Requests
<1>4. Says(s, p, h, lines)
  BY <1>1 DEF ServerForgets
<1> HIDE DEF p, lines
<1> QED BY <1>2, <1>3, <1>4, SaysTyped DEF IInv, Typed, HistoryTyped

LEMMA ServerCompletesKeeps ==
  ASSUME IInv, NEW s \in Prompts, ServerCompletes(s)
  PROVE  IInv'
<1> DEFINE m == proc[s].work
           p == [proc[s] EXCEPT !.completed = TRUE, !.sent = {}]
           lines == <<<<"message.updated", m, 0>>>>
<1>1. proc[s] \in Processes /\ m \in Prompts
  BY DEF ServerCompletes, IInv, Typed, ProcessesTyped, Processes, Nobody
<1>2. p \in Processes /\ p.alive = proc[s].alive
  BY <1>1 DEF Processes
<1>3. lines \in Seq(Lines)
  BY <1>1 DEF Lines
<1>4. Says(s, p, h, lines)
  BY <1>1 DEF ServerCompletes
<1> HIDE DEF p, lines
<1> QED BY <1>2, <1>3, <1>4, SaysTyped DEF IInv, Typed, HistoryTyped

LEMMA ServerAnswersKeeps ==
  ASSUME IInv, NEW s \in Prompts, ServerAnswers(s)
  PROVE  IInv'
<1> DEFINE m == proc[s].work
           q == [proc[s] EXCEPT !.work = None, !.answered = proc[s].answered \cup {m}]
<1>1. proc[s] \in Processes /\ m \in Prompts /\ proc' = [proc EXCEPT ![s] = q]
      /\ UNCHANGED <<rec, b, object, call, run, h>>
  BY DEF ServerAnswers, IInv, Typed, ProcessesTyped, Processes, Nobody
<1>2. q \in Processes /\ q.alive = proc[s].alive
  BY <1>1, NoneIsNoPrompt DEF Processes
<1> HIDE DEF q
<1>3. ProcessesTyped' /\ LivesStay
  BY <1>1, <1>2, ProcessTyped
<1> QED BY <1>1, <1>3, TypedStays, QuietStep

LEMMA ServerGivesUpKeeps ==
  ASSUME IInv, NEW s \in Prompts, ServerGivesUp(s)
  PROVE  IInv'
<1> DEFINE m == proc[s].work
           q == [proc[s] EXCEPT !.work = None, !.failed = proc[s].failed \cup {m}, !.open = {}]
           lost == h.lost \/ proc[s].open # {}
           g == [h EXCEPT !.lost = lost]
<1>1. proc[s] \in Processes /\ m \in Prompts /\ proc' = [proc EXCEPT ![s] = q] /\ Note(g, FALSE)
      /\ UNCHANGED <<rec, b, object, call, run>>
  BY DEF ServerGivesUp, IInv, Typed, ProcessesTyped, Processes, Nobody
<1>2. q \in Processes /\ q.alive = proc[s].alive
  BY <1>1, NoneIsNoPrompt DEF Processes
<1> HIDE DEF q, lost
<1>3. ProcessesTyped' /\ LivesStay
  BY <1>1, <1>2, ProcessTyped
<1>4. IsHistory(g) /\ g.finished = h.finished /\ g.wrong = h.wrong /\ g.slipped = h.slipped
  BY HistoryFields DEF Told, IInv, Typed, HistoryTyped
<1> HIDE DEF g
<1>5. HistoryTyped' /\ ToldStays
  BY <1>1, <1>4, NoteTyped
<1> QED BY <1>1, <1>3, <1>5, TypedStays, QuietStep

LEMMA ServerDiesKeeps ==
  ASSUME IInv, NEW s \in Prompts, ServerDies(s)
  PROVE  IInv'
<1>1. ProcessesTyped' /\ LivesStay /\ UNCHANGED <<rec, b, object, call, run, h>>
  BY KilledTyped DEF ServerDies
<1> QED BY <1>1, TypedStays, QuietStep

-----------------------------------------------------------------------------
(* The stream.                                                             *)

LEMMA LineTyped ==
  ASSUME IInv, HasLine
  PROVE  /\ b.server \in Prompts /\ proc[b.server] \in Processes /\ Line \in Lines
         /\ proc[b.server].pipe \in Seq(Lines) /\ proc[b.server].pipe # <<>>
<1>1. b.server # None /\ proc[b.server].pipe # <<>>
  BY DEF HasLine, Server, NoProcess
<1>2. b.server \in Prompts /\ proc[b.server] \in Processes
  BY <1>1 DEF IInv, Typed, BackendTyped, Nobody, ProcessesTyped
<1>3. proc[b.server].pipe \in Seq(Lines)
  BY <1>2 DEF Processes
<1> QED BY <1>1, <1>2, <1>3 DEF Line

LEMMA LineParts ==
  ASSUME NEW line \in Lines
  PROVE  /\ line[1] = "message.part.updated" => line[2] \in Prompts /\ line[3] \in Parts
         /\ line[1] = "message.updated" => line[2] \in Prompts
         /\ line[1] = "asked" => line[3] \in Asks
BY DEF Lines

LEMMA RestTyped ==
  ASSUME IInv, HasLine, Rest
  PROVE  ProcessesTyped' /\ LivesStay
<1> DEFINE s == b.server
           q == [proc[s] EXCEPT !.pipe = Tail(proc[s].pipe)]
<1>1. s \in Prompts /\ proc[s] \in Processes /\ Tail(proc[s].pipe) \in Seq(Lines)
  BY LineTyped
<1>2. q \in Processes /\ q.alive = proc[s].alive
  BY <1>1 DEF Processes
<1>3. proc' = [proc EXCEPT ![s] = q]
  BY <1>1 DEF Rest
<1> HIDE DEF q, s
<1> QED BY <1>1, <1>2, <1>3, ProcessTyped

LEMMA subscribeKeeps ==
  ASSUME IInv, subscribe
  PROVE  IInv'
BY TypedStays, QuietStep DEF subscribe

LEMMA StreamBreaksKeeps ==
  ASSUME IInv, StreamBreaks
  PROVE  IInv'
<1> DEFINE s == b.server
           q == [proc[s] EXCEPT !.pipe = <<>>]
           lost == h.lost \/ proc[s].pipe # <<>>
           g == [h EXCEPT !.lost = lost]
<1>1. proc' = [proc EXCEPT ![s] = q] /\ Note(g, FALSE) /\ UNCHANGED <<rec, b, object, call, run>>
  BY DEF StreamBreaks
<1>2. s \in Prompts => q \in Processes /\ q.alive = proc[s].alive
  <2> SUFFICES ASSUME s \in Prompts PROVE q \in Processes /\ q.alive = proc[s].alive
    OBVIOUS
  <2>1. proc[s] \in Processes /\ <<>> \in Seq(Lines)
    BY DEF IInv, Typed, ProcessesTyped
  <2> QED BY <2>1 DEF Processes
<1> HIDE DEF q, lost, s
<1>3. ProcessesTyped' /\ LivesStay
  BY <1>1, <1>2, ProcessTyped
<1>4. IsHistory(g) /\ g.finished = h.finished /\ g.wrong = h.wrong /\ g.slipped = h.slipped
  BY HistoryFields DEF Told, IInv, Typed, HistoryTyped
<1> HIDE DEF g
<1>5. HistoryTyped' /\ ToldStays
  BY <1>1, <1>4, NoteTyped
<1> QED BY <1>1, <1>3, <1>5, TypedStays, QuietStep

LEMMA onEventUnknownKeeps ==
  ASSUME IInv, onEventUnknown
  PROVE  IInv'
BY RestTyped, TypedStays, QuietStep DEF onEventUnknown

LEMMA onPartUpdatedKeeps ==
  ASSUME IInv, onPartUpdated
  PROVE  IInv'
<1> DEFINE t == b.thread
           m == Line[2]
           parts == [object[t].assembling EXCEPT ![m] = object[t].assembling[m] \cup {Line[3]}]
           q == [object[t] EXCEPT !.assembling = parts]
<1>1. HasLine /\ Live /\ Line[1] = "message.part.updated" /\ Rest
      /\ UNCHANGED <<rec, b, call, run, h>>
  BY DEF onPartUpdated, Event, Known
<1>2. m \in Prompts /\ Line[3] \in Parts
  BY <1>1, LineTyped, LineParts
<1>3. t \in Prompts /\ object[t] \in Objects /\ object[t].interrupted \in {None, object[t].turn}
  BY <1>1, LiveTyped
<1>4. object' = [object EXCEPT ![t] = q]
  BY <1>3 DEF onPartUpdated
<1> HIDE DEF m
<1>5. parts \in [Prompts -> SUBSET Parts]
  BY <1>2, <1>3 DEF Objects
<1> HIDE DEF parts
<1>6. /\ q \in Objects /\ q.turn = object[t].turn /\ q.started = object[t].started
      /\ q.interrupted = object[t].interrupted /\ q.state = object[t].state
  BY <1>3, <1>5 DEF Objects
<1> HIDE DEF q, t
<1>7. ObjectsTyped' /\ TurnsStay
  BY <1>3, <1>4, <1>6, ObjectTyped
<1>8. ProcessesTyped' /\ LivesStay
  BY <1>1, RestTyped
<1> QED BY <1>1, <1>7, <1>8, TypedStays, QuietStep

LEMMA onMessageUpdatedKeeps ==
  ASSUME IInv, onMessageUpdated
  PROVE  IInv'
<1> DEFINE t == b.thread
           m == Line[2]
           parts == [object[t].assembling EXCEPT ![m] = {}]
           usage == IF object[t].started # None THEN Counted(object[t].usage, m)
                                                ELSE object[t].usage
           q == [object[t] EXCEPT !.assembling = parts, !.usage = usage]
           settled == h.settled \cup {<<m, object[t].assembling[m]>>}
           g == [h EXCEPT !.settled = settled]
<1>1. HasLine /\ Live /\ Line[1] = "message.updated" /\ Rest /\ Note(g, FALSE)
      /\ UNCHANGED <<rec, b, call, run>>
  BY DEF onMessageUpdated, Event, Known
<1>2. m \in Prompts
  BY <1>1, LineTyped, LineParts
<1>3. t \in Prompts /\ object[t] \in Objects /\ object[t].interrupted \in {None, object[t].turn}
  BY <1>1, LiveTyped
<1>4. object' = [object EXCEPT ![t] = q]
  BY <1>3 DEF onMessageUpdated
<1> HIDE DEF m
<1>5. parts \in [Prompts -> SUBSET Parts] /\ usage \in [Prompts -> 0..2]
  BY <1>2, <1>3 DEF Objects, Counted
<1> HIDE DEF parts, usage, settled
<1>6. /\ q \in Objects /\ q.turn = object[t].turn /\ q.started = object[t].started
      /\ q.interrupted = object[t].interrupted /\ q.state = object[t].state
  BY <1>3, <1>5 DEF Objects
<1> HIDE DEF q, t
<1>7. ObjectsTyped' /\ TurnsStay
  BY <1>3, <1>4, <1>6, ObjectTyped
<1>8. ProcessesTyped' /\ LivesStay
  BY <1>1, RestTyped
<1>9. IsHistory(g) /\ g.finished = h.finished /\ g.wrong = h.wrong /\ g.slipped = h.slipped
  BY HistoryFields DEF Told, IInv, Typed, HistoryTyped
<1> HIDE DEF g
<1>10. HistoryTyped' /\ ToldStays
  BY <1>1, <1>9, NoteTyped
<1> QED BY <1>1, <1>7, <1>8, <1>10, TypedStays, QuietStep

LEMMA addPendingKeeps ==
  ASSUME IInv, NEW kind \in Kinds, Asked(kind), addPending(kind)
  PROVE  IInv'
<1> DEFINE P == object[b.thread].pending \cup {<<Line[3], kind>>}
<1>1. HasLine /\ Live /\ Line[1] = "asked" /\ Rest /\ UNCHANGED <<rec, b, call, run, h>>
  BY DEF Asked, addPending, Event, Known
<1>2. Line[3] \in Asks
  BY <1>1, LineTyped, LineParts
<1>3. b.thread \in Prompts /\ object[b.thread] \in Objects
  BY <1>1, LiveTyped
<1>4. P \in SUBSET Requests /\ object' = [object EXCEPT ![b.thread].pending = P]
  BY <1>2, <1>3 DEF addPending, Objects, Requests
<1> HIDE DEF P
<1>5. ObjectsTyped' /\ TurnsStay
  BY <1>1, <1>4, PendingTyped
<1>6. ProcessesTyped' /\ LivesStay
  BY <1>1, RestTyped
<1> QED BY <1>1, <1>5, <1>6, TypedStays, QuietStep

LEMMA forgetPendingKeeps ==
  ASSUME IInv, forgetPending
  PROVE  IInv'
<1> DEFINE mine == {a \in Pending : a[1] = Line[3]}
           P == object[b.thread].pending \ mine
<1>1. HasLine /\ Live /\ Rest /\ UNCHANGED <<rec, b, call, run, h>>
  BY DEF forgetPending, Event, Known
<1>2. b.thread \in Prompts /\ object[b.thread] \in Objects
  BY <1>1, LiveTyped
<1>3. P \in SUBSET Requests /\ object' = [object EXCEPT ![b.thread].pending = P]
  BY <1>2 DEF forgetPending, Objects
<1> HIDE DEF P
<1>4. ObjectsTyped' /\ TurnsStay
  BY <1>1, <1>3, PendingTyped
<1>5. ProcessesTyped' /\ LivesStay
  BY <1>1, RestTyped
<1> QED BY <1>1, <1>4, <1>5, TypedStays, QuietStep

LEMMA SetsStateKeeps ==
  ASSUME IInv, SetsState
  PROVE  IInv'
<1>1. (setState("waiting_input") \/ setState("running")) /\ UNCHANGED <<rec, b, call, run, proc, h>>
  BY DEF SetsState
<1>2. ObjectsTyped' /\ TurnsStay
  BY <1>1, SetStateTyped DEF RowStates
<1> QED BY <1>1, <1>2, TypedStays, QuietStep

-----------------------------------------------------------------------------
(* The invariant.                                                          *)

LEMMA InitIInv == Init => IInv
<1> SUFFICES ASSUME Init PROVE IInv
  OBVIOUS
<1> USE NoneIsNoPrompt
<1>1. newThread \in Objects /\ newThread.turn = None /\ newThread.interrupted = None
  BY DEF newThread, Objects, RowStates
<1>2. NoCall \in Calls /\ NoCall.pc = "new"
  BY DEF NoCall, Calls, PromptSteps
<1>3. NoRun \in Runs /\ NoRun.pc = "none"
  BY DEF NoRun, Runs, RunSteps
<1>4. NoProcess \in Processes /\ ~NoProcess.alive
  BY DEF NoProcess, Processes
<1>5. IsHistory(NoHistory) /\ ~NoHistory.wrong /\ NoHistory.finished = {}
  BY DEF IsHistory, NoHistory
<1>6. /\ rec.live /\ b.thread = None /\ b.server = None /\ b.starting = None
      /\ object = [t \in Prompts |-> newThread] /\ call = [c \in Prompts |-> NoCall]
      /\ run = [c \in Prompts |-> NoRun] /\ proc = [s \in Prompts |-> NoProcess] /\ h = NoHistory
  BY DEF Init
<1>7. Typed
  <2>1. RowTyped /\ BackendTyped
    BY DEF Init, RowTyped, BackendTyped
  <2>2. ObjectsTyped /\ CallsTyped /\ RunsTyped /\ ProcessesTyped /\ HistoryTyped
    BY <1>1, <1>2, <1>3, <1>4, <1>5, <1>6
       DEF ObjectsTyped, CallsTyped, RunsTyped, ProcessesTyped, HistoryTyped
  <2> QED BY <2>1, <2>2 DEF Typed
<1>8. ServerInv
  BY <1>2, <1>4, <1>6 DEF ServerInv
<1>9. MarkInv /\ OwnerInv /\ RunInv
  BY <1>1, <1>2, <1>3, <1>5, <1>6 DEF MarkInv, OwnerInv, RunInv
<1>10. CleanInv
  BY <1>1, <1>2, <1>3, <1>5, <1>6 DEF CleanInv, StartedInv, ClosingInv, ClaimInv, ToldInv, Live
<1> QED BY <1>7, <1>8, <1>9, <1>10 DEF IInv, TurnInv

LEMMA NextIInv == IInv /\ [Next]_vars => IInv'
<1> SUFFICES ASSUME IInv, [Next]_vars PROVE IInv'
  OBVIOUS
<1>1. ASSUME NEW c \in Prompts, PromptStep(c) PROVE IInv'
  BY <1>1, ArriveKeeps, ensureServerKeeps, spawnKeeps, ListeningKeeps, SpawnFailsKeeps,
     openSessionKeeps, OptionInvalidKeeps, ClaimKeeps, PromptReturnsKeeps, TurnAnsweredKeeps, TurnFinishedKeeps, TurnIdleKeeps DEF PromptStep
<1>2. ASSUME NEW s \in Prompts, ServerStep(s) PROVE IInv'
  BY <1>2, ServerCompletesKeeps, ServerAnswersKeeps, ServerGivesUpKeeps, ServerDiesKeeps,
     ServerTakesKeeps, ServerSaysPartKeeps, ServerForgetsKeeps, ServerAsksKeeps DEF ServerStep
<1>3. ASSUME StreamStep PROVE IInv'
  <2>1. ASSUME onPermissionAsked \/ onQuestionAsked PROVE IInv'
    BY <2>1, addPendingKeeps DEF onPermissionAsked, onQuestionAsked, Kinds
  <2> QED BY <1>3, <2>1, subscribeKeeps, StreamBreaksKeeps, onEventUnknownKeeps, onPartUpdatedKeeps,
             onMessageUpdatedKeeps, forgetPendingKeeps, SetsStateKeeps DEF StreamStep
<1>4. CASE UNCHANGED vars
  BY <1>4, TypedStays, QuietStep DEF vars
<1> QED BY <1>1, <1>2, <1>3, <1>4, DiscardKeeps, InterruptKeeps, RespondKeeps, RespondTakesKeeps
        DEF Next

\* The parts above hold together in every state that can be reached.
THEOREM Invariance == Spec => []IInv
<1>1. Init => IInv
  BY InitIInv
<1>2. IInv /\ [Next]_vars => IInv'
  BY NextIInv
<1> QED BY <1>1, <1>2, PTL DEF Spec

-----------------------------------------------------------------------------
(* What follows from it.                                                   *)

LEMMA ServersFollow == IInv => ServersSound
<1> SUFFICES ASSUME IInv PROVE TypeOK /\ OneServer
  BY DEF ServersSound
<1> USE NoneIsNoPrompt
<1>1. TypeOK
  <2>1. RowTyped /\ BackendTyped /\ ObjectsTyped
    BY DEF IInv, Typed
  <2>2. \A t \in Prompts : object[t].turn # None /\ ~h.slipped => object[t].started = object[t].turn
    BY DEF IInv, TurnInv, CleanInv, StartedInv
  <2>3. \A c \in Prompts : run[c].pc = "closing" => run[c].t # None /\ run[c].id \in Nobody
    BY DEF IInv, Typed, RunsTyped, Runs
  <2> QED BY <2>1, <2>2, <2>3
          DEF TypeOK, RowTyped, BackendTyped, ObjectsTyped, Objects, RowStates
<1>2. OneServer
  <2> DEFINE alive == {s \in Prompts : proc[s].alive}
  <2>1. \A s \in Prompts : proc[s].alive => s \in {b.server, b.starting}
    BY DEF IInv, ServerInv
  <2>2. PICK s \in Nobody : alive \subseteq {s}
    <3>1. b.server = None \/ b.starting = None
      BY DEF IInv, ServerInv
    <3>2. CASE b.server = None
      BY <2>1, <3>2 DEF IInv, Typed, BackendTyped
    <3>3. CASE b.starting = None
      BY <2>1, <3>3 DEF IInv, Typed, BackendTyped
    <3> QED BY <3>1, <3>2, <3>3
  <2>3. Cardinality(alive) <= 1
    <3>1. IsFiniteSet({s}) /\ Cardinality({s}) = 1
      BY FS_Singleton
    <3> HIDE DEF alive
    <3>2. Cardinality(alive) <= Cardinality({s})
      BY <2>2, <3>1, FS_Subset
    <3> QED BY <3>1, <3>2
  <2> QED BY <2>1, <2>3 DEF OneServer
<1> QED BY <1>1, <1>2

LEMMA TurnsFollow == IInv => TurnsTold
<1> SUFFICES ASSUME IInv PROVE NoTurnIsDropped /\ RunningIsNotIdle /\ InterruptedIsTheOwners
  BY DEF TurnsTold
<1>1. NoTurnIsDropped
  <2> SUFFICES ASSUME ~h.slipped, rec.live, NEW c \in Prompts, call[c].pc = "returned"
               PROVE  \/ run[c].pc = "sent" /\ Turn = c
                      \/ run[c].pc = "closing"
                      \/ \E f \in h.finished : f[1] = c
    BY DEF NoTurnIsDropped
  <2>1. ClaimInv /\ ToldInv
    BY DEF IInv, TurnInv, CleanInv
  <2>2. run[c].pc \in {"sent", "closing"} \/ \E f \in h.finished : f[1] = c
    BY <2>1 DEF ToldInv
  <2>3. run[c].pc = "sent" => Turn = c
    BY <2>1 DEF ClaimInv, Turn
  <2> QED BY <2>2, <2>3
<1>2. RunningIsNotIdle
  BY DEF RunningIsNotIdle, IInv, TurnInv, CleanInv, ClaimInv
<1>3. InterruptedIsTheOwners
  BY DEF InterruptedIsTheOwners, IInv, TurnInv, MarkInv
<1> QED BY <1>1, <1>2, <1>3

\* Types, and one server: prompts that arrive together share what the first of
\* them spawns (ensureServer), and no server lives that the backend does not
\* name, for any number of prompts and however they are interleaved.
THEOREM OneServerForAll == Spec => []ServersSound
BY Invariance, ServersFollow, PTL

\* Outside the mishaps of the README: a prompt that was accepted is under way
\* and is the thread's turn, or is told to its end (runTurn), unless its thread
\* was deleted; its row does not read idle meanwhile; and a turn is told as
\* interrupted only if the owner interrupted that very turn (Interrupt).
THEOREM TurnsAreTold == Spec => []TurnsTold
BY Invariance, TurnsFollow, PTL

\* Outside the mishaps: a turn that was answered is told with the usage of its
\* message exactly once, whichever of the answer (runTurn) and the event
\* (onMessageUpdated) came first.
THEOREM UsageIsCounted == Spec => []UsageIsWhole
<1>1. IInv => UsageIsWhole
  BY DEF UsageIsWhole, IInv, TurnInv, CleanInv, ToldInv
<1> QED BY <1>1, Invariance, PTL

-----------------------------------------------------------------------------
(* What the server asks and says, as long as nothing of it was lost.  The   *)
(* invariant is stated of the values it relates: the unread events q, the  *)
(* requests O the server waits on, the ones P on offer, the ones H in the  *)
(* hands of owners, the number n of the last one.                          *)

Hands == {respond[o][1] : o \in {o \in Owners : respond[o] # <<>>}}

IsLine(q, kind, i, n) == q[i][1] = kind /\ q[i][3] = n
Unread(q, kind, n) == \E i \in DOMAIN q : IsLine(q, kind, i, n)

\* A request is in one place, and its number names it.
Numbered(q, O, P, H, n) ==
  /\ \A a \in O : a[1] <= n
  /\ \A a \in P : a[1] <= n
  /\ \A a \in H : a[1] <= n
  /\ \A i \in DOMAIN q : q[i][1] \in {"asked", "replied"} => q[i][3] <= n
  /\ \A a, e \in O : a[1] = e[1] => a = e
Placed(q, P, H) ==
  /\ \A i, j \in DOMAIN q : q[i][1] = "asked" /\ q[j][1] = "asked" /\ q[i][3] = q[j][3] => i = j
  /\ \A i \in DOMAIN q : q[i][1] = "asked" => /\ \A a \in P : a[1] # q[i][3]
                                              /\ \A a \in H : a[1] # q[i][3]
  /\ \A a \in P : a \notin H

\* What is waited on can be found, as what it is; what is found is waited on,
\* unless another client answered it.
Found(q, O, P, H) ==
  \A a \in O : /\ a \in P \/ a \in H \/ Unread(q, "asked", a[1])
               /\ \A i \in DOMAIN q : IsLine(q, "asked", i, a[1]) => q[i][4] = a[2]
               /\ ~Unread(q, "replied", a[1])
Waited(q, O, P) ==
  /\ \A a \in P : a \in O \/ Unread(q, "replied", a[1])
  /\ \A i \in DOMAIN q : q[i][1] = "asked" =>
       \/ <<q[i][3], q[i][4]>> \in O
       \/ \E j \in DOMAIN q : j > i /\ IsLine(q, "replied", j, q[i][3])

Asking(q, O, P, H, n, alive) ==
  Numbered(q, O, P, H, n) /\ Placed(q, P, H) /\ Found(q, O, P, H) /\ (alive => Waited(q, O, P))

\* A message put together from A and the first k events of q.
IsPart(q, j, m) == q[j][1] = "message.part.updated" /\ q[j][2] = m
IsEnd(q, i, m) == q[i][1] = "message.updated" /\ q[i][2] = m
Together(q, k, A, m) == A[m] \cup {q[j][3] : j \in {j \in DOMAIN q : j <= k /\ IsPart(q, j, m)}}

\* One that ended has all its parts by then; of the one the server works on,
\* the parts it sent.
Telling(q, work, completed, sent, A) ==
  /\ \A m \in Prompts : \A i, j \in DOMAIN q : IsEnd(q, i, m) /\ IsEnd(q, j, m) => i = j
  /\ \A m \in Prompts : \A i \in DOMAIN q : IsEnd(q, i, m) => Together(q, i, A, m) = Parts
  /\ work # None /\ ~completed =>
       /\ \A i \in DOMAIN q : ~IsEnd(q, i, work)
       /\ Together(q, Len(q), A, work) = sent

-----------------------------------------------------------------------------
(* Where work may be, whatever was lost.                                   *)

LossInv == h.lost \in BOOLEAN /\ h.asked \in Nat /\ (h.slipped => h.lost)
RespondTyped == respond \in [Owners -> {<<>>} \cup (Requests \X BOOLEAN)]

\* A process has nothing to do and to say before it is stored, and there is
\* nobody to hear it before the stream is open.
Idle(p) == /\ p.inbox = {} /\ p.work = None /\ p.answered = {} /\ p.failed = {} /\ p.open = {}
           /\ p.pipe = <<>>
PlaceInv ==
  /\ \A s \in Prompts : s # b.server => Idle(proc[s])
  /\ stream \in {"closed", "connecting"} => Server.pipe = <<>>
  /\ stream # "closed" => b.server # None
  /\ \A c \in Prompts : call[c].pc \in {"open", "claim", "claimed"} => b.server # None
  /\ Live => b.server # None /\ b.bySession # {}

\* What a server has to do is a turn whose request is under way.
Working(p, sent) ==
  /\ p.inbox # {} \/ p.work # None => p.alive
  /\ \A c \in Prompts : c \in p.inbox \/ c = p.work \/ c \in p.answered \/ c \in p.failed => c \in sent
  /\ \A c \in Prompts : c \in p.inbox \/ c = p.work => c \notin p.answered /\ c \notin p.failed
  /\ p.work \notin p.inbox
  /\ p.open # {} => p.work # None /\ ~p.completed
Sent == {c \in Prompts : run[c].pc = "sent"}
WorkInv == \A s \in Prompts : Working(proc[s], Sent)

\* Nothing is known of a message before the server works on it.
Mentions(q, m) == \E i \in DOMAIN q : IsPart(q, i, m) \/ IsEnd(q, i, m)
Unsaid(m) == call[m].pc # "returned" \/ m \in Server.inbox
FreshInv ==
  \A m \in Prompts : Unsaid(m) =>
    ~Mentions(Server.pipe, m) /\ \A t \in Prompts : object[t].assembling[m] = {}

-----------------------------------------------------------------------------
(* As long as nothing was lost.                                            *)

\* One session, until the thread is deleted; then nothing is done for it.
SessionInv ==
  /\ \A c \in Prompts : call[c].nat \in {None, rec.native}
  /\ \A c \in Prompts : call[c].pc \in {"claim", "claimed"} => call[c].nat # None
  /\ rec.live /\ ~Live => rec.native = None /\ Server.pipe = <<>> /\ Hands = {}
  /\ Live => rec.native # None
  /\ ~rec.live => Server.inbox = {} /\ Server.work = None

AskInv ==
  Live => Asking(Server.pipe, Server.open, Pending, Hands, h.asked, Server.alive)
TellInv ==
  /\ \A e \in h.settled : e[2] = Parts
  /\ Live => Telling(Server.pipe, Server.work, Server.completed, Server.sent,
                     object[b.thread].assembling)

KeptInv == ~h.lost => SessionInv /\ AskInv /\ TellInv
PlainInv == LossInv /\ RespondTyped /\ PlaceInv /\ WorkInv /\ FreshInv
TalkInv == PlainInv /\ KeptInv

-----------------------------------------------------------------------------
(* The unread events when one is said and when one is read.                *)

LEMMA RequestParts ==
  ASSUME NEW a \in Requests
  PROVE  a[1] \in Nat /\ a[2] \in Kinds /\ a = <<a[1], a[2]>>
<1>1. PICK n \in Asks, kind \in Kinds : a = <<n, kind>>
  BY DEF Requests
<1>2. a[1] = n /\ a[2] = kind /\ n \in Nat
  BY <1>1, OpenCodeAssumption DEF Asks
<1> QED BY <1>1, <1>2

LEMMA SaidParts ==
  ASSUME NEW line \in Lines
  PROVE  /\ line[1] \in {"message.part.updated", "message.updated", "asked", "replied"}
         /\ line[1] = "message.part.updated" => line[2] \in Prompts /\ line[3] \in Parts
         /\ line[1] = "message.updated" => line[2] \in Prompts
         /\ line[1] = "asked" => line[3] \in Nat /\ line[4] \in Kinds /\ <<line[3], line[4]>> \in Requests
         /\ line[1] = "replied" => line[3] \in Nat
<1>1. Asks \subseteq Nat
  BY OpenCodeAssumption DEF Asks
<1>2. CASE line \in {"message.part.updated"} \X Prompts \X Parts
  BY <1>2
<1>3. CASE line \in {"asked"} \X Prompts \X Asks \X Kinds
  BY <1>1, <1>3 DEF Requests
<1>4. CASE line \in {"replied"} \X Nobody \X Asks
  BY <1>1, <1>4
<1>5. CASE line \in {"message.updated"} \X Prompts \X {0}
  BY <1>5
<1> QED BY <1>2, <1>3, <1>4, <1>5 DEF Lines

LEMMA TailParts ==
  ASSUME NEW q \in Seq(Lines), q # <<>>
  PROVE  /\ Tail(q) \in Seq(Lines) /\ Len(Tail(q)) = Len(q) - 1 /\ Len(q) \in Nat /\ Len(q) >= 1
         /\ DOMAIN q = 1..Len(q) /\ DOMAIN Tail(q) = 1..(Len(q) - 1)
         /\ 1 \in DOMAIN q /\ Head(q) = q[1] /\ Head(q) \in Lines
         /\ \A i \in DOMAIN Tail(q) : i \in Nat /\ i + 1 \in DOMAIN q /\ Tail(q)[i] = q[i + 1]
         /\ \A j \in DOMAIN q : j # 1 => j - 1 \in DOMAIN Tail(q) /\ Tail(q)[j - 1] = q[j]
OBVIOUS

LEMMA AppendParts ==
  ASSUME NEW q \in Seq(Lines), NEW line \in Lines
  PROVE  LET r == q \o <<line>> IN
         /\ r \in Seq(Lines) /\ Len(r) = Len(q) + 1 /\ Len(q) \in Nat
         /\ DOMAIN q = 1..Len(q) /\ DOMAIN r = 1..(Len(q) + 1)
         /\ \A i \in DOMAIN q : i \in DOMAIN r /\ r[i] = q[i]
         /\ \A i \in DOMAIN r : i \in DOMAIN q \/ i = Len(q) + 1
         /\ Len(q) + 1 \in DOMAIN r /\ r[Len(q) + 1] = line
OBVIOUS

LEMMA UnreadTail ==
  ASSUME NEW q \in Seq(Lines), q # <<>>, NEW kind, NEW n
  PROVE  /\ Unread(Tail(q), kind, n) => Unread(q, kind, n)
         /\ Unread(q, kind, n) => Unread(Tail(q), kind, n) \/ (Head(q)[1] = kind /\ Head(q)[3] = n)
<1>1. Unread(Tail(q), kind, n) => Unread(q, kind, n)
  BY TailParts DEF Unread, IsLine
<1>2. ASSUME Unread(q, kind, n), ~(Head(q)[1] = kind /\ Head(q)[3] = n)
      PROVE  Unread(Tail(q), kind, n)
  <2>1. PICK j \in DOMAIN q : q[j][1] = kind /\ q[j][3] = n
    BY <1>2 DEF Unread, IsLine
  <2>2. j # 1
    BY <1>2, <2>1, TailParts
  <2>3. j - 1 \in DOMAIN Tail(q) /\ Tail(q)[j - 1] = q[j]
    BY <2>2, TailParts
  <2> QED BY <2>1, <2>3 DEF Unread, IsLine
<1> QED BY <1>1, <1>2

LEMMA UnreadAppend ==
  ASSUME NEW q \in Seq(Lines), NEW line \in Lines, NEW kind, NEW n
  PROVE  Unread(q \o <<line>>, kind, n) <=> Unread(q, kind, n) \/ (line[1] = kind /\ line[3] = n)
<1> DEFINE r == q \o <<line>>
<1>1. /\ \A i \in DOMAIN q : i \in DOMAIN r /\ r[i] = q[i]
      /\ \A i \in DOMAIN r : i \in DOMAIN q \/ i = Len(q) + 1
      /\ Len(q) + 1 \in DOMAIN r /\ r[Len(q) + 1] = line
  BY AppendParts
<1> HIDE DEF r
<1>2. Unread(r, kind, n) <=> Unread(q, kind, n) \/ (line[1] = kind /\ line[3] = n)
  BY <1>1 DEF Unread, IsLine
<1> QED BY <1>2 DEF r

-----------------------------------------------------------------------------
(* Asking, step by step.                                                   *)

\* The server asks.
LEMMA AsksNext ==
  ASSUME NEW q \in Seq(Lines), NEW O \in SUBSET Requests, NEW P \in SUBSET Requests,
         NEW H \in SUBSET Requests, NEW n \in Nat, n + 1 \in Asks, NEW m \in Prompts,
         NEW kind \in Kinds, NEW alive, Asking(q, O, P, H, n, alive), alive
  PROVE  Asking(q \o <<<<"asked", m, n + 1, kind>>>>, O \cup {<<n + 1, kind>>}, P, H, n + 1, alive)
<1> DEFINE line == <<"asked", m, n + 1, kind>>
           r == q \o <<line>>
           a == <<n + 1, kind>>
           O1 == O \cup {a}
<1>1. line \in Lines /\ line[1] = "asked" /\ line[3] = n + 1 /\ line[4] = kind /\ a[1] = n + 1 /\ a[2] = kind
  BY DEF Lines
<1>2. \A e \in O \cup P \cup H : e[1] \in Nat /\ e[1] <= n
  BY RequestParts DEF Asking, Numbered
<1>3. \A i \in DOMAIN q : q[i][1] \in {"asked", "replied"} => q[i][3] \in Nat /\ q[i][3] <= n
  <2>1. \A i \in DOMAIN q : q[i] \in Lines
    OBVIOUS
  <2> QED BY <2>1, SaidParts DEF Asking, Numbered
<1> HIDE DEF line
<1>4. /\ DOMAIN q = 1..Len(q) /\ Len(q) \in Nat
      /\ \A i \in DOMAIN q : i \in DOMAIN r /\ r[i] = q[i]
      /\ \A i \in DOMAIN r : i \in DOMAIN q \/ i = Len(q) + 1
      /\ Len(q) + 1 \in DOMAIN r /\ r[Len(q) + 1] = line
  BY <1>1, AppendParts
<1>5. \A k, x : Unread(r, k, x) <=> Unread(q, k, x) \/ (line[1] = k /\ line[3] = x)
  BY <1>1, UnreadAppend
<1> HIDE DEF r, a
<1>6. Numbered(r, O1, P, H, n + 1)
  <2>1. \A i \in DOMAIN r : r[i][1] \in {"asked", "replied"} => r[i][3] <= n + 1
    BY <1>1, <1>3, <1>4
  <2>2. \A x, e \in O1 : x[1] = e[1] => x = e
    BY <1>1, <1>2 DEF Asking, Numbered
  <2> QED BY <1>1, <1>2, <2>1, <2>2 DEF Numbered
<1>7. Placed(r, P, H)
  <2>1. \A i, j \in DOMAIN r : r[i][1] = "asked" /\ r[j][1] = "asked" /\ r[i][3] = r[j][3] => i = j
    BY <1>1, <1>3, <1>4 DEF Asking, Placed
  <2>2. \A i \in DOMAIN r : r[i][1] = "asked" => /\ \A e \in P : e[1] # r[i][3]
                                                 /\ \A e \in H : e[1] # r[i][3]
    BY <1>1, <1>2, <1>4 DEF Asking, Placed
  <2> QED BY <2>1, <2>2 DEF Asking, Placed
<1>8. Found(r, O1, P, H)
  <2> SUFFICES ASSUME NEW e \in O1
               PROVE  /\ e \in P \/ e \in H \/ Unread(r, "asked", e[1])
                      /\ \A i \in DOMAIN r : IsLine(r, "asked", i, e[1]) => r[i][4] = e[2]
                      /\ ~Unread(r, "replied", e[1])
    BY DEF Found
  <2>1. CASE e = a
    <3>1. Unread(r, "asked", e[1])
      BY <1>1, <1>5, <2>1
    <3>2. \A i \in DOMAIN r : IsLine(r, "asked", i, e[1]) => r[i][4] = e[2]
      BY <1>1, <1>3, <1>4, <2>1 DEF IsLine
    <3>3. ~Unread(q, "replied", e[1])
      BY <1>1, <1>3, <2>1 DEF Unread, IsLine
    <3> QED BY <1>1, <1>5, <3>1, <3>2, <3>3
  <2>2. CASE e \in O
    <3>1. e[1] # n + 1
      BY <1>2, <2>2
    <3>2. /\ e \in P \/ e \in H \/ Unread(q, "asked", e[1])
          /\ \A i \in DOMAIN q : IsLine(q, "asked", i, e[1]) => q[i][4] = e[2]
          /\ ~Unread(q, "replied", e[1])
      BY <2>2 DEF Asking, Found
    <3>3. \A i \in DOMAIN r : IsLine(r, "asked", i, e[1]) => r[i][4] = e[2]
      BY <1>1, <1>4, <3>1, <3>2 DEF IsLine
    <3> QED BY <1>1, <1>5, <3>1, <3>2, <3>3
  <2> QED BY <2>1, <2>2
<1>9. Waited(r, O1, P)
  <2>1. Waited(q, O, P)
    BY DEF Asking
  <2>2. \A e \in P : e \in O1 \/ Unread(r, "replied", e[1])
    BY <1>5, <2>1 DEF Waited
  <2>3. ASSUME NEW i \in DOMAIN r, r[i][1] = "asked"
        PROVE  \/ <<r[i][3], r[i][4]>> \in O1
               \/ \E j \in DOMAIN r : j > i /\ IsLine(r, "replied", j, r[i][3])
    <3>1. CASE i \in DOMAIN q
      BY <1>4, <2>1, <2>3, <3>1 DEF Waited, IsLine
    <3>2. CASE i = Len(q) + 1
      BY <1>1, <1>4, <3>2 DEF a
    <3> QED BY <1>4, <3>1, <3>2
  <2> QED BY <2>2, <2>3 DEF Waited
<1> QED BY <1>6, <1>7, <1>8, <1>9 DEF Asking, r, a, line

\* Another client answers.
LEMMA RepliesNext ==
  ASSUME NEW q \in Seq(Lines), NEW O \in SUBSET Requests, NEW P \in SUBSET Requests,
         NEW H \in SUBSET Requests, NEW n \in Nat, NEW m \in Nobody, NEW a \in O,
         NEW alive, Asking(q, O, P, H, n, alive), alive
  PROVE  Asking(q \o <<<<"replied", m, a[1]>>>>, O \ {a}, P, H, n, alive)
<1> DEFINE line == <<"replied", m, a[1]>>
           r == q \o <<line>>
           O1 == O \ {a}
<1>1. line \in Lines /\ line[1] = "replied" /\ line[3] = a[1]
  BY DEF Lines, Requests
<1>2. Numbered(q, O, P, H, n) /\ Placed(q, P, H) /\ Found(q, O, P, H) /\ Waited(q, O, P)
  BY DEF Asking
<1> HIDE DEF line
<1>3. /\ DOMAIN q = 1..Len(q) /\ Len(q) \in Nat
      /\ \A i \in DOMAIN q : i \in DOMAIN r /\ r[i] = q[i]
      /\ \A i \in DOMAIN r : i \in DOMAIN q \/ i = Len(q) + 1
      /\ Len(q) + 1 \in DOMAIN r /\ r[Len(q) + 1] = line
  BY <1>1, AppendParts
<1>4. \A k, x : Unread(r, k, x) <=> Unread(q, k, x) \/ (line[1] = k /\ line[3] = x)
  BY <1>1, UnreadAppend
<1> HIDE DEF r
<1>5. Numbered(r, O1, P, H, n)
  <2>1. \A i \in DOMAIN r : r[i][1] \in {"asked", "replied"} => r[i][3] <= n
    BY <1>1, <1>2, <1>3 DEF Numbered
  <2> QED BY <1>2, <2>1 DEF Numbered
<1>6. Placed(r, P, H)
  BY <1>1, <1>2, <1>3 DEF Placed
<1>7. Found(r, O1, P, H)
  <2> SUFFICES ASSUME NEW e \in O1
               PROVE  /\ e \in P \/ e \in H \/ Unread(r, "asked", e[1])
                      /\ \A i \in DOMAIN r : IsLine(r, "asked", i, e[1]) => r[i][4] = e[2]
                      /\ ~Unread(r, "replied", e[1])
    BY DEF Found
  <2>1. /\ e \in P \/ e \in H \/ Unread(q, "asked", e[1])
        /\ \A i \in DOMAIN q : IsLine(q, "asked", i, e[1]) => q[i][4] = e[2]
        /\ ~Unread(q, "replied", e[1])
    BY <1>2 DEF Found
  <2>2. e[1] # a[1]
    BY <1>2 DEF Numbered
  <2>3. \A i \in DOMAIN r : IsLine(r, "asked", i, e[1]) => r[i][4] = e[2]
    BY <1>1, <1>3, <2>1 DEF IsLine
  <2> QED BY <1>1, <1>4, <2>1, <2>2, <2>3
<1>8. Waited(r, O1, P)
  <2>1. \A e \in P : e \in O1 \/ Unread(r, "replied", e[1])
    BY <1>1, <1>2, <1>4 DEF Waited
  <2>2. ASSUME NEW i \in DOMAIN r, r[i][1] = "asked"
        PROVE  \/ <<r[i][3], r[i][4]>> \in O1
               \/ \E j \in DOMAIN r : j > i /\ IsLine(r, "replied", j, r[i][3])
    <3>1. i \in DOMAIN q /\ r[i] = q[i] /\ q[i][1] = "asked"
      BY <1>1, <1>3, <2>2
    <3>2. CASE <<q[i][3], q[i][4]>> = a
      <4>1. IsLine(r, "replied", Len(q) + 1, r[i][3]) /\ Len(q) + 1 > i
        BY <1>1, <1>3, <3>1, <3>2 DEF IsLine
      <4> QED BY <1>3, <4>1
    <3>3. CASE <<q[i][3], q[i][4]>> # a
      BY <1>2, <1>3, <3>1, <3>3 DEF Waited, IsLine
    <3> QED BY <3>2, <3>3
  <2> QED BY <2>1, <2>2 DEF Waited
<1> QED BY <1>5, <1>6, <1>7, <1>8 DEF Asking, r, line

\* The server says something else.
LEMMA AskingAppend ==
  ASSUME NEW q \in Seq(Lines), NEW O, NEW P, NEW H, NEW n, NEW alive, Asking(q, O, P, H, n, alive),
         NEW line \in Lines, line[1] \notin {"asked", "replied"}
  PROVE  Asking(q \o <<line>>, O, P, H, n, alive)
<1> DEFINE r == q \o <<line>>
<1>1. /\ \A i \in DOMAIN q : i \in DOMAIN r /\ r[i] = q[i]
      /\ \A i \in DOMAIN r : i \in DOMAIN q \/ (i = Len(q) + 1 /\ r[i] = line)
  BY AppendParts
<1>2. \A x : \A k \in {"asked", "replied"} : Unread(r, k, x) <=> Unread(q, k, x)
  BY UnreadAppend
<1> HIDE DEF r
<1>3. Numbered(r, O, P, H, n)
  BY <1>1 DEF Asking, Numbered
<1>4. Placed(r, P, H)
  BY <1>1 DEF Asking, Placed
<1>5. Found(r, O, P, H)
  BY <1>1, <1>2 DEF Asking, Found, IsLine
<1>6. ASSUME alive PROVE Waited(r, O, P)
  <2>1. Waited(q, O, P)
    BY <1>6 DEF Asking
  <2> QED BY <1>1, <1>2, <2>1 DEF Waited, IsLine
<1> QED BY <1>3, <1>4, <1>5, <1>6 DEF Asking, r

\* Something else is read.
LEMMA AskingTail ==
  ASSUME NEW q \in Seq(Lines), q # <<>>, NEW O, NEW P, NEW H, NEW n, NEW alive,
         Asking(q, O, P, H, n, alive), Head(q)[1] \notin {"asked", "replied"}
  PROVE  Asking(Tail(q), O, P, H, n, alive)
<1> DEFINE r == Tail(q)
<1>1. /\ \A i \in DOMAIN r : i \in Nat /\ i + 1 \in DOMAIN q /\ r[i] = q[i + 1]
      /\ \A j \in DOMAIN q : j \in Nat /\ (j # 1 => j - 1 \in DOMAIN r /\ r[j - 1] = q[j])
      /\ q[1][1] \notin {"asked", "replied"}
  BY TailParts
<1>2. \A x : \A k \in {"asked", "replied"} : Unread(r, k, x) <=> Unread(q, k, x)
  BY UnreadTail
<1> HIDE DEF r
<1>3. Numbered(r, O, P, H, n)
  BY <1>1 DEF Asking, Numbered
<1>4. Placed(r, P, H)
  BY <1>1 DEF Asking, Placed
<1>5. Found(r, O, P, H)
  BY <1>1, <1>2 DEF Asking, Found, IsLine
<1>6. ASSUME alive PROVE Waited(r, O, P)
  <2>1. Waited(q, O, P)
    BY <1>6 DEF Asking
  <2>2. ASSUME NEW i \in DOMAIN r, r[i][1] = "asked"
        PROVE  \/ <<r[i][3], r[i][4]>> \in O
               \/ \E j \in DOMAIN r : j > i /\ IsLine(r, "replied", j, r[i][3])
    <3>1. i \in Nat /\ i + 1 \in DOMAIN q /\ r[i] = q[i + 1]
      BY <1>1
    <3>2. \/ <<r[i][3], r[i][4]>> \in O
          \/ \E j \in DOMAIN q : j > i + 1 /\ IsLine(q, "replied", j, r[i][3])
      BY <2>1, <2>2, <3>1 DEF Waited
    <3>3. ASSUME NEW j \in DOMAIN q, j > i + 1, IsLine(q, "replied", j, r[i][3])
          PROVE  \E k \in DOMAIN r : k > i /\ IsLine(r, "replied", k, r[i][3])
      <4>1. j - 1 \in DOMAIN r /\ j - 1 > i /\ IsLine(r, "replied", j - 1, r[i][3])
        BY <1>1, <3>1, <3>3 DEF IsLine
      <4> QED BY <4>1
    <3> QED BY <3>2, <3>3
  <2> QED BY <1>2, <2>1, <2>2 DEF Waited
<1> QED BY <1>3, <1>4, <1>5, <1>6 DEF Asking, r

\* A request is put on offer.
LEMMA OffersNext ==
  ASSUME NEW q \in Seq(Lines), q # <<>>, NEW O \in SUBSET Requests, NEW P \in SUBSET Requests,
         NEW H \in SUBSET Requests, NEW n \in Nat, NEW alive,
         Asking(q, O, P, H, n, alive), Head(q)[1] = "asked"
  PROVE  Asking(Tail(q), O, P \cup {<<Head(q)[3], Head(q)[4]>>}, H, n, alive)
<1> DEFINE r == Tail(q)
           a == <<Head(q)[3], Head(q)[4]>>
           P1 == P \cup {a}
<1>1. /\ \A i \in DOMAIN r : i \in Nat /\ i >= 1 /\ i + 1 \in DOMAIN q /\ r[i] = q[i + 1]
      /\ \A j \in DOMAIN q : j \in Nat /\ j >= 1 /\ (j # 1 => j - 1 \in DOMAIN r /\ r[j - 1] = q[j])
      /\ 1 \in DOMAIN q
  BY TailParts
<1>9. /\ q[1][1] = "asked" /\ a = <<q[1][3], q[1][4]>> /\ a[1] = q[1][3] /\ a[2] = q[1][4]
      /\ Head(q) = q[1]
  BY TailParts
<1>2. \A x : Unread(r, "replied", x) <=> Unread(q, "replied", x)
  BY UnreadTail
<1>3. \A x : Unread(q, "asked", x) => Unread(r, "asked", x) \/ x = a[1]
  BY <1>9, UnreadTail
<1>4. Numbered(q, O, P, H, n) /\ Placed(q, P, H) /\ Found(q, O, P, H)
  BY DEF Asking
<1> HIDE DEF r, a
<1>5. Numbered(r, O, P1, H, n)
  BY <1>1, <1>9, <1>4 DEF Numbered
<1>6. Placed(r, P1, H)
  <2>1. \A i, j \in DOMAIN r : r[i][1] = "asked" /\ r[j][1] = "asked" /\ r[i][3] = r[j][3] => i = j
    BY <1>1, <1>4 DEF Placed
  <2>2. ASSUME NEW i \in DOMAIN r, r[i][1] = "asked" PROVE r[i][3] # a[1]
    <3>1. i + 1 \in DOMAIN q /\ r[i] = q[i + 1] /\ i + 1 # 1 /\ i \in Nat
      BY <1>1
    <3> QED BY <1>1, <1>9, <1>4, <2>2, <3>1 DEF Placed
  <2>3. a \notin H
    BY <1>1, <1>9, <1>4 DEF Placed
  <2> QED BY <1>1, <1>9, <1>4, <2>1, <2>2, <2>3 DEF Placed
<1>7. Found(r, O, P1, H)
  <2> SUFFICES ASSUME NEW e \in O
               PROVE  /\ e \in P1 \/ e \in H \/ Unread(r, "asked", e[1])
                      /\ \A i \in DOMAIN r : IsLine(r, "asked", i, e[1]) => r[i][4] = e[2]
                      /\ ~Unread(r, "replied", e[1])
    BY DEF Found
  <2>1. /\ e \in P \/ e \in H \/ Unread(q, "asked", e[1])
        /\ \A i \in DOMAIN q : IsLine(q, "asked", i, e[1]) => q[i][4] = e[2]
        /\ ~Unread(q, "replied", e[1])
    BY <1>4 DEF Found
  <2>2. e[1] = a[1] => e = a
    BY <1>1, <1>9, <2>1, RequestParts DEF IsLine
  <2>3. ASSUME NEW i \in DOMAIN r, IsLine(r, "asked", i, e[1]) PROVE r[i][4] = e[2]
    <3>1. i + 1 \in DOMAIN q /\ r[i] = q[i + 1]
      BY <1>1
    <3> QED BY <2>1, <2>3, <3>1 DEF IsLine
  <2> QED BY <1>2, <1>3, <2>1, <2>2, <2>3
<1>8. ASSUME alive PROVE Waited(r, O, P1)
  <2>1. Waited(q, O, P)
    BY <1>8 DEF Asking
  <2>2. ASSUME NEW i \in DOMAIN q, NEW j \in DOMAIN q, j > i, NEW x, IsLine(q, "replied", j, x)
        PROVE  j - 1 \in DOMAIN r /\ j - 1 > i - 1 /\ IsLine(r, "replied", j - 1, x)
    <3>1. i \in Nat /\ i >= 1 /\ j \in Nat /\ j # 1
      BY <1>1, <2>2
    <3>2. j - 1 \in DOMAIN r /\ r[j - 1] = q[j]
      BY <1>1, <3>1
    <3>3. IsLine(r, "replied", j - 1, x)
      BY <2>2, <3>2 DEF IsLine
    <3>4. j - 1 > i - 1
      BY <2>2, <3>1
    <3> QED BY <3>2, <3>3, <3>4
  <2>3. ASSUME NEW e \in P1 PROVE e \in O \/ Unread(r, "replied", e[1])
    <3>1. CASE e = a
      <4>1. a \in O \/ \E j \in DOMAIN q : j > 1 /\ IsLine(q, "replied", j, a[1])
        BY <1>1, <1>9, <2>1 DEF Waited
      <4> QED BY <1>1, <2>2, <3>1, <4>1 DEF Unread
    <3>2. CASE e \in P
      BY <1>2, <2>1, <3>2 DEF Waited
    <3> QED BY <3>1, <3>2
  <2>4. ASSUME NEW i \in DOMAIN r, r[i][1] = "asked"
        PROVE  \/ <<r[i][3], r[i][4]>> \in O
               \/ \E j \in DOMAIN r : j > i /\ IsLine(r, "replied", j, r[i][3])
    <3>1. i \in Nat /\ i + 1 \in DOMAIN q /\ r[i] = q[i + 1]
      BY <1>1
    <3>2. \/ <<r[i][3], r[i][4]>> \in O
          \/ \E j \in DOMAIN q : j > i + 1 /\ IsLine(q, "replied", j, r[i][3])
      BY <2>1, <2>4, <3>1 DEF Waited
    <3>3. ASSUME NEW j \in DOMAIN q, j > i + 1, IsLine(q, "replied", j, r[i][3])
          PROVE  j - 1 \in DOMAIN r /\ j - 1 > i /\ IsLine(r, "replied", j - 1, r[i][3])
      BY <1>1, <3>1, <3>3, <2>2
    <3> QED BY <3>2, <3>3
  <2> QED BY <2>3, <2>4 DEF Waited
<1> QED BY <1>5, <1>6, <1>7, <1>8 DEF Asking, r, a

\* What another client answered is taken off.
LEMMA WithdrawsNext ==
  ASSUME NEW q \in Seq(Lines), q # <<>>, NEW O \in SUBSET Requests, NEW P \in SUBSET Requests,
         NEW H \in SUBSET Requests, NEW n \in Nat, NEW alive,
         Asking(q, O, P, H, n, alive), Head(q)[1] = "replied", NEW P1,
         P1 = P \ {a \in P : a[1] = Head(q)[3]}
  PROVE  Asking(Tail(q), O, P1, H, n, alive)
<1> DEFINE r == Tail(q)
           x == Head(q)[3]
<1>1. /\ \A i \in DOMAIN r : i \in Nat /\ i + 1 \in DOMAIN q /\ r[i] = q[i + 1]
      /\ \A j \in DOMAIN q : j \in Nat /\ (j # 1 => j - 1 \in DOMAIN r /\ r[j - 1] = q[j])
      /\ q[1][1] = "replied" /\ 1 \in DOMAIN q /\ x = q[1][3] /\ Head(q) = q[1]
  BY TailParts
<1>2. \A y : Unread(r, "asked", y) <=> Unread(q, "asked", y)
  BY UnreadTail
<1>3. \A y : Unread(q, "replied", y) => Unread(r, "replied", y) \/ y = x
  BY UnreadTail
<1>4. \A y : Unread(r, "replied", y) => Unread(q, "replied", y)
  BY UnreadTail
<1>5. Numbered(q, O, P, H, n) /\ Placed(q, P, H) /\ Found(q, O, P, H)
  BY DEF Asking
<1>6. P1 \subseteq P /\ \A a \in P : a \in P1 \/ a[1] = x
  OBVIOUS
<1>7. \A a \in P1 : a[1] # x
  OBVIOUS
<1> HIDE DEF r, x
<1>8. Numbered(r, O, P1, H, n)
  BY <1>1, <1>5, <1>6 DEF Numbered
<1>9. Placed(r, P1, H)
  <2>1. \A i, j \in DOMAIN r : r[i][1] = "asked" /\ r[j][1] = "asked" /\ r[i][3] = r[j][3] => i = j
    BY <1>1, <1>5 DEF Placed
  <2> QED BY <1>1, <1>5, <1>6, <2>1 DEF Placed
<1>10. Found(r, O, P1, H)
  <2> SUFFICES ASSUME NEW e \in O
               PROVE  /\ e \in P1 \/ e \in H \/ Unread(r, "asked", e[1])
                      /\ \A i \in DOMAIN r : IsLine(r, "asked", i, e[1]) => r[i][4] = e[2]
                      /\ ~Unread(r, "replied", e[1])
    BY DEF Found
  <2>1. /\ e \in P \/ e \in H \/ Unread(q, "asked", e[1])
        /\ \A i \in DOMAIN q : IsLine(q, "asked", i, e[1]) => q[i][4] = e[2]
        /\ ~Unread(q, "replied", e[1])
    BY <1>5 DEF Found
  <2>2. e[1] # x
    BY <1>1, <2>1 DEF Unread, IsLine
  <2>3. ASSUME NEW i \in DOMAIN r, IsLine(r, "asked", i, e[1]) PROVE r[i][4] = e[2]
    <3>1. i + 1 \in DOMAIN q /\ r[i] = q[i + 1]
      BY <1>1
    <3> QED BY <2>1, <2>3, <3>1 DEF IsLine
  <2> QED BY <1>2, <1>4, <1>6, <2>1, <2>2, <2>3
<1>11. ASSUME alive PROVE Waited(r, O, P1)
  <2>1. Waited(q, O, P)
    BY <1>11 DEF Asking
  <2>2. \A e \in P1 : e \in O \/ Unread(r, "replied", e[1])
    BY <1>3, <1>6, <1>7, <2>1 DEF Waited
  <2>3. ASSUME NEW i \in DOMAIN r, r[i][1] = "asked"
        PROVE  \/ <<r[i][3], r[i][4]>> \in O
               \/ \E j \in DOMAIN r : j > i /\ IsLine(r, "replied", j, r[i][3])
    <3>1. i \in Nat /\ i + 1 \in DOMAIN q /\ r[i] = q[i + 1]
      BY <1>1
    <3>2. \/ <<r[i][3], r[i][4]>> \in O
          \/ \E j \in DOMAIN q : j > i + 1 /\ IsLine(q, "replied", j, r[i][3])
      BY <2>1, <2>3, <3>1 DEF Waited
    <3>3. ASSUME NEW j \in DOMAIN q, j > i + 1, IsLine(q, "replied", j, r[i][3])
          PROVE  j - 1 \in DOMAIN r /\ j - 1 > i /\ IsLine(r, "replied", j - 1, r[i][3])
      BY <1>1, <3>1, <3>3 DEF IsLine
    <3> QED BY <3>2, <3>3
  <2> QED BY <2>2, <2>3 DEF Waited
<1> QED BY <1>8, <1>9, <1>10, <1>11 DEF Asking, r

\* An owner takes a request.
LEMMA TakesNext ==
  ASSUME NEW q, NEW O, NEW P, NEW H, NEW n, NEW alive, NEW a \in P, Asking(q, O, P, H, n, alive)
  PROVE  Asking(q, O, P \ {a}, H \cup {a}, n, alive)
<1>1. Numbered(q, O, P, H, n) /\ Placed(q, P, H) /\ Found(q, O, P, H) /\ (alive => Waited(q, O, P))
  BY DEF Asking
<1>2. Numbered(q, O, P \ {a}, H \cup {a}, n)
  BY <1>1 DEF Numbered
<1>3. Placed(q, P \ {a}, H \cup {a})
  BY <1>1 DEF Placed
<1>4. Found(q, O, P \ {a}, H \cup {a})
  BY <1>1 DEF Found
<1>5. alive => Waited(q, O, P \ {a})
  BY <1>1 DEF Waited
<1> QED BY <1>2, <1>3, <1>4, <1>5 DEF Asking

\* The answer of an owner has arrived.
LEMMA AnswersNext ==
  ASSUME NEW q, NEW O \in SUBSET Requests, NEW P, NEW H \in SUBSET Requests, NEW n, NEW alive,
         NEW a \in H, NEW H1, H1 \subseteq H, \A e \in H : e \in H1 \/ e = a,
         Asking(q, O, P, H, n, alive)
  PROVE  Asking(q, O \ {a}, P, H1, n, alive)
<1>1. Numbered(q, O, P, H, n) /\ Placed(q, P, H) /\ Found(q, O, P, H) /\ (alive => Waited(q, O, P))
  BY DEF Asking
<1>2. Numbered(q, O \ {a}, P, H1, n)
  BY <1>1 DEF Numbered
<1>3. Placed(q, P, H1)
  BY <1>1 DEF Placed
<1>4. Found(q, O \ {a}, P, H1)
  BY <1>1 DEF Found
<1>5. ASSUME alive PROVE Waited(q, O \ {a}, P)
  <2>1. Waited(q, O, P)
    BY <1>1, <1>5
  <2>2. \A e \in P : e \in O \ {a} \/ Unread(q, "replied", e[1])
    BY <1>1, <2>1 DEF Waited, Placed
  <2>3. \A i \in DOMAIN q : q[i][1] = "asked" => <<q[i][3], q[i][4]>> # a
    BY <1>1 DEF Placed
  <2> QED BY <2>1, <2>2, <2>3 DEF Waited
<1> QED BY <1>2, <1>3, <1>4, <1>5 DEF Asking

\* The server is gone, with what it waited on.
LEMMA DiesNext ==
  ASSUME NEW q, NEW O, NEW P, NEW H, NEW n, NEW alive, Asking(q, O, P, H, n, alive)
  PROVE  Asking(q, {}, P, H, n, FALSE)
BY DEF Asking, Numbered, Placed, Found

-----------------------------------------------------------------------------
(* Messages, step by step.                                                 *)

LEMMA TogetherBefore ==
  ASSUME NEW q \in Seq(Lines), NEW line \in Lines, NEW A, NEW m, NEW k \in DOMAIN q
  PROVE  Together(q \o <<line>>, k, A, m) = Together(q, k, A, m)
<1> DEFINE r == q \o <<line>>
           N == Len(q)
<1>1. /\ k \in 1..N /\ N \in Nat /\ DOMAIN q = 1..N /\ DOMAIN r = 1..(N + 1)
      /\ \A i \in 1..N : r[i] = q[i]
  BY AppendParts
<1> HIDE DEF r, N
<1>2. {j \in DOMAIN r : j <= k /\ IsPart(r, j, m)} = {j \in DOMAIN q : j <= k /\ IsPart(q, j, m)}
  BY <1>1 DEF IsPart
<1>3. {q[j][3] : j \in {j \in DOMAIN q : j <= k /\ IsPart(q, j, m)}}
        = {r[j][3] : j \in {j \in DOMAIN q : j <= k /\ IsPart(q, j, m)}}
  BY <1>1
<1>4. Together(r, k, A, m) = Together(q, k, A, m)
  BY <1>2, <1>3 DEF Together
<1> QED BY <1>4 DEF r

LEMMA TogetherPart ==
  ASSUME NEW q \in Seq(Lines), NEW line \in Lines, NEW A, NEW m,
         line[1] = "message.part.updated", line[2] = m
  PROVE  Together(q \o <<line>>, Len(q) + 1, A, m) = Together(q, Len(q), A, m) \cup {line[3]}
<1> DEFINE r == q \o <<line>>
           N == Len(q)
           Q == {j \in DOMAIN q : j <= N /\ IsPart(q, j, m)}
<1>1. /\ N \in Nat /\ DOMAIN q = 1..N /\ DOMAIN r = 1..(N + 1)
      /\ \A i \in 1..N : r[i] = q[i]
      /\ r[N + 1] = line
  BY AppendParts
<1> HIDE DEF r, N
<1>2. {j \in DOMAIN r : j <= N + 1 /\ IsPart(r, j, m)} = Q \cup {N + 1}
  BY <1>1 DEF IsPart
<1>3. {r[j][3] : j \in Q \cup {N + 1}} = {q[j][3] : j \in Q} \cup {line[3]}
  BY <1>1
<1> HIDE DEF Q
<1>4. Together(r, N + 1, A, m) = A[m] \cup {q[j][3] : j \in Q} \cup {line[3]}
  BY <1>2, <1>3 DEF Together
<1>5. Together(q, N, A, m) = A[m] \cup {q[j][3] : j \in Q}
  BY DEF Together, Q
<1> QED BY <1>4, <1>5 DEF r, N

LEMMA TogetherOther ==
  ASSUME NEW q \in Seq(Lines), NEW line \in Lines, NEW A, NEW m, line[1] # "message.part.updated"
  PROVE  Together(q \o <<line>>, Len(q) + 1, A, m) = Together(q, Len(q), A, m)
<1> DEFINE r == q \o <<line>>
           N == Len(q)
           Q == {j \in DOMAIN q : j <= N /\ IsPart(q, j, m)}
<1>1. /\ N \in Nat /\ DOMAIN q = 1..N /\ DOMAIN r = 1..(N + 1)
      /\ \A i \in 1..N : r[i] = q[i]
      /\ r[N + 1] = line
  BY AppendParts
<1> HIDE DEF r, N
<1>2. {j \in DOMAIN r : j <= N + 1 /\ IsPart(r, j, m)} = Q
  BY <1>1 DEF IsPart
<1>3. {r[j][3] : j \in Q} = {q[j][3] : j \in Q}
  BY <1>1
<1> HIDE DEF Q
<1>4. Together(r, N + 1, A, m) = A[m] \cup {q[j][3] : j \in Q}
  BY <1>2, <1>3 DEF Together
<1>5. Together(q, N, A, m) = A[m] \cup {q[j][3] : j \in Q}
  BY DEF Together, Q
<1> QED BY <1>4, <1>5 DEF r, N

\* The first event is read: a part of m, or nothing of it.
Reads(q, m, A, A1) ==
  IF Head(q)[1] = "message.part.updated" /\ Head(q)[2] = m
    THEN A1[m] = A[m] \cup {Head(q)[3]} ELSE A1[m] = A[m]

LEMMA TogetherTail ==
  ASSUME NEW q \in Seq(Lines), q # <<>>, NEW A, NEW A1, NEW m, NEW k \in Nat, k <= Len(q) - 1,
         Reads(q, m, A, A1)
  PROVE  Together(Tail(q), k, A1, m) = Together(q, k + 1, A, m)
<1> DEFINE r == Tail(q)
           R == {r[j][3] : j \in {j \in DOMAIN r : j <= k /\ IsPart(r, j, m)}}
           Q == {q[j][3] : j \in {j \in DOMAIN q : j <= k + 1 /\ IsPart(q, j, m)}}
           first == IF Head(q)[1] = "message.part.updated" /\ Head(q)[2] = m THEN {Head(q)[3]} ELSE {}
<1>1. /\ \A i \in DOMAIN r : i \in Nat /\ i >= 1 /\ i + 1 \in DOMAIN q /\ r[i] = q[i + 1]
      /\ \A j \in DOMAIN q : j \in Nat /\ j >= 1 /\ (j # 1 => j - 1 \in DOMAIN r /\ r[j - 1] = q[j])
      /\ 1 \in DOMAIN q /\ Head(q) = q[1]
  BY TailParts
<1> HIDE DEF r
<1>2. R \subseteq Q
  <2> SUFFICES ASSUME NEW j \in DOMAIN r, j <= k, IsPart(r, j, m) PROVE r[j][3] \in Q
    OBVIOUS
  <2>1. j + 1 \in DOMAIN q /\ j + 1 <= k + 1 /\ r[j] = q[j + 1]
    BY <1>1
  <2> QED BY <2>1 DEF IsPart
<1>3. first \subseteq Q
  <2>1. 1 <= k + 1
    OBVIOUS
  <2> QED BY <1>1, <2>1 DEF IsPart
<1>4. Q \subseteq R \cup first
  <2> SUFFICES ASSUME NEW j \in DOMAIN q, j <= k + 1, IsPart(q, j, m) PROVE q[j][3] \in R \cup first
    OBVIOUS
  <2>1. CASE j = 1
    BY <1>1, <2>1 DEF IsPart
  <2>2. CASE j # 1
    <3>1. j - 1 \in DOMAIN r /\ j - 1 <= k /\ r[j - 1] = q[j]
      BY <1>1, <2>2
    <3> QED BY <3>1 DEF IsPart
  <2> QED BY <2>1, <2>2
<1>5. A1[m] = A[m] \cup first
  BY DEF Reads
<1> HIDE DEF R, Q, first
<1>6. A1[m] \cup R = A[m] \cup Q
  BY <1>2, <1>3, <1>4, <1>5
<1> QED BY <1>6 DEF Together, R, Q, r

\* A part is said.
LEMMA PartNext ==
  ASSUME NEW q \in Seq(Lines), NEW m \in Prompts, NEW i \in Parts, NEW sent, NEW A,
         Telling(q, m, FALSE, sent, A)
  PROVE  Telling(q \o <<<<"message.part.updated", m, i>>>>, m, FALSE, sent \cup {i}, A)
<1> DEFINE line == <<"message.part.updated", m, i>>
           r == q \o <<line>>
<1>1. line \in Lines /\ line[1] = "message.part.updated" /\ line[2] = m /\ line[3] = i
  BY DEF Lines
<1> HIDE DEF line
<1>2. /\ \A j \in DOMAIN q : j \in DOMAIN r /\ r[j] = q[j]
      /\ \A j \in DOMAIN r : j \in DOMAIN q \/ (j = Len(q) + 1 /\ r[j] = line)
      /\ Len(r) = Len(q) + 1
  BY <1>1, AppendParts
<1>3. \A n : \A k \in DOMAIN q : Together(r, k, A, n) = Together(q, k, A, n)
  BY <1>1, TogetherBefore
<1>4. Together(r, Len(q) + 1, A, m) = Together(q, Len(q), A, m) \cup {i}
  BY <1>1, TogetherPart
<1> HIDE DEF r
<1>5. \A n \in Prompts : \A j \in DOMAIN r : IsEnd(r, j, n) => j \in DOMAIN q /\ IsEnd(q, j, n)
  BY <1>1, <1>2 DEF IsEnd
<1>6. m # None
  BY NoneIsNoPrompt
<1> QED BY <1>2, <1>3, <1>4, <1>5, <1>6 DEF Telling, r, line

\* The message is complete.
LEMMA EndNext ==
  ASSUME NEW q \in Seq(Lines), NEW m \in Prompts, NEW A, NEW sent, Telling(q, m, FALSE, Parts, A)
  PROVE  Telling(q \o <<<<"message.updated", m, 0>>>>, m, TRUE, sent, A)
<1> DEFINE line == <<"message.updated", m, 0>>
           r == q \o <<line>>
<1>1. line \in Lines /\ line[1] = "message.updated" /\ line[2] = m
  BY DEF Lines
<1> HIDE DEF line
<1>2. /\ \A j \in DOMAIN q : j \in DOMAIN r /\ r[j] = q[j]
      /\ \A j \in DOMAIN r : j \in DOMAIN q \/ j = Len(q) + 1
      /\ r[Len(q) + 1] = line
  BY <1>1, AppendParts
<1>3. \A n : \A k \in DOMAIN q : Together(r, k, A, n) = Together(q, k, A, n)
  BY <1>1, TogetherBefore
<1>4. Together(r, Len(q) + 1, A, m) = Together(q, Len(q), A, m)
  BY <1>1, TogetherOther
<1> HIDE DEF r
<1>5. \A n \in Prompts : \A j \in DOMAIN r : IsEnd(r, j, n) =>
        \/ j \in DOMAIN q /\ IsEnd(q, j, n)
        \/ j = Len(q) + 1 /\ n = m
  BY <1>1, <1>2 DEF IsEnd
<1>6. m # None /\ \A j \in DOMAIN q : ~IsEnd(q, j, m)
  BY NoneIsNoPrompt DEF Telling
<1>7. Together(q, Len(q), A, m) = Parts
  BY NoneIsNoPrompt DEF Telling
<1>8. \A n \in Prompts : \A j, k \in DOMAIN r : IsEnd(r, j, n) /\ IsEnd(r, k, n) => j = k
  BY <1>5, <1>6 DEF Telling
<1>9. \A n \in Prompts : \A j \in DOMAIN r : IsEnd(r, j, n) => Together(r, j, A, n) = Parts
  BY <1>3, <1>4, <1>5, <1>7 DEF Telling
<1> QED BY <1>8, <1>9 DEF Telling, r, line

\* Something else is said.
LEMMA TellingAppend ==
  ASSUME NEW q \in Seq(Lines), NEW work, NEW completed, NEW sent, NEW A,
         Telling(q, work, completed, sent, A), NEW line \in Lines, line[1] \in {"asked", "replied"}
  PROVE  Telling(q \o <<line>>, work, completed, sent, A)
<1> DEFINE r == q \o <<line>>
<1>2. /\ \A j \in DOMAIN q : j \in DOMAIN r /\ r[j] = q[j]
      /\ \A j \in DOMAIN r : j \in DOMAIN q \/ (j = Len(q) + 1 /\ r[j] = line)
      /\ Len(r) = Len(q) + 1
  BY AppendParts
<1>3. \A n : \A k \in DOMAIN q : Together(r, k, A, n) = Together(q, k, A, n)
  BY TogetherBefore
<1>4. Together(r, Len(q) + 1, A, work) = Together(q, Len(q), A, work)
  BY TogetherOther
<1> HIDE DEF r
<1>5. \A n : \A j \in DOMAIN r : IsEnd(r, j, n) => j \in DOMAIN q /\ IsEnd(q, j, n)
  BY <1>2 DEF IsEnd
<1>6. Telling(r, work, completed, sent, A)
  BY <1>2, <1>3, <1>4, <1>5 DEF Telling
<1> QED BY <1>6 DEF r

\* An event is read: a part, or nothing of a message.
LEMMA TellingTail ==
  ASSUME NEW q \in Seq(Lines), q # <<>>, NEW work \in Nobody, NEW completed, NEW sent, NEW A, NEW A1,
         Telling(q, work, completed, sent, A), Head(q)[1] # "message.updated",
         \A m \in Prompts : Reads(q, m, A, A1)
  PROVE  Telling(Tail(q), work, completed, sent, A1)
<1> DEFINE r == Tail(q)
<1>1. /\ \A i \in DOMAIN r : i \in Nat /\ i <= Len(q) - 1 /\ i + 1 \in DOMAIN q /\ r[i] = q[i + 1]
      /\ Len(r) = Len(q) - 1 /\ Len(q) \in Nat /\ Len(q) >= 1
  BY TailParts
<1>2. \A m \in Prompts : \A k \in Nat : k <= Len(q) - 1 =>
        Together(r, k, A1, m) = Together(q, k + 1, A, m)
  BY TogetherTail
<1>3. \A m \in Prompts : Together(r, Len(r), A1, m) = Together(q, Len(q), A, m)
  BY <1>1, <1>2
<1> HIDE DEF r
<1>4. \A m : \A i \in DOMAIN r : IsEnd(r, i, m) => IsEnd(q, i + 1, m) /\ i + 1 \in DOMAIN q
  BY <1>1 DEF IsEnd
<1>5. \A m \in Prompts : \A i, j \in DOMAIN r : IsEnd(r, i, m) /\ IsEnd(r, j, m) => i = j
  <2> SUFFICES ASSUME NEW m \in Prompts, NEW i \in DOMAIN r, NEW j \in DOMAIN r,
                      IsEnd(r, i, m), IsEnd(r, j, m)
               PROVE  i = j
    OBVIOUS
  <2>1. i + 1 = j + 1
    BY <1>4 DEF Telling
  <2> QED BY <1>1, <2>1
<1>6. \A m \in Prompts : \A i \in DOMAIN r : IsEnd(r, i, m) => Together(r, i, A1, m) = Parts
  BY <1>1, <1>2, <1>4 DEF Telling
<1>7. work # None => work \in Prompts
  BY DEF Nobody
<1> QED BY <1>3, <1>4, <1>5, <1>6, <1>7 DEF Telling, r

\* A message is settled: it has all its parts.
LEMMA SettlesNext ==
  ASSUME NEW q \in Seq(Lines), q # <<>>, NEW work \in Nobody, NEW completed, NEW sent,
         NEW A \in [Prompts -> SUBSET Parts], NEW m \in Prompts,
         Telling(q, work, completed, sent, A), IsEnd(q, 1, m)
  PROVE  /\ A[m] = Parts
         /\ Telling(Tail(q), work, completed, sent, [A EXCEPT ![m] = {}])
<1> DEFINE r == Tail(q)
           A1 == [A EXCEPT ![m] = {}]
<1>1. /\ \A i \in DOMAIN r : i \in Nat /\ i >= 1 /\ i <= Len(q) - 1 /\ i + 1 \in DOMAIN q /\ r[i] = q[i + 1]
      /\ Len(r) = Len(q) - 1 /\ Len(q) \in Nat /\ Len(q) >= 1 /\ 1 \in DOMAIN q /\ Head(q) = q[1]
      /\ DOMAIN q \subseteq Nat /\ \A i \in DOMAIN q : i >= 1
  BY TailParts
<1>2. A[m] = Parts
  <2>1. Together(q, 1, A, m) = Parts
    BY <1>1 DEF Telling
  <2>2. {j \in DOMAIN q : j <= 1 /\ IsPart(q, j, m)} = {}
    BY <1>1 DEF IsPart, IsEnd
  <2> QED BY <2>1, <2>2 DEF Together
<1>4. Head(q)[1] # "message.part.updated"
  BY <1>1 DEF IsEnd
<1>3. \A n \in Prompts \ {m} : Reads(q, n, A, A1)
  BY <1>4 DEF Reads
<1> HIDE DEF A1
<1>5. \A n \in Prompts \ {m} : \A k \in Nat : k <= Len(q) - 1 =>
        Together(r, k, A1, n) = Together(q, k + 1, A, n)
  BY <1>3, TogetherTail
<1>6. \A n \in Prompts \ {m} : Together(r, Len(r), A1, n) = Together(q, Len(q), A, n)
  BY <1>1, <1>5
<1> HIDE DEF r
<1>7. \A n : \A i \in DOMAIN r : IsEnd(r, i, n) => IsEnd(q, i + 1, n) /\ i + 1 \in DOMAIN q /\ i + 1 # 1
  BY <1>1 DEF IsEnd
<1>8. \A i \in DOMAIN r : ~IsEnd(r, i, m)
  BY <1>1, <1>7 DEF Telling
<1>9. \A n \in Prompts : \A i, j \in DOMAIN r : IsEnd(r, i, n) /\ IsEnd(r, j, n) => i = j
  <2> SUFFICES ASSUME NEW n \in Prompts, NEW i \in DOMAIN r, NEW j \in DOMAIN r,
                      IsEnd(r, i, n), IsEnd(r, j, n)
               PROVE  i = j
    OBVIOUS
  <2>1. i + 1 = j + 1
    BY <1>7 DEF Telling
  <2> QED BY <1>1, <2>1
<1>10. \A n \in Prompts : \A i \in DOMAIN r : IsEnd(r, i, n) => Together(r, i, A1, n) = Parts
  BY <1>1, <1>5, <1>7, <1>8 DEF Telling
<1>11. work # None /\ ~completed => work \in Prompts \ {m}
  BY <1>1 DEF Telling, Nobody
<1>12. Telling(r, work, completed, sent, A1)
  BY <1>6, <1>7, <1>9, <1>10, <1>11 DEF Telling
<1> QED BY <1>2, <1>12 DEF r, A1

\* The server takes up a message that nothing is known of; or has none.
LEMMA StartsNext ==
  ASSUME NEW q, NEW work, NEW completed, NEW sent, NEW A, NEW m \in Prompts,
         Telling(q, work, completed, sent, A), A[m] = {}, ~Mentions(q, m)
  PROVE  Telling(q, m, FALSE, {}, A)
<1>1. \A i \in DOMAIN q : ~IsPart(q, i, m) /\ ~IsEnd(q, i, m)
  BY DEF Mentions
<1>2. Together(q, Len(q), A, m) = {}
  BY <1>1 DEF Together
<1> QED BY <1>1, <1>2 DEF Telling

LEMMA StopsNext ==
  ASSUME NEW q, NEW work, NEW completed, NEW sent, NEW A, Telling(q, work, completed, sent, A),
         NEW completed1, NEW sent1
  PROVE  Telling(q, None, completed1, sent1, A)
BY DEF Telling

\* Nothing is said yet.
LEMMA NothingSaid ==
  ASSUME NEW n, NEW alive, NEW completed, NEW sent, NEW A
  PROVE  Asking(<<>>, {}, {}, {}, n, alive) /\ Telling(<<>>, None, completed, sent, A)
BY DEF Asking, Numbered, Placed, Found, Waited, Telling

LEMMA MentionsTail ==
  ASSUME NEW q \in Seq(Lines), q # <<>>, NEW m, Mentions(Tail(q), m)
  PROVE  Mentions(q, m)
BY TailParts DEF Mentions, IsPart, IsEnd

LEMMA MentionsHead ==
  ASSUME NEW q \in Seq(Lines), q # <<>>, Head(q)[1] \in {"message.part.updated", "message.updated"}
  PROVE  Mentions(q, Head(q)[2])
BY TailParts DEF Mentions, IsPart, IsEnd

LEMMA MentionsAppend ==
  ASSUME NEW q \in Seq(Lines), NEW line \in Lines, NEW m, Mentions(q \o <<line>>, m)
  PROVE  \/ Mentions(q, m)
         \/ line[1] \in {"message.part.updated", "message.updated"} /\ line[2] = m
<1> DEFINE r == q \o <<line>>
<1>1. /\ \A j \in DOMAIN q : j \in DOMAIN r /\ r[j] = q[j]
      /\ \A j \in DOMAIN r : j \in DOMAIN q \/ r[j] = line
  BY AppendParts
<1>2. Mentions(r, m)
  OBVIOUS
<1> HIDE DEF r
<1> QED BY <1>1, <1>2 DEF Mentions, IsPart, IsEnd

-----------------------------------------------------------------------------
(* What a step leaves alone.                                               *)

LEMMA ServerTyped ==
  ASSUME IInv
  PROVE  /\ b.server = None \/ b.server \in Prompts
         /\ b.server # None => Server = proc[b.server]
         /\ b.server = None => Server = NoProcess
         /\ Server \in Processes /\ Server.pipe \in Seq(Lines) /\ Server.open \in SUBSET Requests
         /\ Server.work \in Nobody /\ Pending \in SUBSET Requests
<1>1. b.server = None \/ b.server \in Prompts
  BY DEF IInv, Typed, BackendTyped, Nobody
<1>2. NoProcess \in Processes
  BY NoneIsNoPrompt DEF NoProcess, Processes
<1>3. Server \in Processes
  BY <1>1, <1>2 DEF Server, IInv, Typed, ProcessesTyped
<1>4. Server.pipe \in Seq(Lines) /\ Server.open \in SUBSET Requests /\ Server.work \in Nobody
  BY <1>3 DEF Processes
<1>5. Pending \in SUBSET Requests
  BY LiveTyped DEF Pending, Objects
<1> QED BY <1>1, <1>3, <1>4, <1>5 DEF Server

LEMMA HandsTyped ==
  ASSUME RespondTyped
  PROVE  Hands \in SUBSET Requests
BY DEF RespondTyped, Hands

BackendStays == b'.server = b.server /\ b'.thread = b.thread /\ b'.bySession = b.bySession
PartsStay == \A t \in Prompts : /\ object'[t].pending = object[t].pending
                                /\ object'[t].assembling = object[t].assembling
LossStays == LossInv' /\ (~h'.lost => ~h.lost /\ h'.asked = h.asked /\ h'.settled = h.settled)

\* The prompts other than those that move from one of the places to another.
CallStays == \A c \in Prompts :
  /\ call'[c].pc \in {"open", "claim", "claimed"} => b'.server # None
  /\ call[c].pc = "returned" => call'[c].pc = "returned"
NatStays == \A c \in Prompts :
  /\ call'[c].nat \in {None, call[c].nat, rec.native}
  /\ call'[c].pc \in {"claim", "claimed"} =>
       call'[c].nat # None \/ (call[c].pc \in {"claim", "claimed"} /\ call'[c].nat = call[c].nat)

LEMMA NoteLoss ==
  ASSUME LossInv, NEW g, NEW mishap \in BOOLEAN, IsHistory(g), g.lost \in BOOLEAN, g.asked \in Nat,
         g.slipped = h.slipped, h.lost => g.lost, Note(g, mishap)
  PROVE  /\ LossInv'
         /\ ~h'.lost => /\ ~h.lost /\ ~h.slipped /\ ~mishap /\ ~g.lost
                        /\ h'.asked = g.asked /\ h'.settled = g.settled
<1>1. CASE mishap \/ h.slipped
  <2>1. h' = [NoHistory EXCEPT !.asked = g.asked, !.lost = TRUE, !.slipped = TRUE]
    BY <1>1 DEF Note
  <2> QED BY <2>1 DEF NoHistory, LossInv
<1>2. CASE ~(mishap \/ h.slipped)
  <2> DEFINE settled == IF g.lost THEN {} ELSE g.settled
  <2>1. h' = [g EXCEPT !.settled = settled]
    BY <1>2 DEF Note
  <2>2. ~g.lost => settled = g.settled
    OBVIOUS
  <2> HIDE DEF settled
  <2>3. h'.lost = g.lost /\ h'.asked = g.asked /\ h'.slipped = g.slipped /\ h'.settled = settled
    BY <2>1 DEF IsHistory
  <2> QED BY <1>2, <2>2, <2>3 DEF LossInv
<1> QED BY <1>1, <1>2

LEMMA MishapLoss ==
  ASSUME IInv, LossInv, NEW mishap \in BOOLEAN, Note(h, mishap)
  PROVE  LossStays /\ (~h'.lost => ~mishap)
BY NoteLoss DEF LossInv, IInv, Typed, HistoryTyped, LossStays

LEMMA LossSame ==
  ASSUME LossInv, UNCHANGED h
  PROVE  LossStays
BY DEF LossInv, LossStays

\* What is asked and told is a matter of the stored server, the table's object
\* and the owners.
LEMMA AskStays ==
  ASSUME AskInv, BackendStays, PartsStay, IInv, Server'.pipe = Server.pipe, Server'.open = Server.open,
         Server'.alive = Server.alive, Hands' = Hands, h'.asked = h.asked
  PROVE  AskInv'
<1>1. Live' = Live
  BY DEF Live, BackendStays
<1>2. Live => b.thread \in Prompts /\ b'.thread = b.thread
  BY LiveTyped DEF BackendStays
<1>3. Pending' = Pending
  BY <1>1, <1>2 DEF Pending, PartsStay
<1> QED BY <1>1, <1>3 DEF AskInv

LEMMA TellStays ==
  ASSUME TellInv, BackendStays, PartsStay, IInv, Server'.pipe = Server.pipe, Server'.work = Server.work,
         Server'.completed = Server.completed, Server'.sent = Server.sent, h'.settled = h.settled
  PROVE  TellInv'
<1>1. Live' = Live
  BY DEF Live, BackendStays
<1>2. Live => object'[b'.thread].assembling = object[b.thread].assembling
  BY LiveTyped DEF BackendStays, PartsStay
<1> QED BY <1>1, <1>2 DEF TellInv

LEMMA SessionStays ==
  ASSUME SessionInv, BackendStays, NatStays, UNCHANGED rec, Server'.pipe = Server.pipe,
         Hands' = Hands, Server'.inbox = {} \/ Server'.inbox = Server.inbox,
         Server'.work = None \/ Server'.work = Server.work
  PROVE  SessionInv'
<1>1. Live' = Live
  BY DEF Live, BackendStays
<1>2. \A c \in Prompts : call'[c].nat \in {None, rec'.native}
  BY DEF SessionInv, NatStays
<1>3. \A c \in Prompts : call'[c].pc \in {"claim", "claimed"} => call'[c].nat # None
  BY DEF SessionInv, NatStays
<1> QED BY <1>1, <1>2, <1>3 DEF SessionInv

LEMMA FreshStays ==
  ASSUME FreshInv, CallStays, Server'.inbox \subseteq Server.inbox,
         \A m \in Prompts : Mentions(Server'.pipe, m) => Mentions(Server.pipe, m) \/ ~Unsaid(m),
         \A t, m \in Prompts : object'[t].assembling[m] \in {{}, object[t].assembling[m]} \/ ~Unsaid(m)
  PROVE  FreshInv'
<1> SUFFICES ASSUME NEW m \in Prompts, Unsaid(m)'
             PROVE  (~Mentions(Server.pipe, m) /\ \A t \in Prompts : object[t].assembling[m] = {})'
  BY DEF FreshInv
<1>1. Unsaid(m)
  BY DEF Unsaid, CallStays
<1> QED BY <1>1 DEF FreshInv

\* A prompt moves, or an object changes in what is not about messages and
\* requests.
LEMMA QuietKeeps ==
  ASSUME IInv, TalkInv, BackendStays, PartsStay, LossStays, CallStays, NatStays, Sent' = Sent,
         UNCHANGED <<rec, proc, respond>>,
         stream' \in {"closed", "connecting"} => stream \in {"closed", "connecting"},
         stream' # "closed" => b.server # None
  PROVE  TalkInv'
<1>1. Server' = Server /\ Hands' = Hands
  BY DEF Server, Hands, BackendStays
<1>2. RespondTyped' /\ LossInv'
  BY DEF TalkInv, PlainInv, RespondTyped, LossStays
<1>3. PlaceInv'
  BY <1>1 DEF TalkInv, PlainInv, PlaceInv, BackendStays, CallStays, Live
<1>4. WorkInv'
  BY DEF TalkInv, PlainInv, WorkInv
<1>5. FreshInv'
  <2>1. Server'.inbox \subseteq Server.inbox
        /\ \A m \in Prompts : Mentions(Server'.pipe, m) => Mentions(Server.pipe, m) \/ ~Unsaid(m)
    BY <1>1
  <2>2. \A t, m \in Prompts : object'[t].assembling[m] \in {{}, object[t].assembling[m]} \/ ~Unsaid(m)
    BY DEF PartsStay
  <2> QED BY <2>1, <2>2, FreshStays DEF TalkInv, PlainInv
<1>6. KeptInv'
  <2> SUFFICES ASSUME ~h'.lost PROVE (SessionInv /\ AskInv /\ TellInv)'
    BY DEF KeptInv
  <2>1. SessionInv /\ AskInv /\ TellInv /\ h'.asked = h.asked /\ h'.settled = h.settled
    BY DEF TalkInv, KeptInv, LossStays
  <2> QED BY <1>1, <2>1, SessionStays, AskStays, TellStays
<1> QED BY <1>2, <1>3, <1>4, <1>5, <1>6 DEF TalkInv, PlainInv

-----------------------------------------------------------------------------
(* The prompts.                                                            *)

LEMMA CallSteps ==
  ASSUME IInv, NEW c \in Prompts, NEW q \in Calls, call' = [call EXCEPT ![c] = q], PlaceInv,
         b'.server = b.server
  PROVE  /\ (q.pc \in {"open", "claim", "claimed"} => b.server # None)
            /\ (call[c].pc = "returned" => q.pc = "returned") => CallStays
         /\ q.nat \in {None, call[c].nat, rec.native}
            /\ (q.pc \in {"claim", "claimed"} =>
                   q.nat # None \/ (call[c].pc \in {"claim", "claimed"} /\ q.nat = call[c].nat))
            => NatStays
<1>1. call'[c] = q /\ \A d \in Prompts \ {c} : call'[d] = call[d]
  BY DEF IInv, Typed, CallsTyped
<1>2. ASSUME q.pc \in {"open", "claim", "claimed"} => b.server # None,
             call[c].pc = "returned" => q.pc = "returned"
      PROVE  CallStays
  BY <1>1, <1>2 DEF CallStays, PlaceInv
<1>3. ASSUME q.nat \in {None, call[c].nat, rec.native},
             q.pc \in {"claim", "claimed"} =>
               q.nat # None \/ (call[c].pc \in {"claim", "claimed"} /\ q.nat = call[c].nat)
      PROVE  NatStays
  BY <1>1, <1>3 DEF NatStays
<1> QED BY <1>2, <1>3

LEMMA GotoSteps ==
  ASSUME IInv, NEW c \in Prompts, NEW pc \in PromptSteps, Goto(c, pc), PlaceInv, b'.server = b.server
  PROVE  /\ (pc \in {"open", "claim", "claimed"} => b.server # None)
            /\ (call[c].pc = "returned" => pc = "returned") => CallStays
         /\ (pc \in {"claim", "claimed"} => call[c].pc \in {"claim", "claimed"}) => NatStays
<1> DEFINE q == [call[c] EXCEPT !.pc = pc]
<1>1. call[c] \in Calls
  BY DEF IInv, Typed, CallsTyped
<1>2. q \in Calls /\ q.pc = pc /\ q.nat = call[c].nat
  BY <1>1 DEF Calls
<1>3. call' = [call EXCEPT ![c] = q]
  BY DEF Goto
<1> HIDE DEF q
<1> QED BY <1>2, <1>3, CallSteps

LEMMA StepsSame ==
  ASSUME PlaceInv, b'.server = b.server, UNCHANGED call
  PROVE  CallStays /\ NatStays
BY DEF PlaceInv, CallStays, NatStays

LEMMA PartsSame == UNCHANGED object => PartsStay
BY DEF PartsStay

LEMMA PartsSet ==
  ASSUME IInv, NEW t, NEW q, object' = [object EXCEPT ![t] = q],
         t \in Prompts => q.pending = object[t].pending /\ q.assembling = object[t].assembling
  PROVE  PartsStay
BY DEF IInv, Typed, ObjectsTyped, PartsStay

LEMMA SetStateParts ==
  ASSUME IInv, NEW state \in RowStates, setState(state)
  PROVE  PartsStay
<1>1. CASE ~Live
  BY <1>1, PartsSame DEF setState
<1>2. CASE Live
  <2> DEFINE t == b.thread
             q == [object[t] EXCEPT !.state = state]
  <2>1. t \in Prompts /\ object[t] \in Objects
    BY <1>2, LiveTyped
  <2>2. q.pending = object[t].pending /\ q.assembling = object[t].assembling
    BY <2>1 DEF Objects
  <2>3. object' = [object EXCEPT ![t] = q]
    BY <1>2 DEF setState
  <2> HIDE DEF q, t
  <2> QED BY <2>2, <2>3, PartsSet
<1> QED BY <1>1, <1>2

LEMMA PlaceStream ==
  ASSUME PlaceInv, stream' = stream
  PROVE  /\ stream' \in {"closed", "connecting"} => stream \in {"closed", "connecting"}
         /\ stream' # "closed" => b.server # None
BY DEF PlaceInv

LEMMA ArriveTalks ==
  ASSUME IInv, TalkInv, NEW c \in Prompts, Arrive(c)
  PROVE  TalkInv'
<1> DEFINE q == IF Turn # None THEN [NoCall EXCEPT !.pc = "failed"]
                               ELSE [pc |-> "lock", nat |-> rec.native]
<1>1. call[c].pc = "new" /\ call' = [call EXCEPT ![c] = q]
      /\ UNCHANGED <<rec, b, object, run, proc, stream, respond, h>>
  BY DEF Arrive
<1>2. q \in Calls /\ q.pc \in {"failed", "lock"} /\ q.nat \in {None, rec.native}
  BY NoneIsNoPrompt DEF Calls, NoCall, PromptSteps, IInv, Typed, RowTyped
<1> HIDE DEF q
<1>3. PlaceInv /\ LossInv
  BY DEF TalkInv, PlainInv
<1>4. CallStays /\ NatStays
  BY <1>1, <1>2, <1>3, CallSteps
<1>5. BackendStays /\ PartsStay /\ LossStays /\ Sent' = Sent
  BY <1>1, <1>3, PartsSame, LossSame DEF BackendStays, Sent
<1> QED BY <1>1, <1>3, <1>4, <1>5, PlaceStream, QuietKeeps

LEMMA WaitingTalks ==
  ASSUME IInv, TalkInv, NEW c \in Prompts, NEW pc \in {"open", "failed", "panicked"}, Goto(c, pc),
         call[c].pc \in {"lock", "claim", "open"}, pc = "open" => b.server # None,
         UNCHANGED <<rec, b, object, run, proc, stream, respond, h>>
  PROVE  TalkInv'
<1>1. PlaceInv /\ LossInv
  BY DEF TalkInv, PlainInv
<1>2. CallStays /\ NatStays
  BY <1>1, GotoSteps DEF PromptSteps
<1>3. BackendStays /\ PartsStay /\ LossStays /\ Sent' = Sent
  BY <1>1, PartsSame, LossSame DEF BackendStays, Sent
<1> QED BY <1>1, <1>2, <1>3, PlaceStream, QuietKeeps

LEMMA ensureServerTalks ==
  ASSUME IInv, TalkInv, NEW c \in Prompts, ensureServer(c)
  PROVE  TalkInv'
BY WaitingTalks DEF ensureServer

LEMMA OptionInvalidTalks ==
  ASSUME IInv, TalkInv, NEW c \in Prompts, OptionInvalid(c)
  PROVE  TalkInv'
BY WaitingTalks DEF OptionInvalid

LEMMA ClaimTalks ==
  ASSUME IInv, TalkInv, NEW c \in Prompts, Claim(c)
  PROVE  TalkInv'
<1>1. PlaceInv /\ LossInv /\ call[c].pc = "claim"
      /\ UNCHANGED <<rec, b, run, proc, stream, respond>>
  BY DEF TalkInv, PlainInv, Claim
<1>2. CASE b.thread = None
  BY <1>1, <1>2, WaitingTalks DEF Claim
<1>3. CASE Live
  <2> DEFINE t == b.thread
             q == [object[t] EXCEPT !.turn = c, !.interrupted = None, !.started = c,
                                    !.usage = newThread.usage]
             mishap == object[t].turn # None \/ object[t].started # None
  <2>1. Goto(c, "claimed") /\ object' = [object EXCEPT ![t] = q] /\ Note(h, mishap)
    BY <1>3 DEF Claim, Live
  <2>2. t \in Prompts /\ object[t] \in Objects /\ mishap \in BOOLEAN
    BY <1>3, LiveTyped
  <2>3. q.pending = object[t].pending /\ q.assembling = object[t].assembling
    BY <2>2 DEF Objects
  <2> HIDE DEF q, mishap
  <2>4. CallStays /\ NatStays
    BY <1>1, <2>1, GotoSteps DEF PromptSteps, PlaceInv
  <2>5. PartsStay
    BY <2>1, <2>3, PartsSet
  <2>6. LossStays
    BY <1>1, <2>1, <2>2, MishapLoss
  <2>7. BackendStays /\ Sent' = Sent
    BY <1>1 DEF BackendStays, Sent
  <2> QED BY <1>1, <2>4, <2>5, <2>6, <2>7, PlaceStream, QuietKeeps
<1> QED BY <1>2, <1>3 DEF Live

Unlost(f, g) == /\ IsHistory(g) /\ g.lost = f.lost /\ g.asked = f.asked /\ g.slipped = f.slipped
                /\ g.settled = f.settled

LEMMA UnlostFields ==
  ASSUME NEW f, IsHistory(f), NEW x
  PROVE  Unlost(f, [f EXCEPT !.finished = x]) /\ Unlost(f, [f EXCEPT !.wrong = x])
<1>1. Unlost(f, [f EXCEPT !.finished = x])
  BY DEF IsHistory, Unlost
<1>2. Unlost(f, [f EXCEPT !.wrong = x])
  BY DEF IsHistory, Unlost
<1> QED BY <1>1, <1>2

LEMMA FinishFields ==
  ASSUME NEW f, IsHistory(f), NEW x, NEW y
  PROVE  Unlost(f, [f EXCEPT !.finished = x, !.wrong = y])
<1> DEFINE k == [f EXCEPT !.finished = x]
<1>1. Unlost(f, k)
  BY UnlostFields
<1>2. [f EXCEPT !.finished = x, !.wrong = y] = [k EXCEPT !.wrong = y]
  BY DEF IsHistory
<1> HIDE DEF k
<1>3. Unlost(k, [k EXCEPT !.wrong = y])
  BY <1>1, UnlostFields DEF Unlost
<1>4. Unlost(f, [k EXCEPT !.wrong = y])
  BY <1>1, <1>3 DEF Unlost
<1> QED BY <1>2, <1>4

LEMMA TurnFinishedTalks ==
  ASSUME IInv, TalkInv, NEW c \in Prompts, TurnFinished(c)
  PROVE  TalkInv'
<1> DEFINE t == run[c].t
           total == IF run[c].ok THEN Counted(object[t].usage, c) ELSE object[t].usage
           q == [object[t] EXCEPT !.usage = total, !.started = None]
           finished == h.finished \cup {<<run[c].id, run[c].ok, total>>}
           wrong == h.wrong \/ run[c].mark \notin {None, run[c].id}
           g == [h EXCEPT !.finished = finished, !.wrong = wrong]
           mishap == object[t].started # c
           r == [NoRun EXCEPT !.pc = "idle"]
<1>1. /\ PlaceInv /\ LossInv /\ run[c].pc = "closing" /\ run' = [run EXCEPT ![c] = r]
      /\ object' = [object EXCEPT ![t] = q] /\ Note(g, mishap)
      /\ UNCHANGED <<rec, b, call, proc, stream, respond>>
  BY DEF TalkInv, PlainInv, TurnFinished
<1>2. mishap \in BOOLEAN /\ r.pc = "idle" /\ t \in Prompts /\ object[t] \in Objects
  BY <1>1 DEF NoRun, IInv, Typed, RunsTyped, ObjectsTyped
<1> HIDE DEF total, finished, wrong, mishap, r
<1>3. q.pending = object[t].pending /\ q.assembling = object[t].assembling
  BY <1>2 DEF Objects
<1>8. Unlost(h, g)
  BY FinishFields DEF IInv, Typed, HistoryTyped
<1> HIDE DEF q, g, t
<1>4. IsHistory(g) /\ g.lost = h.lost /\ g.asked = h.asked /\ g.slipped = h.slipped /\ g.settled = h.settled
  BY <1>8 DEF Unlost
<1>5. LossStays
  BY <1>1, <1>2, <1>4, NoteLoss DEF LossInv, LossStays
<1>6. Sent' = Sent
  BY <1>1, <1>2 DEF Sent, IInv, Typed, RunsTyped
<1>7. BackendStays /\ PartsStay
  BY <1>1, <1>3, PartsSet DEF BackendStays
<1> QED BY <1>1, <1>5, <1>6, <1>7, StepsSame, PlaceStream, QuietKeeps

LEMMA TurnIdleTalks ==
  ASSUME IInv, TalkInv, NEW c \in Prompts, TurnIdle(c)
  PROVE  TalkInv'
<1> DEFINE mishap == Turn # None
           r == [run[c] EXCEPT !.pc = "gone"]
<1>1. /\ PlaceInv /\ LossInv /\ run[c].pc = "idle" /\ run' = [run EXCEPT ![c] = r]
      /\ setState("idle") /\ Note(h, mishap) /\ UNCHANGED <<rec, b, call, proc, stream, respond>>
  BY DEF TalkInv, PlainInv, TurnIdle
<1>2. mishap \in BOOLEAN /\ r.pc = "gone"
  BY DEF IInv, Typed, RunsTyped, Runs
<1> HIDE DEF mishap, r
<1>3. LossStays
  BY <1>1, <1>2, MishapLoss
<1>4. Sent' = Sent
  BY <1>1, <1>2 DEF Sent, IInv, Typed, RunsTyped
<1>5. BackendStays /\ PartsStay
  BY <1>1, SetStateParts DEF BackendStays, RowStates
<1> QED BY <1>1, <1>3, <1>4, <1>5, StepsSame, PlaceStream, QuietKeeps

LEMMA InterruptTalks ==
  ASSUME IInv, TalkInv, Interrupt
  PROVE  TalkInv'
<1> DEFINE t == b.thread
           q == [object[t] EXCEPT !.interrupted = Turn]
<1>1. /\ PlaceInv /\ LossInv /\ Live /\ object' = [object EXCEPT ![t] = q]
      /\ UNCHANGED <<rec, b, call, run, proc, stream, respond, h>>
  BY DEF TalkInv, PlainInv, Interrupt, Turn
<1>2. t \in Prompts /\ object[t] \in Objects
  BY <1>1, LiveTyped
<1>3. q.pending = object[t].pending /\ q.assembling = object[t].assembling
  BY <1>2 DEF Objects
<1> HIDE DEF q, t
<1>4. BackendStays /\ PartsStay /\ LossStays /\ Sent' = Sent
  BY <1>1, <1>3, PartsSet, LossSame DEF BackendStays, Sent
<1> QED BY <1>1, <1>4, StepsSame, PlaceStream, QuietKeeps

LEMMA SetsStateTalks ==
  ASSUME IInv, TalkInv, SetsState
  PROVE  TalkInv'
<1>1. /\ PlaceInv /\ LossInv /\ stream \in {"asked", "replied"} /\ stream' = "read"
      /\ (setState("waiting_input") \/ setState("running"))
      /\ UNCHANGED <<rec, b, call, run, proc, respond, h>>
  BY DEF TalkInv, PlainInv, SetsState
<1>2. BackendStays /\ PartsStay /\ LossStays /\ Sent' = Sent
  BY <1>1, SetStateParts, LossSame DEF BackendStays, Sent, RowStates
<1>3. b.server # None
  BY <1>1 DEF PlaceInv
<1> QED BY <1>1, <1>2, <1>3, StepsSame, QuietKeeps

-----------------------------------------------------------------------------
(* The server.                                                             *)

\* What goes on in the stored server, on the stream and among the owners.
LEMMA TalksOn ==
  ASSUME IInv, TalkInv, UNCHANGED <<rec, b, call, run>>, RespondTyped', LossInv', WorkInv',
         \A s \in Prompts : s # b.server => Idle(proc'[s]),
         stream' \in {"closed", "connecting"} => Server'.pipe = <<>>,
         stream' # "closed" => b.server # None,
         Server'.inbox \subseteq Server.inbox,
         \A m \in Prompts : Mentions(Server'.pipe, m) => Mentions(Server.pipe, m) \/ ~Unsaid(m),
         \A t, m \in Prompts : object'[t].assembling[m] \in {{}, object[t].assembling[m]} \/ ~Unsaid(m),
         ~h'.lost => ~h.lost /\ \A e \in h'.settled : e[2] = Parts,
         ~h'.lost /\ Live => Asking(Server'.pipe, Server'.open, Pending', Hands', h'.asked, Server'.alive),
         ~h'.lost /\ Live => Telling(Server'.pipe, Server'.work, Server'.completed, Server'.sent,
                                     object'[b.thread].assembling),
         ~h'.lost /\ ~Live => /\ Server.pipe = <<>> => Server'.pipe = <<>>
                              /\ Hands' \subseteq Hands
                              /\ Server'.work \in {None, Server.work}
  PROVE  TalkInv'
<1>1. PlaceInv /\ FreshInv /\ Live' = Live /\ b' = b /\ rec' = rec /\ call' = call
  BY DEF TalkInv, PlainInv, Live
<1>2. PlaceInv'
  BY <1>1 DEF PlaceInv
<1>3. FreshInv'
  BY <1>1, StepsSame, FreshStays
<1>4. KeptInv'
  <2> SUFFICES ASSUME ~h'.lost PROVE (SessionInv /\ AskInv /\ TellInv)'
    BY DEF KeptInv
  <2>1. SessionInv /\ ~h.slipped
    BY DEF TalkInv, KeptInv, PlainInv, LossInv
  <2>2. Live => rec.live
    BY <2>1 DEF IInv, TurnInv, CleanInv, ClaimInv
  <2>3. SessionInv'
    <3>1. \A c \in Prompts : /\ call'[c].nat \in {None, rec'.native}
                             /\ call'[c].pc \in {"claim", "claimed"} => call'[c].nat # None
      BY <1>1, <2>1 DEF SessionInv
    <3>2. ~rec.live => Server'.inbox = {} /\ Server'.work = None
      BY <2>1, <2>2 DEF SessionInv
    <3> QED BY <1>1, <2>1, <2>2, <3>1, <3>2 DEF SessionInv
  <2>4. AskInv'
    BY <1>1 DEF AskInv
  <2>5. TellInv'
    BY <1>1 DEF TellInv
  <2> QED BY <2>3, <2>4, <2>5
<1> QED BY <1>2, <1>3, <1>4 DEF TalkInv, PlainInv

LEMMA ProcSet ==
  ASSUME IInv, PlaceInv, WorkInv, NEW s \in Prompts, s = b.server, NEW q,
         proc' = [proc EXCEPT ![s] = q], UNCHANGED b
  PROVE  /\ Server' = q /\ Server = proc[s]
         /\ \A t \in Prompts : t # b.server => Idle(proc'[t])
         /\ UNCHANGED run /\ Working(q, Sent) => WorkInv'
<1>1. proc'[s] = q /\ \A t \in Prompts \ {s} : proc'[t] = proc[t]
  BY DEF IInv, Typed, ProcessesTyped
<1>2. Server' = q /\ Server = proc[s]
  BY <1>1, NoneIsNoPrompt DEF Server
<1>3. \A t \in Prompts : t # b.server => Idle(proc'[t])
  BY <1>1 DEF PlaceInv
<1>4. ASSUME UNCHANGED run, Working(q, Sent) PROVE WorkInv'
  <2>1. Sent' = Sent
    BY <1>4 DEF Sent
  <2> QED BY <1>1, <1>4, <2>1 DEF WorkInv
<1> QED BY <1>2, <1>3, <1>4

\* A process that has something to do is the stored one, and has a thread.
LEMMA WorkerPlace ==
  ASSUME IInv, TalkInv, NEW s \in Prompts,
         proc[s].inbox # {} \/ proc[s].work # None \/ proc[s].open # {}
  PROVE  /\ s = b.server /\ Server = proc[s] /\ proc[s] \in Processes
         /\ Working(proc[s], Sent) /\ proc[s].alive
         /\ ~h.lost => Live
<1>1. PlaceInv /\ WorkInv
  BY DEF TalkInv, PlainInv
<1>2. s = b.server
  BY <1>1 DEF PlaceInv, Idle
<1>3. Server = proc[s] /\ proc[s] \in Processes
  BY <1>2, NoneIsNoPrompt DEF Server, IInv, Typed, ProcessesTyped
<1>4. Working(proc[s], Sent)
  BY <1>1 DEF WorkInv
<1>5. proc[s].inbox # {} \/ proc[s].work # None
  BY <1>4 DEF Working
<1>6. ASSUME ~h.lost PROVE Live
  <2>1. SessionInv /\ ~h.slipped
    BY <1>6 DEF TalkInv, KeptInv, PlainInv, LossInv
  <2>2. rec.live
    BY <1>3, <1>5, <2>1 DEF SessionInv
  <2>3. \E c \in Prompts : c \in proc[s].inbox \/ c = proc[s].work
    BY <1>3, <1>5 DEF Processes, Nobody
  <2>4. \E c \in Prompts : run[c].pc = "sent"
    BY <1>4, <2>3 DEF Working, Sent
  <2> QED BY <2>1, <2>2, <2>4 DEF IInv, TurnInv, CleanInv, ClaimInv
<1> QED BY <1>2, <1>3, <1>4, <1>5, <1>6 DEF Working

\* What the server works on was sent.
LEMMA WorkIsSaid ==
  ASSUME IInv, TalkInv, NEW s \in Prompts, proc[s].work # None
  PROVE  proc[s].work \in Prompts /\ ~Unsaid(proc[s].work) /\ proc[s].work \in Sent
<1>1. Server = proc[s] /\ proc[s] \in Processes /\ Working(proc[s], Sent)
  BY WorkerPlace
<1>2. proc[s].work \in Prompts /\ proc[s].work \in Sent /\ proc[s].work \notin proc[s].inbox
  BY <1>1 DEF Processes, Nobody, Working
<1>3. call[proc[s].work].pc = "returned"
  BY <1>2 DEF Sent, IInv, TurnInv, RunInv
<1> QED BY <1>1, <1>2, <1>3 DEF Unsaid

LEMMA LostFields ==
  ASSUME NEW f, IsHistory(f), NEW x
  PROVE  LET g == [f EXCEPT !.lost = x] IN
         /\ IsHistory(g) /\ g.lost = x /\ g.asked = f.asked /\ g.settled = f.settled
         /\ g.slipped = f.slipped
<1>1. IsHistory([f EXCEPT !.lost = x])
  BY DEF IsHistory
<1>2. /\ [f EXCEPT !.lost = x].lost = x /\ [f EXCEPT !.lost = x].asked = f.asked
      /\ [f EXCEPT !.lost = x].settled = f.settled /\ [f EXCEPT !.lost = x].slipped = f.slipped
  BY DEF IsHistory
<1> QED BY <1>1, <1>2

\* Nothing else is noted than that something was, or was not, lost.
LEMMA LostNoted ==
  ASSUME IInv, LossInv, NEW x \in BOOLEAN, Note([h EXCEPT !.lost = h.lost \/ x], FALSE)
  PROVE  LossStays /\ (~h'.lost => ~x)
<1> DEFINE lost == h.lost \/ x
           g == [h EXCEPT !.lost = lost]
<1>1. lost \in BOOLEAN /\ (h.lost => lost) /\ (~lost => ~h.lost /\ ~x) /\ Note(g, FALSE)
  BY DEF LossInv
<1> HIDE DEF lost
<1>2. /\ IsHistory(g) /\ g.lost = lost /\ g.asked = h.asked /\ g.settled = h.settled
      /\ g.slipped = h.slipped
  BY LostFields DEF IInv, Typed, HistoryTyped
<1> HIDE DEF g
<1> QED BY <1>1, <1>2, NoteLoss DEF LossStays, LossInv

LEMMA SaysTalks ==
  ASSUME IInv, TalkInv, NEW s \in Prompts, proc[s].work # None, NEW p \in Processes,
         p.pipe = proc[s].pipe, p.inbox = proc[s].inbox, p.work = proc[s].work, p.alive = proc[s].alive,
         p.answered = proc[s].answered, p.failed = proc[s].failed, p.open # {} => ~p.completed,
         NEW g, IsHistory(g), g.slipped = h.slipped, g.lost = h.lost, g.settled = h.settled,
         g.asked \in Nat, NEW line \in Lines, Says(s, p, g, <<line>>),
         line[1] \in {"message.part.updated", "message.updated"} => line[2] = proc[s].work,
         ~h.lost => Asking(proc[s].pipe \o <<line>>, p.open, Pending, Hands, g.asked, p.alive),
         ~h.lost => Telling(proc[s].pipe \o <<line>>, p.work, p.completed, p.sent,
                            object[b.thread].assembling)
  PROVE  TalkInv'
<1> DEFINE heard == stream \notin {"closed", "connecting"} /\ s = b.server
           pipe == IF heard THEN p.pipe \o <<line>> ELSE p.pipe
           q == [p EXCEPT !.pipe = pipe]
           lost == g.lost \/ ~heard
           note == [g EXCEPT !.lost = lost]
<1>1. /\ s = b.server /\ Server = proc[s] /\ proc[s] \in Processes /\ Working(proc[s], Sent)
      /\ proc[s].alive /\ (~h.lost => Live)
  BY WorkerPlace
<1>2. /\ proc[s].work \in Prompts /\ ~Unsaid(proc[s].work) /\ proc[s].work \in Sent
  BY WorkIsSaid
<1>3. PlaceInv /\ WorkInv /\ LossInv /\ RespondTyped
  BY DEF TalkInv, PlainInv
<1>4. proc' = [proc EXCEPT ![s] = q] /\ Note(note, FALSE)
      /\ UNCHANGED <<rec, b, object, call, run, stream, respond>>
  BY DEF Says
<1>5. lost \in BOOLEAN /\ (h.lost => lost) /\ (~lost => heard)
  BY <1>3 DEF LossInv
<1>6. pipe = IF heard THEN proc[s].pipe \o <<line>> ELSE proc[s].pipe
  OBVIOUS
<1>7. \A m \in Prompts : Mentions(pipe, m) => Mentions(proc[s].pipe, m) \/ m = proc[s].work
  <2>1. proc[s].pipe \in Seq(Lines)
    BY <1>1 DEF Processes
  <2> QED BY <1>6, <2>1, MentionsAppend
<1>8. stream \in {"closed", "connecting"} => pipe = <<>>
  BY <1>1, <1>3, <1>6 DEF PlaceInv
<1>9. ~lost => pipe = proc[s].pipe \o <<line>>
  BY <1>5, <1>6
<1> HIDE DEF pipe, lost, heard
<1>10. /\ q.pipe = pipe /\ q.inbox = p.inbox /\ q.work = p.work /\ q.alive = p.alive /\ q.open = p.open
       /\ q.answered = p.answered /\ q.failed = p.failed /\ q.completed = p.completed /\ q.sent = p.sent
  BY DEF Processes
<1>11. /\ IsHistory(note) /\ note.lost = lost /\ note.asked = g.asked /\ note.settled = g.settled
       /\ note.slipped = g.slipped
  BY LostFields
<1> HIDE DEF q, note
<1>12. LossInv' /\ (~h'.lost => ~lost /\ h'.asked = g.asked /\ h'.settled = h.settled)
  BY <1>3, <1>4, <1>5, <1>11, NoteLoss
<1>13. Working(q, Sent)
  BY <1>1, <1>10 DEF Working
<1>14. /\ Server' = q /\ \A t \in Prompts : t # b.server => Idle(proc'[t])
       /\ WorkInv'
  BY <1>1, <1>3, <1>4, <1>13, ProcSet
<1>15. RespondTyped' /\ Hands' = Hands /\ Pending' = Pending
  BY <1>3, <1>4 DEF RespondTyped, Hands, Pending, Live
<1>16. stream' # "closed" => b.server # None
  BY <1>3, <1>4 DEF PlaceInv
<1>17. \A m \in Prompts : Mentions(Server'.pipe, m) => Mentions(Server.pipe, m) \/ ~Unsaid(m)
  BY <1>1, <1>2, <1>7, <1>10, <1>14
<1>18. ~h'.lost => ~h.lost /\ Live /\ \A e \in h'.settled : e[2] = Parts
  BY <1>1, <1>5, <1>12 DEF TalkInv, KeptInv, TellInv
<1>19. ~h'.lost => Asking(q.pipe, q.open, Pending', Hands', h'.asked, q.alive)
  BY <1>9, <1>10, <1>12, <1>15, <1>18
<1>20. ~h'.lost => Telling(q.pipe, q.work, q.completed, q.sent, object'[b.thread].assembling)
  BY <1>4, <1>9, <1>10, <1>12, <1>18
<1>21. stream' \in {"closed", "connecting"} => Server'.pipe = <<>>
  BY <1>4, <1>8, <1>10, <1>14
<1>22. Server'.inbox \subseteq Server.inbox
  BY <1>1, <1>10, <1>14
<1>23. \A t, m \in Prompts : object'[t].assembling[m] \in {{}, object[t].assembling[m]} \/ ~Unsaid(m)
  BY <1>4
<1> QED BY <1>4, <1>12, <1>14, <1>15, <1>16, <1>17, <1>18, <1>19, <1>20, <1>21, <1>22, <1>23, TalksOn

LEMMA ServerSaysPartTalks ==
  ASSUME IInv, TalkInv, NEW s \in Prompts, NEW i \in Parts, ServerSaysPart(s, i)
  PROVE  TalkInv'
<1> DEFINE m == proc[s].work
           p == [proc[s] EXCEPT !.sent = proc[s].sent \cup {i}]
           line == <<"message.part.updated", m, i>>
           q == proc[s].pipe
           A == object[b.thread].assembling
<1>1. m # None /\ ~proc[s].completed /\ Says(s, p, h, <<line>>)
  BY DEF ServerSaysPart
<1>2. /\ s = b.server /\ Server = proc[s] /\ proc[s] \in Processes /\ Working(proc[s], Sent)
      /\ proc[s].alive /\ (~h.lost => Live) /\ m \in Prompts
  BY <1>1, WorkerPlace, WorkIsSaid
<1>3. /\ p \in Processes /\ p.pipe = q /\ p.inbox = proc[s].inbox /\ p.work = m
      /\ p.alive = proc[s].alive /\ p.answered = proc[s].answered /\ p.failed = proc[s].failed
      /\ p.open = proc[s].open /\ p.completed = FALSE /\ p.sent = proc[s].sent \cup {i}
      /\ proc[s].completed = FALSE /\ q \in Seq(Lines)
  BY <1>1, <1>2 DEF Processes
<1>4. /\ line \in Lines /\ line[1] = "message.part.updated" /\ line[2] = m
  BY <1>2 DEF Lines
<1>5. ASSUME ~h.lost
      PROVE  /\ Asking(q \o <<line>>, p.open, Pending, Hands, h.asked, p.alive)
             /\ Telling(q \o <<line>>, p.work, p.completed, p.sent, A)
  <2>1. Live /\ AskInv /\ TellInv
    BY <1>2, <1>5 DEF TalkInv, KeptInv
  <2>2. Asking(q, proc[s].open, Pending, Hands, h.asked, proc[s].alive)
    BY <1>2, <2>1 DEF AskInv
  <2>3. Telling(q, m, FALSE, proc[s].sent, A)
    BY <1>2, <1>3, <2>1 DEF TellInv
  <2>4. Telling(q \o <<line>>, m, FALSE, proc[s].sent \cup {i}, A)
    BY <1>2, <1>3, <2>3, PartNext
  <2> HIDE DEF line, p, m, q, A
  <2>5. Asking(q \o <<line>>, proc[s].open, Pending, Hands, h.asked, proc[s].alive)
    BY <1>3, <1>4, <2>2, AskingAppend
  <2> QED BY <1>3, <2>4, <2>5
<1>6. IsHistory(h) /\ h.asked \in Nat
  BY DEF IInv, Typed, HistoryTyped, TalkInv, PlainInv, LossInv
<1> HIDE DEF line, p, A
<1> QED BY <1>1, <1>3, <1>4, <1>5, <1>6, SaysTalks DEF A

LEMMA ServerCompletesTalks ==
  ASSUME IInv, TalkInv, NEW s \in Prompts, ServerCompletes(s)
  PROVE  TalkInv'
<1> DEFINE m == proc[s].work
           p == [proc[s] EXCEPT !.completed = TRUE, !.sent = {}]
           line == <<"message.updated", m, 0>>
           q == proc[s].pipe
           A == object[b.thread].assembling
<1>1. m # None /\ ~proc[s].completed /\ proc[s].open = {} /\ proc[s].sent = Parts
      /\ Says(s, p, h, <<line>>)
  BY DEF ServerCompletes
<1>2. /\ s = b.server /\ Server = proc[s] /\ proc[s] \in Processes /\ Working(proc[s], Sent)
      /\ proc[s].alive /\ (~h.lost => Live) /\ m \in Prompts
  BY <1>1, WorkerPlace, WorkIsSaid
<1>3. /\ p \in Processes /\ p.pipe = q /\ p.inbox = proc[s].inbox /\ p.work = m
      /\ p.alive = proc[s].alive /\ p.answered = proc[s].answered /\ p.failed = proc[s].failed
      /\ p.open = {} /\ p.completed = TRUE /\ p.sent = {}
      /\ proc[s].completed = FALSE /\ q \in Seq(Lines)
  BY <1>1, <1>2 DEF Processes
<1>4. /\ line \in Lines /\ line[1] = "message.updated" /\ line[2] = m
  BY <1>2 DEF Lines
<1>5. ASSUME ~h.lost
      PROVE  /\ Asking(q \o <<line>>, p.open, Pending, Hands, h.asked, p.alive)
             /\ Telling(q \o <<line>>, p.work, p.completed, p.sent, A)
  <2>1. Live /\ AskInv /\ TellInv
    BY <1>2, <1>5 DEF TalkInv, KeptInv
  <2>2. Asking(q, proc[s].open, Pending, Hands, h.asked, proc[s].alive)
    BY <1>2, <2>1 DEF AskInv
  <2>3. Telling(q, m, FALSE, Parts, A)
    BY <1>1, <1>2, <1>3, <2>1 DEF TellInv
  <2>4. Telling(q \o <<line>>, m, TRUE, {}, A)
    BY <1>2, <1>3, <2>3, EndNext
  <2> HIDE DEF line, p, m, q, A
  <2>5. Asking(q \o <<line>>, proc[s].open, Pending, Hands, h.asked, proc[s].alive)
    BY <1>3, <1>4, <2>2, AskingAppend
  <2> QED BY <1>1, <1>3, <2>4, <2>5
<1>6. IsHistory(h) /\ h.asked \in Nat
  BY DEF IInv, Typed, HistoryTyped, TalkInv, PlainInv, LossInv
<1> HIDE DEF line, p, A
<1> QED BY <1>1, <1>3, <1>4, <1>5, <1>6, SaysTalks DEF A

LEMMA ServerAsksTalks ==
  ASSUME IInv, TalkInv, NEW s \in Prompts, NEW kind \in Kinds, ServerAsks(s, kind)
  PROVE  TalkInv'
<1> DEFINE m == proc[s].work
           n == h.asked + 1
           open == proc[s].open \cup {<<n, kind>>}
           p == [proc[s] EXCEPT !.open = open]
           g == [h EXCEPT !.asked = n]
           line == <<"asked", m, n, kind>>
           q == proc[s].pipe
           A == object[b.thread].assembling
<1>1. m # None /\ ~proc[s].completed /\ n \in Asks /\ Says(s, p, g, <<line>>)
  BY DEF ServerAsks
<1>2. /\ s = b.server /\ Server = proc[s] /\ proc[s] \in Processes /\ Working(proc[s], Sent)
      /\ proc[s].alive /\ (~h.lost => Live) /\ m \in Prompts
  BY <1>1, WorkerPlace, WorkIsSaid
<1>6. IsHistory(h) /\ h.asked \in Nat
  BY DEF IInv, Typed, HistoryTyped, TalkInv, PlainInv, LossInv
<1>7. open \in SUBSET Requests
  BY <1>1, <1>2 DEF Processes, Requests
<1>4. /\ line \in Lines /\ line[1] = "asked"
  BY <1>1, <1>2 DEF Lines
<1>8. ASSUME ~h.lost
      PROVE  Asking(q \o <<line>>, open, Pending, Hands, n, proc[s].alive)
  <2>1. Live /\ AskInv
    BY <1>2, <1>8 DEF TalkInv, KeptInv
  <2>2. Asking(q, proc[s].open, Pending, Hands, h.asked, proc[s].alive)
    BY <1>2, <2>1 DEF AskInv
  <2>3. /\ proc[s].open \in SUBSET Requests /\ Pending \in SUBSET Requests
        /\ Hands \in SUBSET Requests /\ q \in Seq(Lines)
    BY <1>2, ServerTyped, HandsTyped DEF TalkInv, PlainInv
  <2> QED BY <1>1, <1>2, <1>6, <2>2, <2>3, AsksNext
<1> HIDE DEF n, open
<1>3. /\ p \in Processes /\ p.pipe = q /\ p.inbox = proc[s].inbox /\ p.work = m
      /\ p.alive = proc[s].alive /\ p.answered = proc[s].answered /\ p.failed = proc[s].failed
      /\ p.open = open /\ p.completed = FALSE /\ p.sent = proc[s].sent
      /\ proc[s].completed = FALSE /\ q \in Seq(Lines)
  BY <1>1, <1>2, <1>7 DEF Processes
<1>5. ASSUME ~h.lost
      PROVE  Telling(q \o <<line>>, p.work, p.completed, p.sent, A)
  <2>1. Live /\ TellInv
    BY <1>2, <1>5 DEF TalkInv, KeptInv
  <2>3. Telling(q, m, proc[s].completed, proc[s].sent, A)
    BY <1>2, <1>3, <2>1 DEF TellInv
  <2> HIDE DEF line, p, m, q, A
  <2>5. Telling(q \o <<line>>, m, proc[s].completed, proc[s].sent, A)
    BY <1>3, <1>4, <2>3, TellingAppend
  <2> QED BY <1>3, <2>5
<1>9. /\ IsHistory(g) /\ g.slipped = h.slipped /\ g.lost = h.lost /\ g.settled = h.settled
      /\ g.asked = n
  BY <1>6 DEF IsHistory
<1>10. n \in Nat
  BY <1>1, OpenCodeAssumption DEF Asks
<1> HIDE DEF line, p, A, g
<1> QED BY <1>1, <1>3, <1>4, <1>5, <1>8, <1>9, <1>10, SaysTalks DEF A

LEMMA ServerForgetsTalks ==
  ASSUME IInv, TalkInv, NEW s \in Prompts, NEW a \in Requests, ServerForgets(s, a)
  PROVE  TalkInv'
<1> DEFINE m == proc[s].work
           open == proc[s].open \ {a}
           p == [proc[s] EXCEPT !.open = open]
           line == <<"replied", m, a[1]>>
           q == proc[s].pipe
           A == object[b.thread].assembling
<1>1. a \in proc[s].open /\ Says(s, p, h, <<line>>)
  BY DEF ServerForgets
<1>2. /\ s = b.server /\ Server = proc[s] /\ proc[s] \in Processes /\ Working(proc[s], Sent)
      /\ proc[s].alive /\ (~h.lost => Live)
  BY <1>1, WorkerPlace
<1>11. m # None /\ ~proc[s].completed
  BY <1>1, <1>2 DEF Working
<1>12. m \in Prompts
  BY <1>11, WorkIsSaid
<1>6. IsHistory(h) /\ h.asked \in Nat
  BY DEF IInv, Typed, HistoryTyped, TalkInv, PlainInv, LossInv
<1>7. open \in SUBSET Requests
  BY <1>1, <1>2 DEF Processes
<1>4. /\ line \in Lines /\ line[1] = "replied"
  BY <1>12 DEF Lines, Nobody, Requests
<1>8. ASSUME ~h.lost
      PROVE  Asking(q \o <<line>>, open, Pending, Hands, h.asked, proc[s].alive)
  <2>1. Live /\ AskInv
    BY <1>2, <1>8 DEF TalkInv, KeptInv
  <2>2. Asking(q, proc[s].open, Pending, Hands, h.asked, proc[s].alive)
    BY <1>2, <2>1 DEF AskInv
  <2>3. /\ proc[s].open \in SUBSET Requests /\ Pending \in SUBSET Requests
        /\ Hands \in SUBSET Requests /\ q \in Seq(Lines) /\ m \in Nobody
    BY <1>2, ServerTyped, HandsTyped DEF TalkInv, PlainInv
  <2> QED BY <1>1, <1>2, <1>6, <2>2, <2>3, RepliesNext
<1> HIDE DEF open
<1>3. /\ p \in Processes /\ p.pipe = q /\ p.inbox = proc[s].inbox /\ p.work = m
      /\ p.alive = proc[s].alive /\ p.answered = proc[s].answered /\ p.failed = proc[s].failed
      /\ p.open = open /\ p.completed = FALSE /\ p.sent = proc[s].sent
      /\ proc[s].completed = FALSE /\ q \in Seq(Lines)
  BY <1>2, <1>7, <1>11 DEF Processes
<1>5. ASSUME ~h.lost
      PROVE  Telling(q \o <<line>>, p.work, p.completed, p.sent, A)
  <2>1. Live /\ TellInv
    BY <1>2, <1>5 DEF TalkInv, KeptInv
  <2>3. Telling(q, m, proc[s].completed, proc[s].sent, A)
    BY <1>2, <1>3, <2>1 DEF TellInv
  <2> HIDE DEF line, p, m, q, A
  <2>5. Telling(q \o <<line>>, m, proc[s].completed, proc[s].sent, A)
    BY <1>3, <1>4, <2>3, TellingAppend
  <2> QED BY <1>3, <2>5
<1> HIDE DEF line, p, A
<1> QED BY <1>1, <1>3, <1>4, <1>5, <1>6, <1>8, <1>11, SaysTalks DEF A

\* It does something that it does not say.
LEMMA WorksTalks ==
  ASSUME IInv, TalkInv, NEW s \in Prompts, s = b.server, NEW q, proc' = [proc EXCEPT ![s] = q],
         q.pipe = proc[s].pipe, q.inbox \subseteq proc[s].inbox, Working(q, Sent), LossStays,
         UNCHANGED <<rec, b, object, call, run, stream, respond>>,
         ~h'.lost /\ Live => Asking(q.pipe, q.open, Pending, Hands, h.asked, q.alive),
         ~h'.lost /\ Live => Telling(q.pipe, q.work, q.completed, q.sent, object[b.thread].assembling),
         ~h'.lost /\ ~Live => q.work \in {None, proc[s].work}
  PROVE  TalkInv'
<1>1. PlaceInv /\ WorkInv /\ RespondTyped
  BY DEF TalkInv, PlainInv
<1>2. /\ Server' = q /\ Server = proc[s] /\ \A t \in Prompts : t # b.server => Idle(proc'[t])
      /\ WorkInv'
  BY <1>1, ProcSet
<1>3. RespondTyped' /\ Hands' = Hands /\ Pending' = Pending
  BY <1>1 DEF RespondTyped, Hands, Pending, Live
<1>4. /\ stream' # "closed" => b.server # None
      /\ stream' \in {"closed", "connecting"} => Server'.pipe = <<>>
  BY <1>1, <1>2 DEF PlaceInv
<1>5. LossInv' /\ (~h'.lost => ~h.lost /\ h'.asked = h.asked /\ \A e \in h'.settled : e[2] = Parts)
  BY DEF LossStays, TalkInv, KeptInv, TellInv
<1>6. \A m \in Prompts : Mentions(Server'.pipe, m) => Mentions(Server.pipe, m) \/ ~Unsaid(m)
  BY <1>2
<1>7. Server'.inbox \subseteq Server.inbox
  BY <1>2
<1>8. \A t, m \in Prompts : object'[t].assembling[m] \in {{}, object[t].assembling[m]} \/ ~Unsaid(m)
  OBVIOUS
<1>9. ~h'.lost /\ ~Live => /\ Server.pipe = <<>> => Server'.pipe = <<>>
                           /\ Hands' \subseteq Hands
                           /\ Server'.work \in {None, Server.work}
  BY <1>2, <1>3
<1>10. ~h'.lost /\ Live => Asking(Server'.pipe, Server'.open, Pending', Hands', h'.asked, Server'.alive)
  BY <1>2, <1>3, <1>5
<1>11. ~h'.lost /\ Live => Telling(Server'.pipe, Server'.work, Server'.completed, Server'.sent,
                                   object'[b.thread].assembling)
  BY <1>2
<1> QED BY <1>2, <1>3, <1>4, <1>5, <1>6, <1>7, <1>8, <1>9, <1>10, <1>11, TalksOn

LEMMA ServerTakesTalks ==
  ASSUME IInv, TalkInv, NEW s \in Prompts, NEW c \in Prompts, ServerTakes(s, c)
  PROVE  TalkInv'
<1> DEFINE inbox == proc[s].inbox \ {c}
           q == [proc[s] EXCEPT !.inbox = inbox, !.work = c, !.sent = {}, !.completed = FALSE]
<1>1. /\ c \in proc[s].inbox /\ proc[s].work = None /\ proc[s].alive
      /\ proc' = [proc EXCEPT ![s] = q] /\ UNCHANGED <<rec, b, object, call, run, stream, respond, h>>
  BY DEF ServerTakes
<1>2. /\ s = b.server /\ Server = proc[s] /\ proc[s] \in Processes /\ Working(proc[s], Sent)
      /\ (~h.lost => Live)
  BY <1>1, WorkerPlace
<1>3. c \notin inbox /\ inbox \subseteq proc[s].inbox
  OBVIOUS
<1> HIDE DEF inbox
<1>4. /\ q.pipe = proc[s].pipe /\ q.inbox = inbox /\ q.work = c /\ q.alive = proc[s].alive
      /\ q.answered = proc[s].answered /\ q.failed = proc[s].failed
      /\ q.open = proc[s].open /\ q.completed = FALSE /\ q.sent = {}
  BY <1>2 DEF Processes
<1> HIDE DEF q
<1>5. Working(q, Sent)
  BY <1>1, <1>2, <1>3, <1>4 DEF Working
<1>6. LossStays
  BY <1>1, LossSame DEF TalkInv, PlainInv
<1>7. ASSUME ~h'.lost
      PROVE  /\ Live /\ Asking(q.pipe, q.open, Pending, Hands, h.asked, q.alive)
             /\ Telling(q.pipe, q.work, q.completed, q.sent, object[b.thread].assembling)
  <2>1. Live /\ AskInv /\ TellInv
    BY <1>1, <1>2, <1>7 DEF TalkInv, KeptInv
  <2>2. Unsaid(c) /\ b.thread \in Prompts
    BY <1>1, <1>2, <2>1, LiveTyped DEF Unsaid
  <2>3. ~Mentions(proc[s].pipe, c) /\ object[b.thread].assembling[c] = {}
    BY <1>2, <2>2 DEF TalkInv, PlainInv, FreshInv
  <2>4. Telling(proc[s].pipe, proc[s].work, proc[s].completed, proc[s].sent, object[b.thread].assembling)
    BY <1>2, <2>1 DEF TellInv
  <2>5. Telling(proc[s].pipe, c, FALSE, {}, object[b.thread].assembling)
    BY <2>3, <2>4, StartsNext
  <2> QED BY <1>2, <1>4, <2>1, <2>5 DEF AskInv
<1> QED BY <1>1, <1>2, <1>3, <1>4, <1>5, <1>6, <1>7, WorksTalks

\* What was asked is answered, or dropped with the loss noted.
LEMMA StopsTalks ==
  ASSUME IInv, TalkInv, NEW s \in Prompts, s = b.server, NEW q, proc' = [proc EXCEPT ![s] = q],
         q.pipe = proc[s].pipe, q.inbox = proc[s].inbox, q.work = None, q.alive = proc[s].alive,
         Working(q, Sent), LossStays, UNCHANGED <<rec, b, object, call, run, stream, respond>>,
         ~h'.lost => q.open = proc[s].open
  PROVE  TalkInv'
<1>1. Server = proc[s]
  BY NoneIsNoPrompt DEF Server
<1>2. ASSUME ~h'.lost, Live
      PROVE  /\ Asking(q.pipe, q.open, Pending, Hands, h.asked, q.alive)
             /\ Telling(q.pipe, q.work, q.completed, q.sent, object[b.thread].assembling)
  <2>1. AskInv /\ TellInv
    BY <1>2 DEF TalkInv, KeptInv, LossStays
  <2>2. Telling(proc[s].pipe, proc[s].work, proc[s].completed, proc[s].sent, object[b.thread].assembling)
    BY <1>1, <1>2, <2>1 DEF TellInv
  <2>3. Telling(proc[s].pipe, None, q.completed, q.sent, object[b.thread].assembling)
    BY <2>2, StopsNext
  <2> QED BY <1>1, <1>2, <2>1, <2>3 DEF AskInv
<1> QED BY <1>2, WorksTalks

LEMMA ServerAnswersTalks ==
  ASSUME IInv, TalkInv, NEW s \in Prompts, ServerAnswers(s)
  PROVE  TalkInv'
<1> DEFINE m == proc[s].work
           q == [proc[s] EXCEPT !.work = None, !.answered = proc[s].answered \cup {m}]
<1>1. /\ m # None /\ proc[s].completed /\ proc[s].alive /\ proc' = [proc EXCEPT ![s] = q]
      /\ UNCHANGED <<rec, b, object, call, run, stream, respond, h>>
  BY DEF ServerAnswers
<1>2. s = b.server /\ proc[s] \in Processes /\ Working(proc[s], Sent)
  BY <1>1, WorkerPlace
<1>3. m \in Prompts /\ m \in Sent
  BY <1>1, WorkIsSaid
<1>4. /\ q.pipe = proc[s].pipe /\ q.inbox = proc[s].inbox /\ q.work = None /\ q.alive = proc[s].alive
      /\ q.answered = proc[s].answered \cup {m} /\ q.failed = proc[s].failed
      /\ q.open = proc[s].open /\ q.completed = proc[s].completed
  BY <1>2 DEF Processes
<1> HIDE DEF q
<1>5. proc[s].open = {}
  BY <1>1, <1>2 DEF Working
<1>6. Working(q, Sent)
  BY <1>1, <1>2, <1>3, <1>4, <1>5, NoneIsNoPrompt DEF Working, Processes
<1>7. LossStays
  BY <1>1, LossSame DEF TalkInv, PlainInv
<1> QED BY <1>1, <1>2, <1>4, <1>6, <1>7, StopsTalks

LEMMA ServerGivesUpTalks ==
  ASSUME IInv, TalkInv, NEW s \in Prompts, ServerGivesUp(s)
  PROVE  TalkInv'
<1> DEFINE m == proc[s].work
           q == [proc[s] EXCEPT !.work = None, !.failed = proc[s].failed \cup {m}, !.open = {}]
           dropped == proc[s].open # {}
<1>1. /\ m # None /\ proc[s].alive /\ proc' = [proc EXCEPT ![s] = q]
      /\ Note([h EXCEPT !.lost = h.lost \/ dropped], FALSE)
      /\ UNCHANGED <<rec, b, object, call, run, stream, respond>>
  BY DEF ServerGivesUp
<1>2. s = b.server /\ proc[s] \in Processes /\ Working(proc[s], Sent)
  BY <1>1, WorkerPlace
<1>3. m \in Prompts /\ m \in Sent
  BY <1>1, WorkIsSaid
<1>4. /\ q.pipe = proc[s].pipe /\ q.inbox = proc[s].inbox /\ q.work = None /\ q.alive = proc[s].alive
      /\ q.answered = proc[s].answered /\ q.failed = proc[s].failed \cup {m} /\ q.open = {}
  BY <1>2 DEF Processes
<1>5. dropped \in BOOLEAN
  OBVIOUS
<1> HIDE DEF q
<1>6. Working(q, Sent)
  BY <1>1, <1>2, <1>3, <1>4, NoneIsNoPrompt DEF Working, Processes
<1>7. LossStays /\ (~h'.lost => ~dropped)
  <2> HIDE DEF dropped
  <2> QED BY <1>1, <1>5, LostNoted DEF TalkInv, PlainInv
<1> QED BY <1>1, <1>2, <1>4, <1>6, <1>7, StopsTalks

LEMMA KilledFields ==
  ASSUME NEW s
  PROVE  LET q == [NoProcess EXCEPT !.pipe = proc[s].pipe] IN
         /\ q.inbox = {} /\ q.work = None /\ q.answered = {} /\ q.failed = {} /\ q.open = {}
         /\ q.pipe = proc[s].pipe /\ q.alive = FALSE
         /\ Working(q, Sent)
BY NoneIsNoPrompt DEF NoProcess, Working

\* Another process than the stored one, or none.
LEMMA ElsewhereTalks ==
  ASSUME IInv, TalkInv, NEW s \in Prompts, s # b.server, NEW q, Idle(q), Working(q, Sent),
         proc' = [proc EXCEPT ![s] = q], b'.server = b.server, b'.thread = b.thread,
         b'.bySession = b.bySession, CallStays, NatStays, UNCHANGED <<rec, object, run, stream, respond, h>>
  PROVE  TalkInv'
<1>1. proc'[s] = q /\ \A t \in Prompts \ {s} : proc'[t] = proc[t]
  BY DEF IInv, Typed, ProcessesTyped
<1>2. Server' = Server
  BY <1>1, ServerTyped DEF Server
<1>3. PlaceInv /\ WorkInv /\ LossInv /\ RespondTyped /\ FreshInv
  BY DEF TalkInv, PlainInv
<1>4. BackendStays /\ PartsStay /\ LossStays /\ Hands' = Hands /\ Sent' = Sent /\ Live' = Live
  BY <1>3, PartsSame, LossSame DEF BackendStays, Hands, Sent, Live
<1>5. RespondTyped' /\ LossInv'
  BY <1>3 DEF RespondTyped, LossInv
<1>6. PlaceInv'
  BY <1>1, <1>2, <1>3, <1>4 DEF PlaceInv, CallStays
<1>7. WorkInv'
  BY <1>1, <1>3, <1>4 DEF WorkInv
<1>8. FreshInv'
  <2>1. \A m \in Prompts : Mentions(Server'.pipe, m) => Mentions(Server.pipe, m) \/ ~Unsaid(m)
    BY <1>2
  <2>2. \A t, m \in Prompts : object'[t].assembling[m] \in {{}, object[t].assembling[m]} \/ ~Unsaid(m)
    OBVIOUS
  <2> QED BY <1>2, <1>3, <2>1, <2>2, FreshStays
<1>9. KeptInv'
  <2> SUFFICES ASSUME ~h'.lost PROVE (SessionInv /\ AskInv /\ TellInv)'
    BY DEF KeptInv
  <2>1. SessionInv /\ AskInv /\ TellInv
    BY DEF TalkInv, KeptInv
  <2> QED BY <1>2, <1>4, <2>1, SessionStays, AskStays, TellStays
<1> QED BY <1>5, <1>6, <1>7, <1>8, <1>9 DEF TalkInv, PlainInv

LEMMA ServerDiesTalks ==
  ASSUME IInv, TalkInv, NEW s \in Prompts, ServerDies(s)
  PROVE  TalkInv'
<1> DEFINE q == [NoProcess EXCEPT !.pipe = proc[s].pipe]
<1>1. proc' = [proc EXCEPT ![s] = q] /\ UNCHANGED <<rec, b, object, call, run, stream, respond, h>>
  BY DEF ServerDies, Killed
<1>2. /\ q.inbox = {} /\ q.work = None /\ q.answered = {} /\ q.failed = {} /\ q.open = {}
      /\ q.pipe = proc[s].pipe /\ q.alive = FALSE /\ Working(q, Sent)
  BY KilledFields
<1> HIDE DEF q
<1>3. PlaceInv /\ LossInv
  BY DEF TalkInv, PlainInv
<1>4. CASE s # b.server
  <2>1. Idle(q)
    BY <1>2, <1>3, <1>4 DEF PlaceInv, Idle
  <2> QED BY <1>1, <1>2, <1>3, <1>4, <2>1, StepsSame, ElsewhereTalks
<1>5. CASE s = b.server
  <2>1. Server = proc[s] /\ LossStays
    BY <1>1, <1>3, <1>5, NoneIsNoPrompt, LossSame DEF Server
  <2>2. ASSUME ~h'.lost, Live
        PROVE  /\ Asking(q.pipe, q.open, Pending, Hands, h.asked, q.alive)
               /\ Telling(q.pipe, q.work, q.completed, q.sent, object[b.thread].assembling)
    <3>1. AskInv /\ TellInv
      BY <1>1, <2>2 DEF TalkInv, KeptInv
    <3>2. Telling(proc[s].pipe, proc[s].work, proc[s].completed, proc[s].sent, object[b.thread].assembling)
      BY <2>1, <2>2, <3>1 DEF TellInv
    <3>3. Telling(proc[s].pipe, None, q.completed, q.sent, object[b.thread].assembling)
      BY <3>2, StopsNext
    <3>4. Asking(proc[s].pipe, {}, Pending, Hands, h.asked, FALSE)
      BY <2>1, <2>2, <3>1, DiesNext DEF AskInv
    <3> QED BY <1>2, <3>3, <3>4
  <2> QED BY <1>1, <1>2, <1>5, <2>1, <2>2, WorksTalks
<1> QED BY <1>4, <1>5

-----------------------------------------------------------------------------
(* The prompts: a server, a session, a turn.                               *)

LEMMA spawnTalks ==
  ASSUME IInv, TalkInv, NEW c \in Prompts, spawn(c)
  PROVE  TalkInv'
<1> DEFINE q == [proc[c] EXCEPT !.alive = TRUE]
<1>1. /\ call[c].pc = "lock" /\ b.server = None /\ Goto(c, "spawning")
      /\ b' = [b EXCEPT !.starting = c] /\ proc' = [proc EXCEPT ![c] = q]
      /\ UNCHANGED <<rec, object, run, stream, respond, h>>
  BY DEF spawn
<1>2. PlaceInv /\ c # b.server /\ proc[c] \in Processes
  BY <1>1, NoneIsNoPrompt DEF TalkInv, PlainInv, IInv, Typed, ProcessesTyped
<1>3. /\ q.inbox = proc[c].inbox /\ q.work = proc[c].work /\ q.answered = proc[c].answered
      /\ q.failed = proc[c].failed /\ q.open = proc[c].open /\ q.pipe = proc[c].pipe
  BY <1>2 DEF Processes
<1> HIDE DEF q
<1>4. Idle(q)
  BY <1>2, <1>3 DEF PlaceInv, Idle
<1>5. Working(q, Sent)
  BY <1>4, NoneIsNoPrompt DEF Idle, Working
<1>6. b'.server = b.server /\ b'.thread = b.thread /\ b'.bySession = b.bySession
  BY <1>1 DEF IInv, Typed, BackendTyped
<1>7. CallStays /\ NatStays
  BY <1>1, <1>2, <1>6, GotoSteps DEF PromptSteps
<1> QED BY <1>1, <1>2, <1>4, <1>5, <1>6, <1>7, ElsewhereTalks

LEMMA SpawnFailsTalks ==
  ASSUME IInv, TalkInv, NEW c \in Prompts, SpawnFails(c)
  PROVE  TalkInv'
<1> DEFINE q == [NoProcess EXCEPT !.pipe = proc[c].pipe]
<1>1. /\ call[c].pc = "spawning" /\ Goto(c, "failed") /\ proc' = [proc EXCEPT ![c] = q]
      /\ b' = [b EXCEPT !.starting = None] /\ UNCHANGED <<rec, object, run, stream, respond, h>>
  BY DEF SpawnFails, Killed
<1>2. /\ q.inbox = {} /\ q.work = None /\ q.answered = {} /\ q.failed = {} /\ q.open = {}
      /\ q.pipe = proc[c].pipe /\ Working(q, Sent)
  BY KilledFields
<1> HIDE DEF q
<1>3. PlaceInv /\ c # b.server
  BY <1>1, NoneIsNoPrompt DEF TalkInv, PlainInv, IInv, ServerInv
<1>4. Idle(q)
  BY <1>2, <1>3 DEF PlaceInv, Idle
<1>5. b'.server = b.server /\ b'.thread = b.thread /\ b'.bySession = b.bySession
  BY <1>1 DEF IInv, Typed, BackendTyped
<1>6. CallStays /\ NatStays
  BY <1>1, <1>3, <1>5, GotoSteps DEF PromptSteps
<1> QED BY <1>1, <1>2, <1>3, <1>4, <1>5, <1>6, ElsewhereTalks

\* The server is stored, with nothing done and nothing said.
LEMMA ListeningTalks ==
  ASSUME IInv, TalkInv, NEW c \in Prompts, Listening(c)
  PROVE  TalkInv'
<1> DEFINE q == [call[c] EXCEPT !.pc = "open"]
<1>1. /\ call[c].pc = "spawning" /\ call' = [call EXCEPT ![c] = q]
      /\ b' = [b EXCEPT !.server = c, !.starting = None] /\ stream' = "connecting"
      /\ UNCHANGED <<rec, object, run, proc, respond, h>>
  BY DEF Listening, Goto
<1>2. PlaceInv /\ WorkInv /\ FreshInv /\ LossInv /\ RespondTyped /\ b.server = None
  BY <1>1, NoneIsNoPrompt DEF TalkInv, PlainInv, IInv, ServerInv
<1>3. q.pc = "open" /\ q.nat = call[c].nat
  BY DEF IInv, Typed, CallsTyped, Calls
<1> HIDE DEF q
<1>4. call'[c] = q /\ \A d \in Prompts \ {c} : call'[d] = call[d]
  BY <1>1 DEF IInv, Typed, CallsTyped
<1>5. b'.server = c /\ b'.thread = b.thread /\ b'.bySession = b.bySession
  BY <1>1 DEF IInv, Typed, BackendTyped
<1>6. CallStays
  BY <1>1, <1>3, <1>4, <1>5, NoneIsNoPrompt DEF CallStays
<1>7. \A s \in Prompts : Idle(proc[s])
  BY <1>2, NoneIsNoPrompt DEF PlaceInv
<1>8. Server' = proc[c] /\ Idle(proc[c]) /\ ~Live /\ Live' = Live /\ Hands' = Hands
  BY <1>1, <1>2, <1>5, <1>7, NoneIsNoPrompt DEF Server, PlaceInv, Live, Hands
<1>9. RespondTyped' /\ LossInv' /\ WorkInv'
  BY <1>1, <1>2 DEF RespondTyped, LossInv, WorkInv, Sent
<1>10. PlaceInv'
  BY <1>1, <1>5, <1>6, <1>7, <1>8, NoneIsNoPrompt DEF PlaceInv, CallStays, Idle
<1>11. FreshInv'
  <2>1. \A m \in Prompts : ~Mentions(Server'.pipe, m)
    BY <1>8 DEF Idle, Mentions
  <2>2. Server'.inbox \subseteq Server.inbox
    BY <1>8 DEF Idle
  <2>3. \A t, m \in Prompts : object'[t].assembling[m] \in {{}, object[t].assembling[m]} \/ ~Unsaid(m)
    BY <1>1
  <2> QED BY <1>2, <1>6, <2>1, <2>2, <2>3, FreshStays
<1>12. KeptInv'
  <2> SUFFICES ASSUME ~h'.lost PROVE (SessionInv /\ AskInv /\ TellInv)'
    BY DEF KeptInv
  <2>1. SessionInv /\ TellInv
    BY <1>1 DEF TalkInv, KeptInv
  <2>2. \A d \in Prompts : /\ call'[d].nat \in {None, rec'.native}
                           /\ call'[d].pc \in {"claim", "claimed"} => call'[d].nat # None
    BY <1>1, <1>3, <1>4, <2>1 DEF SessionInv
  <2>3. SessionInv'
    BY <1>1, <1>8, <2>1, <2>2 DEF SessionInv, Idle
  <2>4. AskInv' /\ TellInv'
    BY <1>1, <1>8, <2>1 DEF AskInv, TellInv
  <2> QED BY <2>3, <2>4
<1> QED BY <1>9, <1>10, <1>11, <1>12 DEF TalkInv, PlainInv

\* The first session of a thread finds a server that has nothing to do for it.
LEMMA openSessionTalks ==
  ASSUME IInv, TalkInv, NEW c \in Prompts, openSession(c)
  PROVE  TalkInv'
<1> DEFINE n == IF call[c].nat = None THEN c ELSE call[c].nat
           q == [pc |-> "claim", nat |-> n]
           mishap == Live \/ ~rec.live
<1>1. call[c].pc = "open" /\ UNCHANGED <<run, proc, stream, respond>>
  BY DEF openSession
<1>2. PlaceInv /\ WorkInv /\ FreshInv /\ LossInv /\ RespondTyped /\ b.server # None
  BY <1>1 DEF TalkInv, PlainInv, PlaceInv
<1>3. CASE Goto(c, "failed") /\ UNCHANGED <<rec, b, object, h>>
  BY <1>1, <1>3, WaitingTalks
<1>4. CASE call' = [call EXCEPT ![c] = q] /\ ~(Goto(c, "failed") /\ UNCHANGED <<rec, b, object, h>>)
  <2>1. n \in Prompts /\ q \in Calls /\ q.pc = "claim" /\ q.nat = n
    BY DEF IInv, Typed, CallsTyped, Calls, PromptSteps, Nobody
  <2>2. call[c].nat # None => n = call[c].nat
    OBVIOUS
  <2>3. call[c].nat = None => n = c
    OBVIOUS
  <2> HIDE DEF q, n
  <2>4. CASE UNCHANGED <<rec, b, object, h>> /\ call[c].nat # None
    <3>1. CallStays /\ NatStays
      BY <1>1, <1>2, <1>4, <2>1, <2>2, <2>4, CallSteps
    <3>2. BackendStays /\ PartsStay /\ LossStays /\ Sent' = Sent
      BY <1>1, <1>2, <2>4, PartsSame, LossSame DEF BackendStays, Sent
    <3> QED BY <1>1, <1>2, <2>4, <3>1, <3>2, PlaceStream, QuietKeeps
  <2>5. CASE /\ rec' = IF rec.live THEN [rec EXCEPT !.native = n] ELSE rec
             /\ b' = [b EXCEPT !.thread = c, !.bySession = b.bySession \cup {n}]
             /\ object' = [object EXCEPT ![c] = newThread]
             /\ Note(h, mishap)
    <3>1. call'[c] = q /\ \A d \in Prompts \ {c} : call'[d] = call[d]
      BY <1>4 DEF IInv, Typed, CallsTyped
    <3>2. /\ b'.server = b.server /\ b'.thread = c /\ b'.bySession = b.bySession \cup {n}
          /\ Live'
      BY <2>1, <2>5, NoneIsNoPrompt DEF IInv, Typed, BackendTyped, Live
    <3>3. /\ newThread.pending = {} /\ \A m \in Prompts : newThread.assembling[m] = {}
      BY DEF newThread
    <3>4. object'[c] = newThread /\ \A t \in Prompts \ {c} : object'[t] = object[t]
      BY <2>5 DEF IInv, Typed, ObjectsTyped
    <3>5. mishap \in BOOLEAN
      BY DEF Live, IInv, Typed, RowTyped
    <3>6. LossStays /\ (~h'.lost => ~Live /\ rec.live)
      <4>1. LossStays /\ (~h'.lost => ~mishap)
        <5> HIDE DEF mishap
        <5> QED BY <1>2, <2>5, <3>5, MishapLoss
      <4> QED BY <4>1
    <3>7. CallStays
      BY <1>1, <1>2, <2>1, <3>1, <3>2 DEF CallStays, PlaceInv
    <3>8. Server' = Server /\ Hands' = Hands /\ Sent' = Sent
      BY <1>1, <3>2 DEF Server, Hands, Sent
    <3>9. PlaceInv'
      BY <1>1, <1>2, <2>1, <3>2, <3>7, <3>8 DEF PlaceInv, CallStays
    <3>10. RespondTyped' /\ LossInv' /\ WorkInv'
      BY <1>1, <1>2, <3>6, <3>8 DEF RespondTyped, LossStays, WorkInv
    <3>11. FreshInv'
      <4>1. Server'.inbox \subseteq Server.inbox
            /\ \A m \in Prompts : Mentions(Server'.pipe, m) => Mentions(Server.pipe, m) \/ ~Unsaid(m)
        BY <3>8
      <4>2. \A t, m \in Prompts : object'[t].assembling[m] \in {{}, object[t].assembling[m]} \/ ~Unsaid(m)
        BY <3>3, <3>4
      <4> QED BY <1>2, <3>7, <4>1, <4>2, FreshStays
    <3>12. KeptInv'
      <4> SUFFICES ASSUME ~h'.lost PROVE (SessionInv /\ AskInv /\ TellInv)'
        BY DEF KeptInv
      <4>1. /\ ~h.lost /\ ~Live /\ rec.live /\ SessionInv /\ TellInv
            /\ h'.asked = h.asked /\ h'.settled = h.settled
        BY <3>6 DEF LossStays, TalkInv, KeptInv
      <4>2. rec.native = None /\ Server.pipe = <<>> /\ Hands = {}
        BY <4>1 DEF SessionInv
      <4>3. rec'.live /\ rec'.native = n
        BY <2>5, <4>1 DEF IInv, Typed, RowTyped
      <4>4. \A d \in Prompts : call[d].nat = None
        BY <4>1, <4>2 DEF SessionInv
      <4>5. \A d \in Prompts : /\ call'[d].nat \in {None, n}
                               /\ call'[d].pc \in {"claim", "claimed"} => call'[d].nat # None
        BY <2>1, <3>1, <4>1, <4>4, NoneIsNoPrompt DEF SessionInv
      <4>6. SessionInv'
        BY <2>1, <3>2, <4>3, <4>5, NoneIsNoPrompt DEF SessionInv
      <4>7. Server.work = None /\ Server.open = {}
        <5>1. b.server \in Prompts /\ Server = proc[b.server]
          BY <1>2, ServerTyped
        <5> QED BY <4>1, <5>1, WorkerPlace
      <4>8. Pending' = {}
        BY <3>2, <3>3, <3>4 DEF Pending
      <4>9. AskInv'
        BY <3>8, <4>2, <4>7, <4>8, NothingSaid DEF AskInv
      <4>10. TellInv'
        BY <3>8, <4>1, <4>2, <4>7, NothingSaid DEF TellInv
      <4> QED BY <4>6, <4>9, <4>10
    <3> QED BY <3>9, <3>10, <3>11, <3>12 DEF TalkInv, PlainInv
  <2> QED BY <1>4, <2>4, <2>5 DEF openSession, q, n
<1> QED BY <1>3, <1>4 DEF openSession

\* The message is posted: nothing was known of it.
LEMMA PromptReturnsTalks ==
  ASSUME IInv, TalkInv, NEW c \in Prompts, PromptReturns(c)
  PROVE  TalkInv'
<1> DEFINE s == b.server
           q == [NoCall EXCEPT !.pc = "returned"]
           r == [run[c] EXCEPT !.pc = "sent"]
           failed == [proc[s] EXCEPT !.failed = proc[s].failed \cup {c}]
           posted == [proc[s] EXCEPT !.inbox = proc[s].inbox \cup {c}]
<1>1. /\ call[c].pc = "claimed" /\ call' = [call EXCEPT ![c] = q] /\ run' = [run EXCEPT ![c] = r]
      /\ setState("running") /\ Post(c) /\ UNCHANGED <<rec, b, stream, respond, h>>
  BY DEF PromptReturns
<1>2. PlaceInv /\ WorkInv /\ FreshInv /\ LossInv /\ RespondTyped
  BY DEF TalkInv, PlainInv
<1>3. s \in Prompts /\ Server = proc[s] /\ proc[s] \in Processes
  BY <1>1, <1>2, ServerTyped DEF PlaceInv, IInv, Typed, ProcessesTyped
<1>4. q.pc = "returned" /\ q.nat = None /\ r.pc = "sent"
  BY DEF NoCall, IInv, Typed, RunsTyped, Runs
<1>5. /\ posted.inbox = proc[s].inbox \cup {c} /\ posted.failed = proc[s].failed
      /\ posted.work = proc[s].work /\ posted.answered = proc[s].answered
      /\ posted.open = proc[s].open /\ posted.pipe = proc[s].pipe /\ posted.alive = proc[s].alive
      /\ posted.completed = proc[s].completed /\ posted.sent = proc[s].sent
  BY <1>3 DEF Processes
<1>6. /\ failed.inbox = proc[s].inbox /\ failed.failed = proc[s].failed \cup {c}
      /\ failed.work = proc[s].work /\ failed.answered = proc[s].answered
      /\ failed.open = proc[s].open /\ failed.pipe = proc[s].pipe /\ failed.alive = proc[s].alive
      /\ failed.completed = proc[s].completed /\ failed.sent = proc[s].sent
  BY <1>3 DEF Processes
<1>7. \/ UNCHANGED proc
      \/ proc' = [proc EXCEPT ![s] = failed]
      \/ proc[s].alive /\ ~IsDeleted(call[c].nat) /\ proc' = [proc EXCEPT ![s] = posted]
  <2>1. CASE ~Server.alive
    BY <1>1, <2>1 DEF Post
  <2>2. CASE Server.alive /\ IsDeleted(call[c].nat)
    BY <1>1, <2>2 DEF Post
  <2>3. CASE Server.alive /\ ~IsDeleted(call[c].nat)
    BY <1>1, <1>3, <2>3 DEF Post
  <2> QED BY <2>1, <2>2, <2>3
<1> HIDE DEF q, r, posted, failed
<1>8. call'[c] = q /\ \A d \in Prompts \ {c} : call'[d] = call[d]
  BY <1>1 DEF IInv, Typed, CallsTyped
<1>9. Sent' = Sent \cup {c} /\ c \notin Sent
  BY <1>1, <1>4 DEF Sent, IInv, TurnInv, RunInv, Typed, RunsTyped
<1>10. Working(proc[s], Sent)
  BY <1>2, <1>3 DEF WorkInv
<1>11. /\ \A t \in Prompts \ {s} : proc'[t] = proc[t]
       /\ \/ proc'[s] = proc[s] \/ proc'[s] = failed
          \/ proc[s].alive /\ ~IsDeleted(call[c].nat) /\ proc'[s] = posted
  BY <1>3, <1>7 DEF IInv, Typed, ProcessesTyped
<1>12. Server' = proc'[s]
  BY <1>1, <1>3, NoneIsNoPrompt DEF Server
<1>13. /\ Server'.pipe = Server.pipe /\ Server'.open = Server.open /\ Server'.alive = Server.alive
       /\ Server'.work = Server.work /\ Server'.completed = Server.completed /\ Server'.sent = Server.sent
       /\ \/ Server'.inbox = Server.inbox
          \/ Server'.inbox = Server.inbox \cup {c} /\ ~IsDeleted(call[c].nat)
  BY <1>3, <1>5, <1>6, <1>11, <1>12
<1>14. BackendStays /\ PartsStay /\ LossStays /\ Hands' = Hands /\ Live' = Live
  BY <1>1, <1>2, SetStateParts, LossSame DEF BackendStays, Hands, Live, RowStates
<1>15. WorkInv'
  <2>1. Working(proc'[s], Sent')
    <3>1. c \notin proc[s].inbox /\ c # proc[s].work /\ c \notin proc[s].answered /\ c \notin proc[s].failed
      BY <1>9, <1>10 DEF Working
    <3>2. CASE proc'[s] = proc[s]
      BY <1>9, <1>10, <3>2 DEF Working
    <3>3. CASE proc'[s] = failed
      BY <1>6, <1>9, <1>10, <3>1, <3>3 DEF Working
    <3>4. CASE proc[s].alive /\ proc'[s] = posted
      BY <1>5, <1>9, <1>10, <3>1, <3>4, NoneIsNoPrompt DEF Working
    <3> QED BY <1>11, <3>2, <3>3, <3>4
  <2>2. ASSUME NEW t \in Prompts \ {s} PROVE Working(proc'[t], Sent')
    BY <1>2, <1>9, <1>11 DEF WorkInv, Working
  <2> QED BY <2>1, <2>2 DEF WorkInv
<1>16. PlaceInv'
  BY <1>1, <1>2, <1>4, <1>8, <1>11, <1>13, <1>14 DEF PlaceInv
<1>17. FreshInv'
  <2> SUFFICES ASSUME NEW m \in Prompts, Unsaid(m)'
               PROVE  (~Mentions(Server.pipe, m) /\ \A t \in Prompts : object[t].assembling[m] = {})'
    BY DEF FreshInv
  <2>1. Unsaid(m)
    BY <1>1, <1>8, <1>13 DEF Unsaid
  <2> QED BY <1>2, <1>13, <1>14, <2>1 DEF FreshInv, PartsStay
<1>18. RespondTyped' /\ LossInv'
  BY <1>1, <1>2, <1>14 DEF RespondTyped, LossStays
<1>19. KeptInv'
  <2> SUFFICES ASSUME ~h'.lost PROVE (SessionInv /\ AskInv /\ TellInv)'
    BY DEF KeptInv
  <2>1. SessionInv /\ AskInv /\ TellInv /\ h'.asked = h.asked /\ h'.settled = h.settled
    BY <1>1 DEF TalkInv, KeptInv
  <2>2. ~rec.live => Server'.inbox = {}
    BY <1>1, <1>13, <2>1 DEF SessionInv, IsDeleted
  <2>3. \A d \in Prompts : /\ call'[d].nat \in {None, rec'.native}
                           /\ call'[d].pc \in {"claim", "claimed"} => call'[d].nat # None
    BY <1>1, <1>4, <1>8, <2>1 DEF SessionInv
  <2>4. SessionInv'
    BY <1>1, <1>13, <1>14, <2>1, <2>2, <2>3 DEF SessionInv
  <2> QED BY <1>13, <1>14, <2>1, <2>4, AskStays, TellStays
<1> QED BY <1>15, <1>16, <1>17, <1>18, <1>19 DEF TalkInv, PlainInv

\* The request has its answer: the server is done with it.
LEMMA TurnAnsweredTalks ==
  ASSUME IInv, TalkInv, NEW c \in Prompts, TurnAnswered(c)
  PROVE  TalkInv'
<1> DEFINE q(s) == [proc[s] EXCEPT !.answered = proc[s].answered \ {c}, !.failed = proc[s].failed \ {c}]
<1>1. /\ run[c].pc = "sent" /\ (c \in Server.answered \/ c \in Server.failed \/ ~Server.alive)
      /\ proc' = [s \in Prompts |-> q(s)] /\ UNCHANGED <<rec, b, call, stream, respond>>
  BY DEF TurnAnswered
<1>2. PlaceInv /\ WorkInv /\ FreshInv /\ LossInv /\ RespondTyped
  BY DEF TalkInv, PlainInv
<1>3. PartsStay /\ LossStays /\ Sent' = Sent \ {c}
  <2>1. CASE Live
    <3> DEFINE t == b.thread
               o == [object[t] EXCEPT !.turn = None, !.interrupted = None]
               r == [pc |-> "closing", t |-> t, id |-> Turn, mark |-> object[t].interrupted,
                     ok |-> c \in Server.answered]
               mishap == Turn # c
    <3>1. t \in Prompts /\ object[t] \in Objects
      BY <2>1, LiveTyped
    <3>2. object' = [object EXCEPT ![t] = o] /\ run' = [run EXCEPT ![c] = r] /\ Note(h, mishap)
      BY <2>1, <3>1 DEF TurnAnswered, IInv, Typed, ObjectsTyped
    <3>3. o.pending = object[t].pending /\ o.assembling = object[t].assembling
      BY <3>1 DEF Objects
    <3>4. mishap \in BOOLEAN /\ r.pc = "closing"
      OBVIOUS
    <3> HIDE DEF o, r, mishap, t
    <3>5. PartsStay
      BY <3>2, <3>3, PartsSet
    <3>6. LossStays
      BY <1>2, <3>2, <3>4, MishapLoss
    <3>7. Sent' = Sent \ {c}
      BY <3>2, <3>4 DEF Sent, IInv, Typed, RunsTyped
    <3> QED BY <3>5, <3>6, <3>7
  <2>2. CASE ~Live
    <3> DEFINE r == [run[c] EXCEPT !.pc = "gone"]
    <3>1. run' = [run EXCEPT ![c] = r] /\ UNCHANGED <<object, h>>
      BY <2>2 DEF TurnAnswered
    <3>2. r.pc = "gone"
      BY DEF IInv, Typed, RunsTyped, Runs
    <3> HIDE DEF r
    <3>3. Sent' = Sent \ {c}
      BY <3>1, <3>2 DEF Sent, IInv, Typed, RunsTyped
    <3> QED BY <1>2, <3>1, <3>3, PartsSame, LossSame
  <2> QED BY <2>1, <2>2
<1>4. ASSUME NEW s \in Prompts
      PROVE  /\ proc'[s].answered = proc[s].answered \ {c} /\ proc'[s].failed = proc[s].failed \ {c}
             /\ proc'[s].inbox = proc[s].inbox /\ proc'[s].work = proc[s].work
             /\ proc'[s].open = proc[s].open /\ proc'[s].pipe = proc[s].pipe
             /\ proc'[s].alive = proc[s].alive /\ proc'[s].completed = proc[s].completed
             /\ proc'[s].sent = proc[s].sent
  <2>1. proc[s] \in Processes
    BY DEF IInv, Typed, ProcessesTyped
  <2>2. proc'[s] = q(s)
    BY <1>1
  <2> QED BY <2>1, <2>2 DEF Processes
<1> HIDE DEF q
<1>5. ASSUME NEW s \in Prompts PROVE c \notin proc[s].inbox /\ c # proc[s].work
  <2>1. CASE s = b.server
    <3>1. Server = proc[s] /\ Working(proc[s], Sent) /\ proc[s] \in Processes
      BY <1>2, <2>1, NoneIsNoPrompt DEF Server, WorkInv, IInv, Typed, ProcessesTyped
    <3> QED BY <1>1, <3>1, NoneIsNoPrompt DEF Working
  <2>2. CASE s # b.server
    BY <1>2, <2>2, NoneIsNoPrompt DEF PlaceInv, Idle
  <2> QED BY <2>1, <2>2
<1>6. WorkInv'
  <2> SUFFICES ASSUME NEW s \in Prompts PROVE Working(proc'[s], Sent')
    BY DEF WorkInv
  <2>1. Working(proc[s], Sent)
    BY <1>2 DEF WorkInv
  <2> QED BY <1>3, <1>4, <1>5, <2>1 DEF Working
<1>7. /\ Server'.pipe = Server.pipe /\ Server'.open = Server.open /\ Server'.alive = Server.alive
      /\ Server'.work = Server.work /\ Server'.completed = Server.completed /\ Server'.sent = Server.sent
      /\ Server'.inbox = Server.inbox
  BY <1>1, <1>4, ServerTyped DEF Server
<1>8. BackendStays /\ CallStays /\ NatStays /\ Hands' = Hands /\ Live' = Live
  BY <1>1, <1>2, StepsSame DEF BackendStays, Hands, Live
<1>9. PlaceInv'
  <2>1. \A s \in Prompts : s # b'.server => Idle(proc'[s])
    BY <1>2, <1>4, <1>8 DEF PlaceInv, Idle, BackendStays
  <2> QED BY <1>1, <1>2, <1>7, <1>8, <2>1 DEF PlaceInv
<1>10. FreshInv'
  <2>1. Server'.inbox \subseteq Server.inbox
        /\ \A m \in Prompts : Mentions(Server'.pipe, m) => Mentions(Server.pipe, m) \/ ~Unsaid(m)
    BY <1>7
  <2>2. \A t, m \in Prompts : object'[t].assembling[m] \in {{}, object[t].assembling[m]} \/ ~Unsaid(m)
    BY <1>3 DEF PartsStay
  <2> QED BY <1>2, <1>8, <2>1, <2>2, FreshStays
<1>11. RespondTyped' /\ LossInv'
  BY <1>1, <1>2, <1>3 DEF RespondTyped, LossStays
<1>12. KeptInv'
  <2> SUFFICES ASSUME ~h'.lost PROVE (SessionInv /\ AskInv /\ TellInv)'
    BY DEF KeptInv
  <2>1. SessionInv /\ AskInv /\ TellInv /\ h'.asked = h.asked /\ h'.settled = h.settled
    BY <1>3 DEF TalkInv, KeptInv, LossStays
  <2> QED BY <1>1, <1>3, <1>7, <1>8, <2>1, SessionStays, AskStays, TellStays
<1> QED BY <1>6, <1>9, <1>10, <1>11, <1>12 DEF TalkInv, PlainInv

-----------------------------------------------------------------------------
(* The owner's other requests.                                             *)

LEMMA DiscardTalks ==
  ASSUME IInv, TalkInv, Discard
  PROVE  TalkInv'
<1> DEFINE s == b.server
           failed == proc[s].failed \cup ({proc[s].work} \ {None}) \cup proc[s].inbox
           q == [proc[s] EXCEPT !.work = None, !.open = {}, !.inbox = {}, !.failed = failed]
<1>1. UNCHANGED <<object, call, run, stream, respond, h>>
  BY DEF Discard
<1>2. PlaceInv /\ WorkInv /\ FreshInv /\ LossInv /\ RespondTyped
  BY DEF TalkInv, PlainInv
<1>3. ~rec'.live /\ rec'.native = rec.native
  BY DEF Discard, IInv, Typed, RowTyped
<1>4. b'.server = b.server /\ ~Live'
  BY DEF Discard, IInv, Typed, BackendTyped, Live
<1>5. \/ UNCHANGED proc /\ (~Server.alive \/ rec.native = None)
      \/ s \in Prompts /\ Server = proc[s] /\ proc' = [proc EXCEPT ![s] = q]
  <2>1. CASE Server.alive /\ rec.native # None
    <3>1. s \in Prompts /\ Server = proc[s]
      BY <2>1, ServerTyped DEF NoProcess
    <3> QED BY <2>1, <3>1 DEF Discard
  <2>2. CASE ~(Server.alive /\ rec.native # None)
    BY <2>2 DEF Discard
  <2> QED BY <2>1, <2>2
<1>6. Sent' = Sent /\ Hands' = Hands
  BY <1>1 DEF Sent, Hands
<1>7. ASSUME s \in Prompts, Server = proc[s]
      PROVE  /\ q.pipe = proc[s].pipe /\ q.inbox = {} /\ q.work = None /\ q.open = {}
             /\ Working(q, Sent)
  <2>1. proc[s] \in Processes /\ Working(proc[s], Sent)
    BY <1>2, <1>7 DEF IInv, Typed, ProcessesTyped, WorkInv
  <2>2. \A c \in Prompts : c \in failed => c \in Sent
    BY <2>1 DEF Working
  <2> HIDE DEF failed
  <2>3. /\ q.pipe = proc[s].pipe /\ q.inbox = {} /\ q.work = None /\ q.open = {} /\ q.failed = failed
        /\ q.answered = proc[s].answered
    BY <2>1 DEF Processes
  <2> HIDE DEF q
  <2> QED BY <2>1, <2>2, <2>3, NoneIsNoPrompt DEF Working
<1> HIDE DEF q
<1>8. /\ Server'.pipe = Server.pipe
      /\ Server'.inbox = Server.inbox \/ Server'.inbox = {}
      /\ UNCHANGED proc \/ (Server'.inbox = {} /\ Server'.work = None)
      /\ \A t \in Prompts : t # b.server => proc'[t] = proc[t]
      /\ \A t \in Prompts : proc'[t] = proc[t] \/ Working(proc'[t], Sent)
  <2>1. CASE UNCHANGED proc
    BY <1>4, <2>1 DEF Server
  <2>2. CASE s \in Prompts /\ Server = proc[s] /\ proc' = [proc EXCEPT ![s] = q]
    <3>1. proc'[s] = q /\ \A t \in Prompts \ {s} : proc'[t] = proc[t]
      BY <2>2 DEF IInv, Typed, ProcessesTyped
    <3>2. Server' = q
      BY <1>4, <2>2, <3>1, NoneIsNoPrompt DEF Server
    <3> QED BY <1>7, <2>2, <3>1, <3>2
  <2> QED BY <1>5, <2>1, <2>2
<1>9. WorkInv'
  BY <1>2, <1>6, <1>8 DEF WorkInv
<1>10. PlaceInv'
  BY <1>1, <1>2, <1>4, <1>8 DEF PlaceInv
<1>11. FreshInv'
  <2>1. CallStays
    BY <1>1, <1>2, <1>4 DEF CallStays, PlaceInv
  <2>2. Server'.inbox \subseteq Server.inbox
        /\ \A m \in Prompts : Mentions(Server'.pipe, m) => Mentions(Server.pipe, m) \/ ~Unsaid(m)
    BY <1>8
  <2>3. \A t, m \in Prompts : object'[t].assembling[m] \in {{}, object[t].assembling[m]} \/ ~Unsaid(m)
    BY <1>1
  <2> QED BY <1>2, <2>1, <2>2, <2>3, FreshStays
<1>12. RespondTyped' /\ LossInv'
  BY <1>1, <1>2 DEF RespondTyped, LossInv
<1>13. KeptInv'
  <2> SUFFICES ASSUME ~h'.lost PROVE (SessionInv /\ AskInv /\ TellInv)'
    BY DEF KeptInv
  <2>1. SessionInv /\ TellInv /\ ~h.lost
    BY <1>1 DEF TalkInv, KeptInv
  <2>2. Server'.inbox = {} /\ Server'.work = None
    <3>1. CASE UNCHANGED proc
      <4>1. Server' = Server
        BY <1>4, <3>1 DEF Server
      <4>2. ASSUME ~(Server.inbox = {} /\ Server.work = None) PROVE FALSE
        <5>1. s \in Prompts /\ Server = proc[s]
          BY <4>2, ServerTyped DEF NoProcess
        <5>2. proc[s].alive /\ Live
          BY <2>1, <4>2, <5>1, WorkerPlace
        <5>3. rec.native # None
          BY <2>1, <5>2 DEF SessionInv
        <5>4. proc' # proc
          <6>1. proc' = [proc EXCEPT ![s].work = None, ![s].open = {}, ![s].inbox = {},
                                     ![s].failed = @ \cup ({proc[s].work} \ {None}) \cup proc[s].inbox]
            BY <5>1, <5>2, <5>3 DEF Discard
          <6>2. proc[s] \in Processes /\ proc \in [Prompts -> Processes]
            BY <5>1 DEF IInv, Typed, ProcessesTyped
          <6>3. proc'[s].work = None /\ proc'[s].inbox = {}
            BY <5>1, <6>1, <6>2 DEF Processes
          <6> QED BY <4>2, <5>1, <6>3
        <5> QED BY <3>1, <5>4
      <4> QED BY <4>1, <4>2
    <3> QED BY <1>8, <3>1
  <2>3. SessionInv'
    BY <1>1, <1>3, <1>4, <2>1, <2>2 DEF SessionInv
  <2>4. AskInv' /\ TellInv'
    BY <1>1, <1>4, <2>1 DEF AskInv, TellInv
  <2> QED BY <2>3, <2>4
<1> QED BY <1>9, <1>10, <1>11, <1>12, <1>13 DEF TalkInv, PlainInv

\* What is on offer and put together is the same.
LEMMA PartsOn ==
  ASSUME IInv, PartsStay, UNCHANGED b
  PROVE  /\ Pending' = Pending /\ (Live => object'[b.thread].assembling = object[b.thread].assembling)
         /\ \A t, m \in Prompts : object'[t].assembling[m] \in {{}, object[t].assembling[m]} \/ ~Unsaid(m)
BY LiveTyped DEF PartsStay, Pending, Live

LEMMA RespondTakesTalks ==
  ASSUME IInv, TalkInv, NEW o \in Owners, NEW a \in Requests, RespondTakes(o, a)
  PROVE  TalkInv'
<1> DEFINE t == b.thread
           pending == object[t].pending \ {a}
           q == [object[t] EXCEPT !.pending = pending]
           answer == <<a, Turn # None>>
<1>1. /\ respond[o] = <<>> /\ a \in Pending /\ respond' = [respond EXCEPT ![o] = answer]
      /\ UNCHANGED <<rec, b, call, run, proc, stream, h>>
  BY DEF RespondTakes
<1>2. PlaceInv /\ WorkInv /\ LossInv /\ RespondTyped
  BY DEF TalkInv, PlainInv
<1>3. Live /\ Pending = object[t].pending
  BY <1>1 DEF Pending
<1>4. t \in Prompts /\ object[t] \in Objects
  BY <1>3, LiveTyped
<1>5. object' = [object EXCEPT ![t] = q]
  BY <1>4 DEF RespondTakes, IInv, Typed, ObjectsTyped
<1>6. q.pending = pending /\ q.assembling = object[t].assembling
  BY <1>4 DEF Objects
<1>7. answer[1] = a /\ answer # <<>> /\ answer \in Requests \X BOOLEAN
  OBVIOUS
<1> HIDE DEF q, answer
<1>8. object'[t] = q /\ \A u \in Prompts \ {t} : object'[u] = object[u]
  BY <1>4, <1>5 DEF IInv, Typed, ObjectsTyped
<1>9. respond'[o] = answer /\ \A e \in Owners \ {o} : respond'[e] = respond[e]
  BY <1>1, <1>2 DEF RespondTyped
<1>10. RespondTyped'
  BY <1>1, <1>2, <1>7 DEF RespondTyped
<1>11. Hands' = Hands \cup {a}
  BY <1>1, <1>7, <1>9 DEF Hands
<1>12. Pending' = Pending \ {a}
  BY <1>1, <1>3, <1>6, <1>8 DEF Pending, Live
<1>13. Server' = Server /\ LossInv' /\ WorkInv'
  BY <1>1, <1>2 DEF Server, LossInv, WorkInv, Sent
<1>14. \A u, m \in Prompts : object'[u].assembling[m] \in {{}, object[u].assembling[m]} \/ ~Unsaid(m)
  BY <1>4, <1>6, <1>8
<1>15. ~h'.lost => ~h.lost /\ \A e \in h'.settled : e[2] = Parts
  BY <1>1 DEF TalkInv, KeptInv, TellInv
<1>16. ASSUME ~h'.lost
       PROVE  /\ Asking(Server'.pipe, Server'.open, Pending', Hands', h'.asked, Server'.alive)
              /\ Telling(Server'.pipe, Server'.work, Server'.completed, Server'.sent,
                         object'[b.thread].assembling)
  <2>1. AskInv /\ TellInv
    BY <1>1, <1>16 DEF TalkInv, KeptInv
  <2>2. Asking(Server.pipe, Server.open, Pending \ {a}, Hands \cup {a}, h.asked, Server.alive)
    BY <1>1, <1>3, <2>1, TakesNext DEF AskInv
  <2>3. Telling(Server.pipe, Server.work, Server.completed, Server.sent, object[b.thread].assembling)
    BY <1>3, <2>1 DEF TellInv
  <2> QED BY <1>1, <1>6, <1>8, <1>11, <1>12, <1>13, <2>2, <2>3
<1>17. \A s \in Prompts : s # b.server => Idle(proc'[s])
  BY <1>1, <1>2 DEF PlaceInv
<1>18. /\ stream' \in {"closed", "connecting"} => Server'.pipe = <<>>
       /\ stream' # "closed" => b.server # None
  BY <1>1, <1>2, <1>13 DEF PlaceInv
<1>19. /\ Server'.inbox \subseteq Server.inbox
       /\ \A m \in Prompts : Mentions(Server'.pipe, m) => Mentions(Server.pipe, m) \/ ~Unsaid(m)
  BY <1>13
<1> QED BY <1>1, <1>3, <1>10, <1>13, <1>14, <1>15, <1>16, <1>17, <1>18, <1>19, TalksOn

\* The answer arrives, or is not wanted any more, or is lost.
LEMMA RespondTalks ==
  ASSUME IInv, TalkInv, NEW o \in Owners, Respond(o)
  PROVE  TalkInv'
<1> DEFINE a == respond[o][1]
           s == b.server
           open == proc[s].open \ {a}
           q == [proc[s] EXCEPT !.open = open]
<1>1. /\ respond[o] # <<>> /\ respond' = [respond EXCEPT ![o] = <<>>]
      /\ UNCHANGED <<rec, b, call, run, stream>>
  BY DEF Respond
<1>2. PlaceInv /\ WorkInv /\ LossInv /\ RespondTyped
  BY DEF TalkInv, PlainInv
<1>3. respond'[o] = <<>> /\ \A e \in Owners \ {o} : respond'[e] = respond[e]
  BY <1>1, <1>2 DEF RespondTyped
<1>4. RespondTyped'
  BY <1>1, <1>2 DEF RespondTyped
<1>5. a \in Hands /\ Hands' \subseteq Hands /\ \A e \in Hands : e \in Hands' \/ e = a
  BY <1>1, <1>3 DEF Hands
<1>6. \/ a \in Server.open /\ proc' = [proc EXCEPT ![s].open = @ \ {a}] /\ UNCHANGED h
      \/ a \notin Server.open /\ UNCHANGED <<proc, h>>
      \/ Note([h EXCEPT !.lost = TRUE], FALSE) /\ UNCHANGED proc
  BY DEF Respond, AnswerTo
<1> HIDE DEF a
<1>7. PartsStay
  <2>1. setState("running") \/ UNCHANGED object
    BY DEF Respond
  <2> QED BY <2>1, SetStateParts, PartsSame DEF RowStates
<1>8. /\ Pending' = Pending /\ (Live => object'[b.thread].assembling = object[b.thread].assembling)
      /\ \A t, m \in Prompts : object'[t].assembling[m] \in {{}, object[t].assembling[m]} \/ ~Unsaid(m)
  BY <1>1, <1>7, PartsOn
<1>9. /\ Server'.pipe = Server.pipe /\ Server'.inbox = Server.inbox /\ Server'.work = Server.work
      /\ Server'.completed = Server.completed /\ Server'.sent = Server.sent /\ Server'.alive = Server.alive
      /\ \A t \in Prompts : t # b.server => Idle(proc'[t])
      /\ WorkInv' /\ LossInv' /\ (~h'.lost => h' = h /\ Server'.open = Server.open \ {a})
  <2>1. CASE UNCHANGED proc
    <3>1. Server' = Server /\ Sent' = Sent
      BY <1>1, <2>1 DEF Server, Sent
    <3>2. WorkInv' /\ \A t \in Prompts : t # b.server => Idle(proc'[t])
      BY <1>2, <2>1, <3>1 DEF WorkInv, PlaceInv
    <3>3. CASE a \notin Server.open /\ UNCHANGED h
      BY <1>2, <3>1, <3>2, <3>3 DEF LossInv
    <3>4. CASE Note([h EXCEPT !.lost = TRUE], FALSE)
      <4>1. (h.lost \/ TRUE) = TRUE
        OBVIOUS
      <4>2. Note([h EXCEPT !.lost = h.lost \/ TRUE], FALSE)
        BY <3>4, <4>1
      <4>3. LossInv' /\ h'.lost
        BY <1>2, <4>2, LostNoted DEF LossStays
      <4> QED BY <3>1, <3>2, <4>3
    <3>5. CASE a \in Server.open /\ proc' = [proc EXCEPT ![s].open = @ \ {a}] /\ UNCHANGED h
      <4>1. s \in Prompts /\ Server = proc[s] /\ proc[s] \in Processes
        BY <3>5, ServerTyped DEF NoProcess, IInv, Typed, ProcessesTyped
      <4>2. proc'[s].open = proc[s].open \ {a}
        BY <3>5, <4>1 DEF IInv, Typed, ProcessesTyped, Processes
      <4> QED BY <2>1, <3>5, <4>1, <4>2
    <3> QED BY <1>6, <3>3, <3>4, <3>5
  <2>2. CASE a \in Server.open /\ proc' = [proc EXCEPT ![s].open = @ \ {a}] /\ UNCHANGED h
    <3>1. s \in Prompts /\ Server = proc[s] /\ proc[s] \in Processes
      BY <2>2, ServerTyped DEF NoProcess, IInv, Typed, ProcessesTyped
    <3>2. proc' = [proc EXCEPT ![s] = q]
      BY <2>2, <3>1 DEF IInv, Typed, ProcessesTyped
    <3>3. open \subseteq proc[s].open
      OBVIOUS
    <3> HIDE DEF open
    <3>4. /\ q.pipe = proc[s].pipe /\ q.inbox = proc[s].inbox /\ q.work = proc[s].work
          /\ q.alive = proc[s].alive /\ q.answered = proc[s].answered /\ q.failed = proc[s].failed
          /\ q.open = open /\ q.completed = proc[s].completed /\ q.sent = proc[s].sent
      BY <3>1 DEF Processes
    <3> HIDE DEF q
    <3>5. Working(q, Sent)
      BY <1>2, <3>1, <3>3, <3>4 DEF WorkInv, Working
    <3>6. Server' = q /\ WorkInv' /\ \A t \in Prompts : t # b.server => Idle(proc'[t])
      BY <1>1, <1>2, <3>1, <3>2, <3>5, ProcSet
    <3> QED BY <1>2, <2>2, <3>1, <3>4, <3>6 DEF open, LossInv
  <2> QED BY <1>6, <2>1, <2>2
<1>10. ~h'.lost => ~h.lost /\ \A e \in h'.settled : e[2] = Parts
  BY <1>9 DEF TalkInv, KeptInv, TellInv
<1>11. ASSUME ~h'.lost, Live
       PROVE  /\ Asking(Server'.pipe, Server'.open, Pending', Hands', h'.asked, Server'.alive)
              /\ Telling(Server'.pipe, Server'.work, Server'.completed, Server'.sent,
                         object'[b.thread].assembling)
  <2>1. AskInv /\ TellInv
    BY <1>10, <1>11 DEF TalkInv, KeptInv
  <2>2. Server.open \in SUBSET Requests /\ Hands \in SUBSET Requests
    BY <1>2, ServerTyped, HandsTyped
  <2>3. Asking(Server.pipe, Server.open, Pending, Hands, h.asked, Server.alive)
    BY <1>11, <2>1 DEF AskInv
  <2>4. Asking(Server.pipe, Server.open \ {a}, Pending, Hands', h.asked, Server.alive)
    BY <1>5, <2>2, <2>3, AnswersNext
  <2>5. Telling(Server.pipe, Server.work, Server.completed, Server.sent, object[b.thread].assembling)
    BY <1>11, <2>1 DEF TellInv
  <2> QED BY <1>8, <1>9, <1>11, <2>4, <2>5
<1>12. /\ stream' \in {"closed", "connecting"} => Server'.pipe = <<>>
       /\ stream' # "closed" => b.server # None
  BY <1>1, <1>2, <1>9 DEF PlaceInv
<1>13. /\ Server'.inbox \subseteq Server.inbox
       /\ \A m \in Prompts : Mentions(Server'.pipe, m) => Mentions(Server.pipe, m) \/ ~Unsaid(m)
  BY <1>9
<1> QED BY <1>1, <1>4, <1>5, <1>8, <1>9, <1>10, <1>11, <1>12, <1>13, TalksOn

-----------------------------------------------------------------------------
(* The stream.                                                             *)

LEMMA subscribeTalks ==
  ASSUME IInv, TalkInv, subscribe
  PROVE  TalkInv'
<1>1. /\ stream = "connecting" /\ Server.alive /\ stream' = "read"
      /\ UNCHANGED <<rec, b, object, call, run, proc, respond, h>>
  BY DEF subscribe
<1>2. PlaceInv /\ LossInv
  BY DEF TalkInv, PlainInv
<1>3. b.server # None
  BY <1>1, <1>2 DEF PlaceInv
<1>4. BackendStays /\ PartsStay /\ LossStays /\ Sent' = Sent /\ CallStays /\ NatStays
  BY <1>1, <1>2, PartsSame, LossSame, StepsSame DEF BackendStays, Sent
<1> QED BY <1>1, <1>3, <1>4, QuietKeeps

\* What is unread of the stored server changes.
LEMMA PipeSet ==
  ASSUME IInv, TalkInv, b.server \in Prompts, NEW pipe,
         proc' = [proc EXCEPT ![b.server].pipe = pipe], UNCHANGED <<b, run>>
  PROVE  /\ Server'.pipe = pipe /\ Server'.inbox = Server.inbox /\ Server'.work = Server.work
         /\ Server'.completed = Server.completed /\ Server'.sent = Server.sent
         /\ Server'.open = Server.open /\ Server'.alive = Server.alive
         /\ WorkInv' /\ \A t \in Prompts : t # b.server => Idle(proc'[t])
<1> DEFINE s == b.server
           q == [proc[s] EXCEPT !.pipe = pipe]
<1>1. PlaceInv /\ WorkInv
  BY DEF TalkInv, PlainInv
<1>2. s \in Prompts /\ Server = proc[s] /\ proc[s] \in Processes
  BY ServerTyped, NoneIsNoPrompt DEF IInv, Typed, ProcessesTyped
<1>3. proc' = [proc EXCEPT ![s] = q]
  BY <1>2 DEF IInv, Typed, ProcessesTyped
<1>4. /\ q.pipe = pipe /\ q.inbox = proc[s].inbox /\ q.work = proc[s].work
      /\ q.alive = proc[s].alive /\ q.answered = proc[s].answered /\ q.failed = proc[s].failed
      /\ q.open = proc[s].open /\ q.completed = proc[s].completed /\ q.sent = proc[s].sent
  BY <1>2 DEF Processes
<1> HIDE DEF q
<1>5. Working(q, Sent)
  BY <1>1, <1>2, <1>4 DEF WorkInv, Working
<1>6. Server' = q /\ WorkInv' /\ \A t \in Prompts : t # b.server => Idle(proc'[t])
  BY <1>1, <1>2, <1>3, <1>5, ProcSet
<1> QED BY <1>2, <1>4, <1>6

\* Nothing was unread, or it is noted as lost.
LEMMA StreamBreaksTalks ==
  ASSUME IInv, TalkInv, StreamBreaks
  PROVE  TalkInv'
<1> DEFINE x == proc[b.server].pipe # <<>>
<1>1. /\ stream = "read" /\ stream' = "connecting" /\ proc' = [proc EXCEPT ![b.server].pipe = <<>>]
      /\ Note([h EXCEPT !.lost = h.lost \/ x], FALSE)
      /\ UNCHANGED <<rec, b, object, call, run, respond>>
  BY DEF StreamBreaks
<1>2. PlaceInv /\ LossInv /\ RespondTyped
  BY DEF TalkInv, PlainInv
<1>3. b.server \in Prompts /\ Server = proc[b.server]
  BY <1>1, <1>2, ServerTyped DEF PlaceInv
<1>4. x \in BOOLEAN
  OBVIOUS
<1>5. LossStays /\ (~h'.lost => Server.pipe = <<>>)
  <2>1. LossStays /\ (~h'.lost => ~x)
    <3> HIDE DEF x
    <3> QED BY <1>1, <1>2, <1>4, LostNoted
  <2> QED BY <1>3, <2>1
<1>6. /\ Server'.pipe = <<>> /\ Server'.inbox = Server.inbox /\ Server'.work = Server.work
      /\ Server'.completed = Server.completed /\ Server'.sent = Server.sent
      /\ Server'.open = Server.open /\ Server'.alive = Server.alive
      /\ WorkInv' /\ \A t \in Prompts : t # b.server => Idle(proc'[t])
  BY <1>1, <1>3, PipeSet
<1>7. RespondTyped' /\ Hands' = Hands /\ Pending' = Pending
  BY <1>1, <1>2 DEF RespondTyped, Hands, Pending, Live
<1>8. \A t, m \in Prompts : object'[t].assembling[m] \in {{}, object[t].assembling[m]} \/ ~Unsaid(m)
  BY <1>1
<1>9. LossInv' /\ (~h'.lost => ~h.lost /\ \A e \in h'.settled : e[2] = Parts)
  BY <1>5 DEF LossStays, TalkInv, KeptInv, TellInv
<1>10. \A m \in Prompts : Mentions(Server'.pipe, m) => Mentions(Server.pipe, m) \/ ~Unsaid(m)
  BY <1>6 DEF Mentions
<1>11. ASSUME ~h'.lost, Live
       PROVE  /\ Asking(Server'.pipe, Server'.open, Pending', Hands', h'.asked, Server'.alive)
              /\ Telling(Server'.pipe, Server'.work, Server'.completed, Server'.sent,
                         object'[b.thread].assembling)
  BY <1>1, <1>5, <1>6, <1>7, <1>11 DEF TalkInv, KeptInv, AskInv, TellInv, LossStays
<1>12. stream' # "closed" => b.server # None
  BY <1>3, NoneIsNoPrompt
<1> QED BY <1>1, <1>6, <1>7, <1>8, <1>9, <1>10, <1>11, <1>12, TalksOn

\* An event is read.
LEMMA LineTalks ==
  ASSUME IInv, TalkInv, HasLine, Rest, UNCHANGED <<rec, b, call, run, respond>>, LossInv',
         stream' \notin {"closed", "connecting"},
         \A t, m \in Prompts : object'[t].assembling[m] \in {{}, object[t].assembling[m]} \/ ~Unsaid(m),
         ~h'.lost => ~h.lost /\ h'.asked = h.asked /\ \A e \in h'.settled : e[2] = Parts,
         ~h'.lost /\ Live => Asking(Tail(Server.pipe), Server.open, Pending', Hands, h.asked, Server.alive),
         ~h'.lost /\ Live => Telling(Tail(Server.pipe), Server.work, Server.completed, Server.sent,
                                     object'[b.thread].assembling)
  PROVE  TalkInv'
<1> DEFINE pipe == Tail(proc[b.server].pipe)
<1>1. b.server \in Prompts /\ proc[b.server].pipe \in Seq(Lines) /\ proc[b.server].pipe # <<>>
  BY LineTyped
<1>2. Server = proc[b.server]
  BY <1>1, NoneIsNoPrompt DEF Server
<1>3. proc' = [proc EXCEPT ![b.server].pipe = pipe]
  BY DEF Rest
<1>4. \A m \in Prompts : Mentions(pipe, m) => Mentions(Server.pipe, m)
  BY <1>1, <1>2, MentionsTail
<1>5. pipe = Tail(Server.pipe)
  BY <1>2
<1> HIDE DEF pipe
<1>6. /\ Server'.pipe = pipe /\ Server'.inbox = Server.inbox /\ Server'.work = Server.work
      /\ Server'.completed = Server.completed /\ Server'.sent = Server.sent
      /\ Server'.open = Server.open /\ Server'.alive = Server.alive
      /\ WorkInv' /\ \A t \in Prompts : t # b.server => Idle(proc'[t])
  BY <1>1, <1>3, PipeSet
<1>7. RespondTyped' /\ Hands' = Hands
  BY DEF TalkInv, PlainInv, RespondTyped, Hands
<1>8. ~h'.lost /\ Live => Asking(Server'.pipe, Server'.open, Pending', Hands', h'.asked, Server'.alive)
  BY <1>5, <1>6, <1>7
<1>9. ~h'.lost /\ Live => Telling(Server'.pipe, Server'.work, Server'.completed, Server'.sent,
                                  object'[b.thread].assembling)
  BY <1>5, <1>6
<1>10. \A m \in Prompts : Mentions(Server'.pipe, m) => Mentions(Server.pipe, m) \/ ~Unsaid(m)
  BY <1>4, <1>6
<1>11. ~h'.lost /\ ~Live => /\ Server.pipe = <<>> => Server'.pipe = <<>>
                            /\ Hands' \subseteq Hands
                            /\ Server'.work \in {None, Server.work}
  BY <1>1, <1>2, <1>6, <1>7
<1>12. b.server # None /\ Server'.inbox \subseteq Server.inbox
  BY <1>1, <1>6, NoneIsNoPrompt
<1> QED BY <1>6, <1>7, <1>8, <1>9, <1>10, <1>11, <1>12, TalksOn

\* While the thread is there its session is known.
LEMMA onEventUnknownTalks ==
  ASSUME IInv, TalkInv, onEventUnknown
  PROVE  TalkInv'
<1>1. /\ HasLine /\ ~Known /\ Rest /\ UNCHANGED <<rec, b, object, call, run, stream, respond, h>>
  BY DEF onEventUnknown
<1>2. ~Live
  BY <1>1 DEF Known, TalkInv, PlainInv, PlaceInv
<1>3. LossInv' /\ (~h'.lost => ~h.lost /\ h'.asked = h.asked /\ \A e \in h'.settled : e[2] = Parts)
  BY <1>1 DEF TalkInv, PlainInv, LossInv, KeptInv, TellInv
<1>4. stream' \notin {"closed", "connecting"}
  BY <1>1 DEF HasLine
<1>5. \A t, m \in Prompts : object'[t].assembling[m] \in {{}, object[t].assembling[m]} \/ ~Unsaid(m)
  BY <1>1
<1> QED BY <1>1, <1>2, <1>3, <1>4, <1>5, LineTalks

\* What an event is about was sent.
LEMMA HeadIsSaid ==
  ASSUME IInv, TalkInv, HasLine, Line[1] \in {"message.part.updated", "message.updated"}
  PROVE  Line[2] \in Prompts /\ ~Unsaid(Line[2])
<1>1. b.server \in Prompts /\ proc[b.server].pipe \in Seq(Lines) /\ proc[b.server].pipe # <<>>
      /\ Line \in Lines
  BY LineTyped
<1>2. Server = proc[b.server] /\ Line = Head(proc[b.server].pipe)
  BY <1>1, NoneIsNoPrompt DEF Server, Line
<1>3. Line[2] \in Prompts /\ Mentions(Server.pipe, Line[2])
  BY <1>1, <1>2, LineParts, MentionsHead
<1> QED BY <1>3 DEF TalkInv, PlainInv, FreshInv

LEMMA onPartUpdatedTalks ==
  ASSUME IInv, TalkInv, onPartUpdated
  PROVE  TalkInv'
<1> DEFINE t == b.thread
           m == Line[2]
           A == object[t].assembling
           A1 == [A EXCEPT ![m] = A[m] \cup {Line[3]}]
           o == [object[t] EXCEPT !.assembling = A1]
           q == Server.pipe
<1>1. /\ HasLine /\ Live /\ Line[1] = "message.part.updated" /\ Rest
      /\ UNCHANGED <<rec, b, call, run, stream, respond, h>>
  BY DEF onPartUpdated, Event, Known
<1>2. m \in Prompts /\ ~Unsaid(m)
  BY <1>1, HeadIsSaid
<1>3. t \in Prompts /\ object[t] \in Objects /\ A \in [Prompts -> SUBSET Parts]
  BY <1>1, LiveTyped DEF Objects
<1>4. object' = [object EXCEPT ![t] = o]
  BY <1>3 DEF onPartUpdated, IInv, Typed, ObjectsTyped, Objects
<1>5. q \in Seq(Lines) /\ q # <<>> /\ Line = Head(q) /\ Server.work \in Nobody
  BY <1>1, LineTyped, ServerTyped, NoneIsNoPrompt DEF Server, Line
<1>6. A1[m] = A[m] \cup {Line[3]} /\ \A n \in Prompts \ {m} : A1[n] = A[n]
  BY <1>2, <1>3
<1> HIDE DEF A1
<1>7. o.assembling = A1 /\ o.pending = object[t].pending
  BY <1>3 DEF Objects
<1> HIDE DEF o
<1>8. object'[t] = o /\ \A u \in Prompts \ {t} : object'[u] = object[u]
  BY <1>3, <1>4 DEF IInv, Typed, ObjectsTyped
<1>9. Pending' = Pending
  BY <1>1, <1>7, <1>8 DEF Pending, Live
<1>10. LossInv' /\ (~h'.lost => ~h.lost /\ h'.asked = h.asked /\ \A e \in h'.settled : e[2] = Parts)
  BY <1>1 DEF TalkInv, PlainInv, LossInv, KeptInv, TellInv
<1>11. stream' \notin {"closed", "connecting"}
  BY <1>1 DEF HasLine
<1>12. \A u, n \in Prompts : object'[u].assembling[n] \in {{}, object[u].assembling[n]} \/ ~Unsaid(n)
  BY <1>2, <1>3, <1>6, <1>7, <1>8
<1>13. ASSUME ~h'.lost
       PROVE  /\ Asking(Tail(q), Server.open, Pending', Hands, h.asked, Server.alive)
              /\ Telling(Tail(q), Server.work, Server.completed, Server.sent, A1)
  <2>1. /\ Asking(q, Server.open, Pending, Hands, h.asked, Server.alive)
        /\ Telling(q, Server.work, Server.completed, Server.sent, A)
    BY <1>1, <1>13 DEF TalkInv, KeptInv, AskInv, TellInv
  <2>2. Head(q)[1] \notin {"asked", "replied"} /\ Head(q)[1] # "message.updated"
    BY <1>1, <1>5
  <2>3. \A n \in Prompts : Reads(q, n, A, A1)
    BY <1>1, <1>2, <1>5, <1>6 DEF Reads
  <2> HIDE DEF q, A
  <2>4. Asking(Tail(q), Server.open, Pending, Hands, h.asked, Server.alive)
    BY <1>5, <2>1, <2>2, AskingTail
  <2>5. Telling(Tail(q), Server.work, Server.completed, Server.sent, A1)
    BY <1>5, <2>1, <2>2, <2>3, TellingTail
  <2> QED BY <1>9, <2>4, <2>5
<1> QED BY <1>1, <1>7, <1>8, <1>10, <1>11, <1>12, <1>13, LineTalks

LEMMA SettledFields ==
  ASSUME NEW f, IsHistory(f), NEW x
  PROVE  LET g == [f EXCEPT !.settled = x] IN
         /\ IsHistory(g) /\ g.settled = x /\ g.asked = f.asked /\ g.lost = f.lost
         /\ g.slipped = f.slipped
<1>1. IsHistory([f EXCEPT !.settled = x])
  BY DEF IsHistory
<1>2. /\ [f EXCEPT !.settled = x].settled = x /\ [f EXCEPT !.settled = x].asked = f.asked
      /\ [f EXCEPT !.settled = x].lost = f.lost /\ [f EXCEPT !.settled = x].slipped = f.slipped
  BY DEF IsHistory
<1> QED BY <1>1, <1>2

LEMMA onMessageUpdatedTalks ==
  ASSUME IInv, TalkInv, onMessageUpdated
  PROVE  TalkInv'
<1> DEFINE t == b.thread
           m == Line[2]
           A == object[t].assembling
           A1 == [A EXCEPT ![m] = {}]
           usage == IF object[t].started # None THEN Counted(object[t].usage, m)
                                                ELSE object[t].usage
           o == [object[t] EXCEPT !.assembling = A1, !.usage = usage]
           q == Server.pipe
           settled == h.settled \cup {<<m, A[m]>>}
           g == [h EXCEPT !.settled = settled]
<1>1. /\ HasLine /\ Live /\ Line[1] = "message.updated" /\ Rest /\ Note(g, FALSE)
      /\ UNCHANGED <<rec, b, call, run, stream, respond>>
  BY DEF onMessageUpdated, Event, Known
<1>2. m \in Prompts /\ ~Unsaid(m)
  BY <1>1, HeadIsSaid
<1>3. t \in Prompts /\ object[t] \in Objects /\ A \in [Prompts -> SUBSET Parts]
  BY <1>1, LiveTyped DEF Objects
<1>4. object' = [object EXCEPT ![t] = o]
  BY <1>3 DEF onMessageUpdated
<1>5. q \in Seq(Lines) /\ q # <<>> /\ Line = Head(q) /\ Server.work \in Nobody
  BY <1>1, LineTyped, ServerTyped, NoneIsNoPrompt DEF Server, Line
<1>6. \A n \in Prompts : A1[n] \in {{}, A[n]}
  BY <1>3
<1> HIDE DEF usage
<1>7. o.assembling = A1 /\ o.pending = object[t].pending
  <2> HIDE DEF A1
  <2> QED BY <1>3 DEF Objects
<1> HIDE DEF o
<1>8. object'[t] = o /\ \A u \in Prompts \ {t} : object'[u] = object[u]
  BY <1>3, <1>4 DEF IInv, Typed, ObjectsTyped
<1>9. Pending' = Pending
  BY <1>1, <1>7, <1>8 DEF Pending, Live
<1>10. ASSUME ~h.lost
       PROVE  /\ Asking(Tail(q), Server.open, Pending, Hands, h.asked, Server.alive)
              /\ Telling(Tail(q), Server.work, Server.completed, Server.sent, A1)
              /\ A[m] = Parts
  <2>1. /\ Asking(q, Server.open, Pending, Hands, h.asked, Server.alive)
        /\ Telling(q, Server.work, Server.completed, Server.sent, A)
    BY <1>1, <1>10 DEF TalkInv, KeptInv, AskInv, TellInv
  <2>2. Head(q)[1] \notin {"asked", "replied"} /\ IsEnd(q, 1, m)
    BY <1>1, <1>5, TailParts DEF IsEnd
  <2>3. Asking(Tail(q), Server.open, Pending, Hands, h.asked, Server.alive)
    <3> HIDE DEF q
    <3> QED BY <1>5, <2>1, <2>2, AskingTail
  <2>4. A[m] = Parts /\ Telling(Tail(q), Server.work, Server.completed, Server.sent, A1)
    <3> HIDE DEF q, A, m
    <3> QED BY <1>2, <1>3, <1>5, <2>1, <2>2, SettlesNext
  <2> QED BY <2>3, <2>4
<1>11. ASSUME ~h.lost, NEW e \in settled PROVE e[2] = Parts
  <2>1. CASE e \in h.settled
    BY <1>11, <2>1 DEF TalkInv, KeptInv, TellInv
  <2>2. CASE e = <<m, A[m]>>
    BY <1>10, <1>11, <2>2
  <2> QED BY <1>11, <2>1, <2>2
<1> HIDE DEF settled
<1>12. IsHistory(g) /\ g.settled = settled /\ g.asked = h.asked /\ g.lost = h.lost /\ g.slipped = h.slipped
  BY SettledFields DEF IInv, Typed, HistoryTyped
<1> HIDE DEF g
<1>13. LossInv' /\ (~h'.lost => ~h.lost /\ h'.asked = h.asked /\ h'.settled = settled)
  BY <1>1, <1>12, NoteLoss DEF TalkInv, PlainInv, LossInv
<1>14. ~h'.lost => ~h.lost /\ h'.asked = h.asked /\ \A e \in h'.settled : e[2] = Parts
  BY <1>11, <1>13
<1>15. stream' \notin {"closed", "connecting"}
  BY <1>1 DEF HasLine
<1>16. \A u, n \in Prompts : object'[u].assembling[n] \in {{}, object[u].assembling[n]} \/ ~Unsaid(n)
  <2> HIDE DEF A1
  <2> QED BY <1>3, <1>6, <1>7, <1>8
<1> HIDE DEF A1
<1> QED BY <1>1, <1>7, <1>8, <1>9, <1>10, <1>13, <1>14, <1>15, <1>16, LineTalks

\* What is on offer changes as a request is heard of, or its answer is.
LEMMA OffersTalk ==
  ASSUME IInv, TalkInv, HasLine, Live, Rest, UNCHANGED <<rec, b, call, run, respond, h>>,
         NEW P, object' = [object EXCEPT ![b.thread].pending = P],
         Line[1] \in {"asked", "replied"}, stream' \notin {"closed", "connecting"},
         ~h.lost => Asking(Tail(Server.pipe), Server.open, P, Hands, h.asked, Server.alive)
  PROVE  TalkInv'
<1> DEFINE t == b.thread
           A == object[t].assembling
           o == [object[t] EXCEPT !.pending = P]
           q == Server.pipe
<1>1. t \in Prompts /\ object[t] \in Objects
  BY LiveTyped
<1>2. object' = [object EXCEPT ![t] = o]
  BY <1>1 DEF IInv, Typed, ObjectsTyped
<1>3. o.assembling = A /\ o.pending = P
  BY <1>1 DEF Objects
<1> HIDE DEF o
<1>4. object'[t] = o /\ \A u \in Prompts \ {t} : object'[u] = object[u]
  BY <1>1, <1>2 DEF IInv, Typed, ObjectsTyped
<1>5. Pending' = P
  BY <1>3, <1>4 DEF Pending, Live
<1>6. q \in Seq(Lines) /\ q # <<>> /\ Line = Head(q) /\ Server.work \in Nobody
  BY LineTyped, ServerTyped, NoneIsNoPrompt DEF Server, Line
<1>7. LossInv' /\ (~h'.lost => ~h.lost /\ h'.asked = h.asked /\ \A e \in h'.settled : e[2] = Parts)
  BY DEF TalkInv, PlainInv, LossInv, KeptInv, TellInv
<1>8. \A u, n \in Prompts : object'[u].assembling[n] \in {{}, object[u].assembling[n]} \/ ~Unsaid(n)
  BY <1>1, <1>3, <1>4
<1>9. ASSUME ~h.lost
      PROVE  Telling(Tail(q), Server.work, Server.completed, Server.sent, A)
  <2>1. Telling(q, Server.work, Server.completed, Server.sent, A)
    BY <1>9 DEF TalkInv, KeptInv, TellInv
  <2>2. Head(q)[1] # "message.updated" /\ \A n \in Prompts : Reads(q, n, A, A)
    BY <1>6 DEF Reads
  <2> HIDE DEF q, A
  <2> QED BY <1>6, <2>1, <2>2, TellingTail
<1> QED BY <1>3, <1>4, <1>5, <1>7, <1>8, <1>9, LineTalks

LEMMA addPendingTalks ==
  ASSUME IInv, TalkInv, NEW kind \in Kinds, Asked(kind), addPending(kind)
  PROVE  TalkInv'
<1> DEFINE P == object[b.thread].pending \cup {<<Line[3], kind>>}
           q == Server.pipe
<1>1. /\ HasLine /\ Live /\ Line[1] = "asked" /\ Line[4] = kind /\ Rest /\ stream' = "asked"
      /\ UNCHANGED <<rec, b, call, run, respond, h>>
  BY DEF Asked, addPending, Event, Known
<1>2. object' = [object EXCEPT ![b.thread].pending = P]
  BY <1>1, LiveTyped DEF addPending
<1>3. /\ q \in Seq(Lines) /\ q # <<>> /\ Line = Head(q)
      /\ Server.open \in SUBSET Requests /\ Pending \in SUBSET Requests /\ Hands \in SUBSET Requests
      /\ h.asked \in Nat
  BY <1>1, LineTyped, ServerTyped, HandsTyped, NoneIsNoPrompt
     DEF Server, Line, TalkInv, PlainInv, LossInv
<1>4. ASSUME ~h.lost
      PROVE  Asking(Tail(q), Server.open, P, Hands, h.asked, Server.alive)
  <2>1. Asking(q, Server.open, Pending, Hands, h.asked, Server.alive)
    BY <1>1, <1>4 DEF TalkInv, KeptInv, AskInv
  <2>2. P = Pending \cup {<<Head(q)[3], Head(q)[4]>>}
    BY <1>1, <1>3 DEF Pending
  <2>3. Head(q)[1] = "asked"
    BY <1>1, <1>3
  <2> HIDE DEF q, P
  <2>4. Asking(Tail(q), Server.open, Pending \cup {<<Head(q)[3], Head(q)[4]>>}, Hands, h.asked, Server.alive)
    BY <1>3, <2>1, <2>3, OffersNext
  <2> QED BY <2>2, <2>4
<1> HIDE DEF P
<1> QED BY <1>1, <1>2, <1>4, OffersTalk

LEMMA forgetPendingTalks ==
  ASSUME IInv, TalkInv, forgetPending
  PROVE  TalkInv'
<1> DEFINE mine == {a \in Pending : a[1] = Line[3]}
           P == object[b.thread].pending \ mine
           q == Server.pipe
<1>1. /\ HasLine /\ Live /\ Line[1] = "replied" /\ Rest
      /\ UNCHANGED <<rec, b, call, run, respond, h>>
  BY DEF forgetPending, Event, Known
<1>2. object' = [object EXCEPT ![b.thread].pending = P]
  BY <1>1, LiveTyped DEF forgetPending
<1>3. /\ q \in Seq(Lines) /\ q # <<>> /\ Line = Head(q)
      /\ Server.open \in SUBSET Requests /\ Pending \in SUBSET Requests /\ Hands \in SUBSET Requests
      /\ h.asked \in Nat
  BY <1>1, LineTyped, ServerTyped, HandsTyped, NoneIsNoPrompt
     DEF Server, Line, TalkInv, PlainInv, LossInv
<1>4. ASSUME ~h.lost
      PROVE  Asking(Tail(q), Server.open, P, Hands, h.asked, Server.alive)
  <2>1. Asking(q, Server.open, Pending, Hands, h.asked, Server.alive)
    BY <1>1, <1>4 DEF TalkInv, KeptInv, AskInv
  <2>2. P = Pending \ {a \in Pending : a[1] = Head(q)[3]}
    BY <1>1, <1>3 DEF Pending
  <2>3. Head(q)[1] = "replied"
    BY <1>1, <1>3
  <2> HIDE DEF q, P
  <2> QED BY <1>3, <2>1, <2>2, <2>3, WithdrawsNext
<1>5. stream' \notin {"closed", "connecting"}
  BY <1>1 DEF forgetPending, HasLine
<1> HIDE DEF P
<1> QED BY <1>1, <1>2, <1>4, <1>5, OffersTalk

-----------------------------------------------------------------------------
(* The invariant of what is asked and said.                                *)

LEMMA InitTalkInv == Init => TalkInv
<1> SUFFICES ASSUME Init PROVE TalkInv
  OBVIOUS
<1> USE NoneIsNoPrompt
<1>1. /\ rec = [live |-> TRUE, native |-> None] /\ b.thread = None /\ b.server = None
      /\ object = [t \in Prompts |-> newThread] /\ call = [c \in Prompts |-> NoCall]
      /\ run = [c \in Prompts |-> NoRun] /\ proc = [s \in Prompts |-> NoProcess]
      /\ stream = "closed" /\ respond = [o \in Owners |-> <<>>] /\ h = NoHistory
  BY DEF Init
<1>2. NoCall.pc = "new" /\ NoCall.nat = None
  BY DEF NoCall
<1>3. Idle(NoProcess) /\ Working(NoProcess, Sent)
  BY DEF NoProcess, Idle, Working
<1>4. Server = NoProcess /\ ~Live /\ Hands = {}
  BY <1>1 DEF Server, Live, Hands
<1>5. \A m \in Prompts : newThread.assembling[m] = {}
  BY DEF newThread
<1>6. NoHistory.lost = FALSE /\ NoHistory.asked = 0 /\ NoHistory.slipped = FALSE /\ NoHistory.settled = {}
  BY DEF NoHistory
<1>7. LossInv
  <2>1. h.lost = FALSE /\ h.asked = 0 /\ h.slipped = FALSE
    BY <1>1, <1>6
  <2>2. h.lost \in BOOLEAN /\ ~h.slipped
    BY <2>1, Zenon
  <2>3. h.asked \in Nat
    BY <2>1
  <2> QED BY <2>2, <2>3 DEF LossInv
<1>71. RespondTyped
  BY <1>1 DEF RespondTyped
<1>8. PlaceInv /\ WorkInv
  BY <1>1, <1>2, <1>3, <1>4 DEF PlaceInv, WorkInv, Idle
<1>9. FreshInv
  BY <1>1, <1>3, <1>4, <1>5 DEF FreshInv, Mentions, Idle
<1>10. SessionInv /\ AskInv /\ TellInv
  BY <1>1, <1>2, <1>3, <1>4, <1>6 DEF SessionInv, AskInv, TellInv, Idle
<1> QED BY <1>7, <1>71, <1>8, <1>9, <1>10 DEF TalkInv, PlainInv, KeptInv

LEMMA NextTalkInv == IInv /\ TalkInv /\ [Next]_vars => TalkInv'
<1> SUFFICES ASSUME IInv, TalkInv, [Next]_vars PROVE TalkInv'
  OBVIOUS
<1>1. ASSUME NEW c \in Prompts, PromptStep(c) PROVE TalkInv'
  BY <1>1, ArriveTalks, ensureServerTalks, spawnTalks, ListeningTalks, SpawnFailsTalks,
     openSessionTalks, OptionInvalidTalks, ClaimTalks, PromptReturnsTalks, TurnAnsweredTalks,
     TurnFinishedTalks, TurnIdleTalks DEF PromptStep
<1>2. ASSUME NEW s \in Prompts, ServerStep(s) PROVE TalkInv'
  BY <1>2, ServerCompletesTalks, ServerAnswersTalks, ServerGivesUpTalks, ServerDiesTalks,
     ServerTakesTalks, ServerSaysPartTalks, ServerForgetsTalks, ServerAsksTalks DEF ServerStep
<1>3. ASSUME StreamStep PROVE TalkInv'
  <2>1. ASSUME onPermissionAsked \/ onQuestionAsked PROVE TalkInv'
    BY <2>1, addPendingTalks DEF onPermissionAsked, onQuestionAsked, Kinds
  <2> QED BY <1>3, <2>1, subscribeTalks, StreamBreaksTalks, onEventUnknownTalks, onPartUpdatedTalks,
             onMessageUpdatedTalks, forgetPendingTalks, SetsStateTalks DEF StreamStep
<1>4. CASE UNCHANGED vars
  <2>1. PlaceInv /\ LossInv /\ UNCHANGED <<rec, b, object, call, run, proc, stream, respond, h>>
    BY <1>4 DEF vars, TalkInv, PlainInv
  <2>2. BackendStays /\ PartsStay /\ LossStays /\ CallStays /\ NatStays /\ Sent' = Sent
    BY <2>1, PartsSame, LossSame, StepsSame DEF BackendStays, Sent
  <2> QED BY <2>1, <2>2, PlaceStream, QuietKeeps
<1> QED BY <1>1, <1>2, <1>3, <1>4, DiscardTalks, InterruptTalks, RespondTalks, RespondTakesTalks
        DEF Next

(* The parts above hold, together with what holds of the turns, in every    *)
(* state that can be reached.                                              *)
THEOREM TalkInvariance == Spec => [](IInv /\ TalkInv)
<1>1. Init => IInv /\ TalkInv
  BY InitIInv, InitTalkInv
<1>2. (IInv /\ TalkInv) /\ [Next]_vars => (IInv /\ TalkInv)'
  BY NextIInv, NextTalkInv
<1> QED BY <1>1, <1>2, PTL DEF Spec

LEMMA MessagesFollow == IInv /\ TalkInv => MessagesWhole
<1> SUFFICES ASSUME IInv, TalkInv PROVE UsageIsWhole /\ SettledIsWhole
  BY DEF MessagesWhole
<1>1. UsageIsWhole
  BY DEF UsageIsWhole, IInv, TurnInv, CleanInv, ToldInv
<1>2. SettledIsWhole
  BY DEF SettledIsWhole, TalkInv, KeptInv, TellInv
<1> QED BY <1>1, <1>2

LEMMA RequestsFollow == IInv /\ TalkInv => RequestsAgree
<1> SUFFICES ASSUME IInv, TalkInv, ~h.lost
             PROVE  /\ \A a \in Server.open :
                         \/ a \in Pending \/ InPipe("asked", a[1])
                         \/ \E o \in Owners : respond[o] # <<>> /\ respond[o][1] = a
                    /\ Server.alive => \A a \in Pending : a \in Server.open \/ InPipe("replied", a[1])
  BY DEF RequestsAgree, NoRequestForgotten, PendingIsOpen
<1>1. \A kind, n : InPipe(kind, n) <=> Unread(Server.pipe, kind, n)
  BY DEF InPipe, Unread, IsLine
<1>2. CASE ~Live
  <2>1. Pending = {}
    BY <1>2 DEF Pending
  <2>2. Server.open = {}
    <3>1. CASE b.server = None
      BY <3>1 DEF Server, NoProcess
    <3>2. CASE b.server # None
      BY <1>2, <3>2, ServerTyped, WorkerPlace
    <3> QED BY <3>1, <3>2
  <2> QED BY <2>1, <2>2
<1>3. CASE Live
  <2>1. /\ Found(Server.pipe, Server.open, Pending, Hands)
        /\ Server.alive => Waited(Server.pipe, Server.open, Pending)
    BY <1>3 DEF TalkInv, KeptInv, AskInv, Asking
  <2>2. \A a \in Hands : \E o \in Owners : respond[o] # <<>> /\ respond[o][1] = a
    BY DEF Hands
  <2> QED BY <1>1, <2>1, <2>2 DEF Found, Waited
<1> QED BY <1>2, <1>3

\* A message that is settled (onMessageUpdated) has every part the server sent,
\* as long as no event was lost: the parts that came before it were put together
\* in the one object that lives, and none came after; and the usage of a turn
\* that was answered has its message once.
THEOREM MessagesAreWhole == Spec => []MessagesWhole
BY TalkInvariance, MessagesFollow, PTL

\* As long as nothing was lost: what the server waits on is unread, on offer to
\* the owner or in the hands of one (addPending, Respond); and what is on offer
\* the server waits on, unless another client's answer is unread (forgetPending).
THEOREM RequestsAgreed == Spec => []RequestsAgree
BY TalkInvariance, RequestsFollow, PTL

=============================================================================
