--------------------------- MODULE OpenCodeBackend ---------------------------
(***************************************************************************)
(* The OpenCode backend (agents/opencode), seen from one thread: an        *)
(* `opencode serve` process that the first prompt spawns and nothing       *)
(* spawns again; requests over HTTP, one of which lasts as long as the     *)
(* turn it starts; and one event stream, which breaks and is opened again, *)
(* with what the server said meanwhile lost.  The turn is ended by the     *)
(* answer to its request, everything else by the stream: nothing orders    *)
(* the two.                                                                *)
(*                                                                         *)
(* The process a prompt spawns, the session it creates, the *thread object *)
(* it puts in the table and the message that answers it bear its name.     *)
(* What is done under one lock is one step.                                *)
(***************************************************************************)
EXTENDS Naturals, Sequences, FiniteSets

CONSTANTS Prompts,  \* the prompts the owner sends
          Owners,   \* request goroutines that answer permissions and questions
          Parts,    \* the parts of a message, from 1
          MaxAsks,  \* bound: permissions and questions asked
          MaxPipe,  \* bound: events not read yet
          None

ASSUME OpenCodeAssumption == MaxAsks \in Nat /\ MaxPipe \in Nat /\ None \notin Prompts

VARIABLES
  rec,      \* the thread's row: native session, and whether it still exists
  b,        \* the Backend: server, holder of starting, thread, sessions known
  object,   \* the thread objects
  call,     \* the prompts under way
  run,      \* runTurn, one goroutine per accepted prompt
  proc,     \* the server processes and what they wrote to the stream
  stream,   \* the subscription
  respond,  \* the answers under way
  h         \* history: turns finished with their usage, messages settled, mishaps

vars == <<rec, b, object, call, run, proc, stream, respond, h>>

Asks == 1..MaxAsks
Kinds == {"permission", "question"}
Requests == Asks \X Kinds
Nobody == Prompts \cup {None}
\* interrupted names the turn the mark was put on; the code keeps a boolean.
newThread == [turn |-> None, interrupted |-> None, started |-> None, usage |-> [m \in Prompts |-> 0],
              state |-> "idle", pending |-> {}, assembling |-> [m \in Prompts |-> {}]]
NoCall == [pc |-> "new", nat |-> None]
NoRun == [pc |-> "none", t |-> None, id |-> None, mark |-> None, ok |-> FALSE]
NoProcess == [alive |-> FALSE, inbox |-> {}, work |-> None, sent |-> {}, completed |-> FALSE,
              answered |-> {}, failed |-> {}, open |-> {}, pipe |-> <<>>]
NoHistory == [finished |-> {}, settled |-> {}, asked |-> 0, wrong |-> FALSE,
              lost |-> FALSE, slipped |-> FALSE]

Init ==
  /\ rec = [live |-> TRUE, native |-> None]
  /\ b = [server |-> None, starting |-> None, thread |-> None, bySession |-> {}]
  /\ object = [t \in Prompts |-> newThread]
  /\ call = [c \in Prompts |-> NoCall]
  /\ run = [c \in Prompts |-> NoRun]
  /\ proc = [s \in Prompts |-> NoProcess]
  /\ stream = "closed"
  /\ respond = [o \in Owners |-> <<>>]
  /\ h = NoHistory

Goto(c, pc) == call' = [call EXCEPT ![c].pc = pc]
\* After a mishap, one of the windows of the README, no history is kept.
Note(g, mishap) == h' = IF mishap \/ h.slipped
  THEN [NoHistory EXCEPT !.asked = g.asked, !.lost = TRUE, !.slipped = TRUE]
  ELSE [g EXCEPT !.settled = IF g.lost THEN {} ELSE @]
\* The thread's object as the table has it now, and the stored server.
Live == b.thread # None
Turn == IF Live THEN object[b.thread].turn ELSE None
Pending == IF Live THEN object[b.thread].pending ELSE {}
Server == IF b.server = None THEN NoProcess ELSE proc[b.server]
setState(state) ==
  object' = IF Live THEN [object EXCEPT ![b.thread].state = state] ELSE object

-----------------------------------------------------------------------------
(* Prompt, with ensureServer and openSession                               *)

Arrive(c) ==
  /\ call[c].pc = "new" /\ rec.live
  /\ call' = [call EXCEPT ![c] =
       IF Turn # None THEN [NoCall EXCEPT !.pc = "failed"]
                      ELSE [pc |-> "lock", nat |-> rec.native]]
  /\ UNCHANGED <<rec, b, object, run, proc, stream, respond, h>>

\* Mistake: no second look at b.server under the mutex.
MistakeSpawn(c) ==
  /\ call[c].pc = "lock" /\ b.starting = None /\ Goto(c, "spawning")
  /\ b' = [b EXCEPT !.starting = c] /\ proc' = [proc EXCEPT ![c].alive = TRUE]
  /\ UNCHANGED <<rec, object, run, stream, respond, h>>

\* ensureServer: both looks are one, for a stored server is never taken away.
ensureServer(c) ==
  /\ call[c].pc = "lock" /\ b.starting = None /\ b.server # None /\ Goto(c, "open")
  /\ UNCHANGED <<rec, b, object, run, proc, stream, respond, h>>

\* There is none: it is started under the mutex `starting`, and waited for.
spawn(c) ==
  /\ call[c].pc = "lock" /\ b.starting = None /\ b.server = None /\ Goto(c, "spawning")
  /\ b' = [b EXCEPT !.starting = c] /\ proc' = [proc EXCEPT ![c].alive = TRUE]
  /\ UNCHANGED <<rec, object, run, stream, respond, h>>

\* The address was announced, by a process that may have died since.
Listening(c) ==
  /\ call[c].pc = "spawning" /\ Goto(c, "open")
  /\ b' = [b EXCEPT !.server = c, !.starting = None]
  /\ stream' = "connecting"
  /\ UNCHANGED <<rec, object, run, proc, respond, h>>

Killed(s) == [proc EXCEPT ![s] = [NoProcess EXCEPT !.pipe = proc[s].pipe]]

\* The timer, or the caller gone: the process is killed.
SpawnFails(c) ==
  /\ call[c].pc = "spawning" /\ Goto(c, "failed") /\ proc' = Killed(c)
  /\ b' = [b EXCEPT !.starting = None]
  /\ UNCHANGED <<rec, object, run, stream, respond, h>>

\* A session is created unless the row has one; the thread object is new unless
\* there is one and the row had a session.
openSession(c) ==
  LET n == IF call[c].nat = None THEN c ELSE call[c].nat IN
  /\ call[c].pc = "open"
  /\ \/ /\ call[c].nat # None \/ Server.alive
        /\ call' = [call EXCEPT ![c] = [pc |-> "claim", nat |-> n]]
        /\ IF Live /\ call[c].nat # None
             THEN UNCHANGED <<rec, b, object, h>>
             ELSE /\ rec' = IF rec.live THEN [rec EXCEPT !.native = n] ELSE rec
                  /\ b' = [b EXCEPT !.thread = c, !.bySession = @ \cup {n}]
                  /\ object' = [object EXCEPT ![c] = newThread]
                  /\ Note(h, Live \/ ~rec.live)
     \/ call[c].nat = None /\ Goto(c, "failed") /\ UNCHANGED <<rec, b, object, h>>
  /\ UNCHANGED <<run, proc, stream, respond>>

\* The model the row asks for has no provider: the session and its object stay.
OptionInvalid(c) ==
  /\ call[c].pc = "claim" /\ Goto(c, "failed")
  /\ UNCHANGED <<rec, b, object, run, proc, stream, respond, h>>

\* The object is looked up again, and dereferenced though it may be gone: the
\* request's goroutine then panics.  It may have a turn by now.
Claim(c) ==
  LET t == b.thread IN
  /\ call[c].pc = "claim"
  /\ IF t = None
       THEN Goto(c, "panicked") /\ UNCHANGED <<object, h>>
       ELSE /\ Goto(c, "claimed")
            /\ object' = [object EXCEPT ![t] = [@ EXCEPT !.turn = c, !.interrupted = None,
                                                         !.started = c, !.usage = newThread.usage]]
            /\ Note(h, object[t].turn # None \/ object[t].started # None)
  /\ UNCHANGED <<rec, b, run, proc, stream, respond>>

-----------------------------------------------------------------------------
(* runTurn                                                                 *)

\* The server no longer has the session Discard deleted.
IsDeleted(n) == ~rec.live /\ n = rec.native

Post(c) ==
  proc' = IF ~Server.alive THEN proc
          ELSE IF IsDeleted(call[c].nat) THEN [proc EXCEPT ![b.server].failed = @ \cup {c}]
          ELSE [proc EXCEPT ![b.server].inbox = @ \cup {c}]

\* Mistake: the row is left as it was.
MistakePromptReturns(c) ==
  /\ call[c].pc = "claimed" /\ call' = [call EXCEPT ![c] = [NoCall EXCEPT !.pc = "returned"]]
  /\ run' = [run EXCEPT ![c].pc = "sent"] /\ Post(c)
  /\ UNCHANGED <<rec, b, object, stream, respond, h>>

\* turn_started and the echo are out; runTurn posts the message on its own.
PromptReturns(c) ==
  /\ call[c].pc = "claimed" /\ call' = [call EXCEPT ![c] = [NoCall EXCEPT !.pc = "returned"]]
  /\ setState("running")
  /\ run' = [run EXCEPT ![c].pc = "sent"] /\ Post(c)
  /\ UNCHANGED <<rec, b, stream, respond, h>>

\* Mistake: a request that failed ends the turn untold.
MistakeTurnAnswered(c) ==
  /\ run[c].pc = "sent" /\ Live /\ (c \in Server.answered \/ ~Server.alive)
  /\ object' = [object EXCEPT ![b.thread].turn = None]
  /\ run' = [run EXCEPT ![c] = IF c \in Server.answered
       THEN [pc |-> "closing", t |-> b.thread, id |-> Turn, mark |-> None, ok |-> TRUE]
       ELSE [NoRun EXCEPT !.pc = "gone"]]
  /\ UNCHANGED <<rec, b, call, proc, stream, respond, h>>

\* The answer, or an error; the turn, and its mark, are those the object has now.
TurnAnswered(c) ==
  LET ok == c \in Server.answered IN
  /\ run[c].pc = "sent" /\ (ok \/ c \in Server.failed \/ ~Server.alive)
  /\ IF Live
       THEN /\ object' = [object EXCEPT ![b.thread].turn = None, ![b.thread].interrupted = None]
            /\ run' = [run EXCEPT ![c] = [pc |-> "closing", t |-> b.thread, id |-> Turn,
                                          mark |-> object[b.thread].interrupted, ok |-> ok]]
            /\ Note(h, Turn # c)
       ELSE run' = [run EXCEPT ![c].pc = "gone"] /\ UNCHANGED <<object, h>>
  /\ proc' = [s \in Prompts |-> [proc[s] EXCEPT !.answered = @ \ {c}, !.failed = @ \ {c}]]
  /\ UNCHANGED <<rec, b, call, stream, respond>>

\* Mistake: the two reports of a message add up.
MistakeCounted(usage, m) == [usage EXCEPT ![m] = @ + 1]

Counted(usage, m) == [usage EXCEPT ![m] = 1]

\* The second section: the last message's usage, and turn_finished.
TurnFinished(c) ==
  LET t == run[c].t
      total == IF run[c].ok THEN Counted(object[t].usage, c) ELSE object[t].usage
  IN
  /\ run[c].pc = "closing" /\ run' = [run EXCEPT ![c] = [NoRun EXCEPT !.pc = "idle"]]
  /\ object' = [object EXCEPT ![t].usage = total, ![t].started = None]
  /\ Note([h EXCEPT !.finished = @ \cup {<<run[c].id, run[c].ok, total>>},
                    !.wrong = @ \/ run[c].mark \notin {None, run[c].id}],
          object[t].started # c)
  /\ UNCHANGED <<rec, b, call, proc, stream, respond>>

TurnIdle(c) ==
  /\ run[c].pc = "idle" /\ run' = [run EXCEPT ![c].pc = "gone"]
  /\ setState("idle")
  /\ Note(h, Turn # None)
  /\ UNCHANGED <<rec, b, call, proc, stream, respond>>

-----------------------------------------------------------------------------
(* Interrupt, Respond, Discard                                             *)

\* live, and the mark.  What /abort makes the server do it may do at any time.
Interrupt ==
  /\ rec.live /\ rec.native # None /\ b.server # None /\ Turn # None
  /\ object' = [object EXCEPT ![b.thread].interrupted = Turn]
  /\ UNCHANGED <<rec, b, call, run, proc, stream, respond, h>>

\* Mistake: the request stays pending until its answer is delivered.
MistakeRespondTakes(o, a) ==
  /\ respond[o] = <<>> /\ a \in Pending
  /\ respond' = [respond EXCEPT ![o] = <<a, Turn # None>>]
  /\ UNCHANGED <<rec, b, object, call, run, proc, stream, h>>

RespondTakes(o, a) ==
  /\ respond[o] = <<>> /\ a \in Pending
  /\ respond' = [respond EXCEPT ![o] = <<a, Turn # None>>]
  /\ object' = [object EXCEPT ![b.thread].pending = @ \ {a}]
  /\ UNCHANGED <<rec, b, call, run, proc, stream, h>>

\* Mistake: every answer is sent as that of a permission.
MistakeAnswerTo(a) == <<a[1], "permission">>

\* The request an answer names: permissions and questions have replies of their own.
AnswerTo(a) == a

\* The reply is taken; or the server no longer waits for it; or it is lost on its
\* way.  It is never put back.
Respond(o) ==
  LET a == AnswerTo(respond[o][1]) IN
  /\ respond[o] # <<>> /\ respond' = [respond EXCEPT ![o] = <<>>]
  /\ \/ /\ a \in Server.open /\ proc' = [proc EXCEPT ![b.server].open = @ \ {a}]
        /\ IF respond[o][2] THEN setState("running") ELSE UNCHANGED object
        /\ UNCHANGED h
     \/ a \notin Server.open /\ UNCHANGED <<proc, object, h>>
     \/ Note([h EXCEPT !.lost = TRUE], FALSE) /\ UNCHANGED <<proc, object>>
  /\ UNCHANGED <<rec, b, call, run, stream>>

\* The server forgets the session, and what it was doing in it.
Discard ==
  LET s == b.server IN
  /\ rec.live /\ rec' = [rec EXCEPT !.live = FALSE]
  /\ b' = [b EXCEPT !.thread = None, !.bySession = @ \ {rec.native}]
  /\ proc' = IF Server.alive /\ rec.native # None
               THEN [proc EXCEPT ![s].work = None, ![s].open = {}, ![s].inbox = {},
                                 ![s].failed = @ \cup ({proc[s].work} \ {None}) \cup proc[s].inbox]
               ELSE proc
  /\ UNCHANGED <<object, call, run, stream, respond, h>>

-----------------------------------------------------------------------------
(* The server (external)                                                   *)

\* What it says while nobody is subscribed is lost.
Says(s, p, g, lines) ==
  LET heard == stream \notin {"closed", "connecting"} /\ s = b.server IN
  /\ proc[s].alive /\ Len(proc[s].pipe) + Len(lines) <= MaxPipe
  /\ proc' = [proc EXCEPT ![s] = [p EXCEPT !.pipe = IF heard THEN @ \o lines ELSE @]]
  /\ Note([g EXCEPT !.lost = @ \/ ~heard], FALSE)
  /\ UNCHANGED <<rec, b, object, call, run, stream, respond>>

ServerTakes(s, c) ==
  /\ c \in proc[s].inbox /\ proc[s].work = None /\ proc[s].alive
  /\ proc' = [proc EXCEPT ![s].inbox = @ \ {c}, ![s].work = c,
                          ![s].sent = {}, ![s].completed = FALSE]
  /\ UNCHANGED <<rec, b, object, call, run, stream, respond, h>>

ServerSaysPart(s, i) ==
  LET m == proc[s].work IN
  /\ m # None /\ ~proc[s].completed /\ i = Cardinality(proc[s].sent) + 1
  /\ Says(s, [proc[s] EXCEPT !.sent = @ \cup {i}], h, <<<<"message.part.updated", m, i>>>>)

ServerAsks(s, kind) ==
  LET n == h.asked + 1 IN
  /\ proc[s].work # None /\ ~proc[s].completed /\ n \in Asks
  /\ Says(s, [proc[s] EXCEPT !.open = @ \cup {<<n, kind>>}], [h EXCEPT !.asked = n],
          <<<<"asked", proc[s].work, n, kind>>>>)

\* Another client answered.
ServerForgets(s, a) ==
  /\ a \in proc[s].open
  /\ Says(s, [proc[s] EXCEPT !.open = @ \ {a}], h, <<<<"replied", proc[s].work, a[1]>>>>)

ServerCompletes(s) ==
  LET m == proc[s].work IN
  /\ m # None /\ ~proc[s].completed /\ proc[s].open = {} /\ proc[s].sent = Parts
  /\ Says(s, [proc[s] EXCEPT !.completed = TRUE, !.sent = {}], h, <<<<"message.updated", m, 0>>>>)

ServerAnswers(s) ==
  LET m == proc[s].work IN
  /\ m # None /\ proc[s].completed /\ proc[s].alive
  /\ proc' = [proc EXCEPT ![s].work = None, ![s].answered = @ \cup {m}]
  /\ UNCHANGED <<rec, b, object, call, run, stream, respond, h>>

\* Aborted, or failed, with what it asked dropped unsaid.
ServerGivesUp(s) ==
  LET m == proc[s].work IN
  /\ m # None /\ proc[s].alive
  /\ proc' = [proc EXCEPT ![s].work = None, ![s].failed = @ \cup {m}, ![s].open = {}]
  /\ Note([h EXCEPT !.lost = @ \/ proc[s].open # {}], FALSE)
  /\ UNCHANGED <<rec, b, object, call, run, stream, respond>>

ServerDies(s) ==
  /\ proc[s].alive /\ proc' = Killed(s)
  /\ UNCHANGED <<rec, b, object, call, run, stream, respond, h>>

-----------------------------------------------------------------------------
(* The subscription                                                        *)

subscribe ==
  /\ stream = "connecting" /\ Server.alive
  /\ stream' = "read"
  /\ UNCHANGED <<rec, b, object, call, run, proc, respond, h>>

StreamBreaks ==
  /\ stream = "read" /\ stream' = "connecting"
  /\ proc' = [proc EXCEPT ![b.server].pipe = <<>>]
  /\ Note([h EXCEPT !.lost = @ \/ proc[b.server].pipe # <<>>], FALSE)
  /\ UNCHANGED <<rec, b, object, call, run, respond>>

Line == Head(proc[b.server].pipe)
HasLine == stream = "read" /\ Server.pipe # <<>>
Known == b.bySession # {} /\ Live
Event(kind) == HasLine /\ Known /\ Line[1] = kind
Rest == proc' = [proc EXCEPT ![b.server].pipe = Tail(@)]

onEventUnknown ==
  /\ HasLine /\ ~Known /\ Rest
  /\ UNCHANGED <<rec, b, object, call, run, stream, respond, h>>

\* Mistake: a part replaces the ones before it.
MistakeOnPartUpdated ==
  /\ Event("message.part.updated") /\ Rest
  /\ object' = [object EXCEPT ![b.thread].assembling[Line[2]] = {Line[3]}]
  /\ UNCHANGED <<rec, b, call, run, stream, respond, h>>

onPartUpdated ==
  /\ Event("message.part.updated") /\ Rest
  /\ object' = [object EXCEPT ![b.thread].assembling[Line[2]] = @ \cup {Line[3]}]
  /\ UNCHANGED <<rec, b, call, run, stream, respond, h>>

\* The message is settled from its parts, and counted while a turn runs.
onMessageUpdated ==
  LET t == b.thread
      m == Line[2]
      old == object[t]
  IN
  /\ Event("message.updated") /\ Rest
  /\ object' = [object EXCEPT ![t] = [old EXCEPT
       !.assembling[m] = {},
       !.usage = IF old.started # None THEN Counted(old.usage, m) ELSE old.usage]]
  /\ Note([h EXCEPT !.settled = @ \cup {<<m, old.assembling[m]>>}], FALSE)
  /\ UNCHANGED <<rec, b, call, run, stream, respond>>

Asked(kind) == Event("asked") /\ Line[4] = kind

\* Mistake: published, not remembered.
MistakeAddPending(kind) ==
  /\ Rest /\ stream' = "asked"
  /\ UNCHANGED <<rec, b, object, call, run, respond, h>>

addPending(kind) ==
  /\ object' = [object EXCEPT ![b.thread].pending = @ \cup {<<Line[3], kind>>}]
  /\ Rest /\ stream' = "asked"
  /\ UNCHANGED <<rec, b, call, run, respond, h>>

onPermissionAsked == Asked("permission") /\ addPending("permission")
onQuestionAsked == Asked("question") /\ addPending("question")

\* Mistake: what another client answered stays on offer.
MistakeForgetPending ==
  /\ Event("replied") /\ Rest
  /\ UNCHANGED <<rec, b, object, call, run, stream, respond, h>>

forgetPending ==
  LET t == b.thread
      mine == {a \in Pending : a[1] = Line[3]}
  IN
  /\ Event("replied") /\ Rest
  /\ object' = [object EXCEPT ![t].pending = @ \ mine]
  /\ stream' = IF mine # {} /\ object[t].turn # None
                 THEN "replied" ELSE stream
  /\ UNCHANGED <<rec, b, call, run, respond, h>>

SetsState ==
  /\ stream \in {"asked", "replied"} /\ stream' = "read"
  /\ setState(IF stream = "asked" THEN "waiting_input" ELSE "running")
  /\ UNCHANGED <<rec, b, call, run, proc, respond, h>>

-----------------------------------------------------------------------------
PromptStep(c) ==
  \/ Arrive(c) \/ ensureServer(c) \/ spawn(c) \/ Listening(c) \/ SpawnFails(c)
  \/ openSession(c) \/ OptionInvalid(c) \/ Claim(c) \/ PromptReturns(c)
  \/ TurnAnswered(c) \/ TurnFinished(c) \/ TurnIdle(c)

ServerStep(s) ==
  \/ ServerCompletes(s) \/ ServerAnswers(s)
  \/ ServerGivesUp(s) \/ ServerDies(s)
  \/ \E c \in Prompts : ServerTakes(s, c)
  \/ \E i \in Parts : ServerSaysPart(s, i)
  \/ \E a \in Requests : ServerForgets(s, a)
  \/ \E kind \in Kinds : ServerAsks(s, kind)

StreamStep ==
  \/ subscribe \/ StreamBreaks \/ onEventUnknown \/ onPartUpdated \/ onMessageUpdated
  \/ onPermissionAsked \/ onQuestionAsked \/ forgetPending \/ SetsState

Next ==
  \/ \E c \in Prompts : PromptStep(c) \/ ServerStep(c)
  \/ StreamStep \/ Discard \/ Interrupt
  \/ \E o \in Owners : Respond(o) \/ \E a \in Requests : RespondTakes(o, a)

Spec == Init /\ [][Next]_vars

-----------------------------------------------------------------------------
TypeOK ==
  /\ rec \in [live : BOOLEAN, native : Nobody]
  /\ b \in [server : Nobody, starting : Nobody, thread : Nobody, bySession : SUBSET Prompts]
  /\ object \in [Prompts -> [turn : Nobody, interrupted : Nobody, started : Nobody, usage : [Prompts -> 0..2],
       state : {"idle", "running", "waiting_input"}, pending : SUBSET Requests,
       assembling : [Prompts -> SUBSET Parts]]]
  /\ \A t \in Prompts : object[t].turn # None /\ ~h.slipped => object[t].started = object[t].turn
  /\ \A c \in Prompts : run[c].pc = "closing" => run[c].t # None /\ run[c].id \in Nobody

\* Every prompt shares one server: a burst of them spawns one.
OneServer ==
  /\ Cardinality({s \in Prompts : proc[s].alive}) <= 1
  /\ \A s \in Prompts : proc[s].alive => s \in {b.server, b.starting}

\* A prompt that was accepted ends with turn_finished, unless its thread was
\* deleted: the request that carries it is under way and is the thread's turn,
\* or its end is being, or was, told.
NoTurnIsDropped ==
  ~h.slipped /\ rec.live =>
    \A c \in Prompts : call[c].pc = "returned" =>
      \/ run[c].pc = "sent" /\ Turn = c
      \/ run[c].pc = "closing"
      \/ \E f \in h.finished : f[1] = c

\* While the request of a turn is under way its row does not read idle.
RunningIsNotIdle ==
  ~h.slipped /\ Live =>
    \A c \in Prompts : run[c].pc = "sent" => object[b.thread].state # "idle"

\* The usage a turn that was answered reports has its message exactly once,
\* whichever of the event and the answer came first.
UsageIsWhole == ~h.slipped => \A f \in h.finished : f[2] => f[3][f[1]] = 1

\* "The settled message also arrives over the event stream, so it is folded in
\* by id: whichever of the two is second changes nothing": the usage of the
\* turn that runs has no message of an earlier turn.
SecondChangesNothing ==
  \A t \in Prompts : object[t].started # None /\ ~h.slipped =>
    \A m \in Prompts \ {object[t].started} : object[t].usage[m] = 0

\* A settled message, which replaces what the browser put together, has every
\* part, unless an event was lost.
SettledIsWhole == ~h.slipped /\ ~h.lost => \A e \in h.settled : e[2] = Parts

InPipe(kind, n) == \E i \in DOMAIN Server.pipe : Server.pipe[i][1] = kind /\ Server.pipe[i][3] = n

\* What the server waits on is unread, or on offer to the owner, or in the
\* hands of one.
NoRequestForgotten ==
  ~h.lost => \A a \in Server.open :
    a \in Pending \/ InPipe("asked", a[1]) \/ \E o \in Owners : respond[o] # <<>> /\ respond[o][1] = a

\* What is on offer can still be answered, unless another client's answer is
\* still unread.  (The offers of a server that died are never withdrawn.)
PendingIsOpen ==
  ~h.lost /\ Server.alive => \A a \in Pending : a \in Server.open \/ InPipe("replied", a[1])

\* A turn told as interrupted is one the owner interrupted.
InterruptedIsTheOwners == ~h.wrong

\* Types, and one server for all prompts.
ServersSound == TypeOK /\ OneServer

\* Every turn that was accepted is told to its end, as what it was, and its row
\* says it runs.
TurnsTold == NoTurnIsDropped /\ RunningIsNotIdle /\ InterruptedIsTheOwners

\* What two reports are put together from, a message and its usage, is whole.
MessagesWhole == UsageIsWhole /\ SettledIsWhole

\* What is on offer to the owner is what the server waits for.
RequestsAgree == NoRequestForgotten /\ PendingIsOpen
======================================================================================================================================================
