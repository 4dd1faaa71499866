------------------------------ MODULE PiSession ------------------------------
(***************************************************************************)
(* One thread of the Pi backend (agents/pi): the session, the `pi`         *)
(* subprocess behind it, which the first prompt starts, the reaper stops   *)
(* when it has been idle and the next prompt starts again, and the dialogs *)
(* its extensions put to the owner.  A prompt claims the turn before       *)
(* anything else; what pi says is handled, in order, by the read loop of   *)
(* its process; pi can also open a turn by itself.                         *)
(*                                                                         *)
(* A process is named after the prompt that started it.  What is done      *)
(* under one lock is one step.                                             *)
(***************************************************************************)
EXTENDS Naturals, Sequences, FiniteSets

CONSTANTS Prompts,  \* the prompts the owner sends
          Owners,   \* request goroutines that answer dialogs
          MaxAsks,  \* bound: dialogs, and together steers and turns nobody prompted
          MaxPipe,  \* bound: lines a process wrote that are not read yet
          None

Extension == "extension"    \* who drives a turn nobody prompted

ASSUME PiAssumption ==
  MaxAsks \in Nat /\ MaxPipe \in Nat /\ None \notin Prompts /\ Extension \notin Prompts \cup {None}

VARIABLES
  s,        \* the session
  call,     \* the prompts under way
  proc,     \* the processes and what they wrote
  loop,     \* the read loop of each process
  respond,  \* the answers under way: <<process, dialog, running>> or <<>>
  reaper,   \* whether the reaper saw an idle session
  h         \* history: turns started and ended, dialogs answered, mishaps

vars == <<s, call, proc, loop, respond, reaper, h>>

Asks == 1..MaxAsks
NoCall == [pc |-> "new", p |-> None, answered |-> FALSE]
NoProcess == [alive |-> FALSE, stopping |-> FALSE, inbox |-> {}, pipe |-> <<>>,
              run |-> None, open |-> {}]
NoHistory == [ended |-> {}, answered |-> {}, twice |-> FALSE, echo |-> {},
              asked |-> 0, drove |-> 0, slipped |-> FALSE]

Init ==
  /\ s = [proc |-> None, state |-> "idle", pending |-> {}, turn |-> None,
          running |-> FALSE, echoed |-> FALSE]
  /\ call = [c \in Prompts |-> NoCall]
  /\ proc = [p \in Prompts |-> NoProcess]
  /\ loop = [p \in Prompts |-> "none"]
  /\ respond = [o \in Owners |-> <<>>]
  /\ reaper = FALSE
  /\ h = NoHistory

Goto(c, pc) == call' = [call EXCEPT ![c].pc = pc]
Return(c, pc) == call' = [call EXCEPT ![c] = [NoCall EXCEPT !.pc = pc]]
\* After a mishap, one of the windows of the README, no history is kept.
Note(g, mishap) == h' = IF mishap \/ h.slipped
  THEN [NoHistory EXCEPT !.asked = g.asked, !.drove = g.drove, !.slipped = TRUE] ELSE g
Settled == [s EXCEPT !.turn = None, !.running = FALSE]

-----------------------------------------------------------------------------
(* prompt, with ensureRunning and startProcess                             *)

Busy(c) ==
  /\ call[c].pc = "new" /\ s.running /\ Return(c, "failed")
  /\ UNCHANGED <<s, proc, loop, respond, reaper, h>>

\* Mistake: the turn in progress is looked at and claimed in two sections.
MistakeClaim(c) ==
  /\ call[c].pc = "new" /\ Goto(c, "claimed")
  /\ s' = [s EXCEPT !.turn = c, !.running = TRUE, !.echoed = FALSE]
  /\ Note(h, \E p \in Prompts : loop[p] = "settled")
  /\ UNCHANGED <<proc, loop, respond, reaper>>

\* Between the two sections of onSettled a turn is claimed that the second closes.
Claim(c) ==
  /\ call[c].pc = "new" /\ ~s.running /\ Goto(c, "claimed")
  /\ s' = [s EXCEPT !.turn = c, !.running = TRUE, !.echoed = FALSE]
  /\ Note(h, \E p \in Prompts : loop[p] = "settled")
  /\ UNCHANGED <<proc, loop, respond, reaper>>

Request(p, c, what) ==
  proc' = [proc EXCEPT ![p].inbox =
    IF proc[p].alive /\ ~proc[p].stopping THEN @ \cup {<<what, c>>} ELSE @]

\* ensureRunning found a process: the prompt is written to it.
Running(c) ==
  /\ call[c].pc = "claimed" /\ s.proc # None
  /\ call' = [call EXCEPT ![c].pc = "asking", ![c].p = s.proc]
  /\ Request(s.proc, c, "prompt")
  /\ UNCHANGED <<s, loop, respond, reaper, h>>

NotRunning(c) ==
  /\ call[c].pc = "claimed" /\ s.proc = None /\ Goto(c, "starting")
  /\ s' = [s EXCEPT !.state = "starting"]
  /\ UNCHANGED <<proc, loop, respond, reaper, h>>

\* start: the process is up before the session knows it.
Launch(c) ==
  /\ call[c].pc = "starting" /\ Goto(c, "launched")
  /\ proc' = [proc EXCEPT ![c].alive = TRUE] /\ loop' = [loop EXCEPT ![c] = "read"]
  /\ UNCHANGED <<s, respond, reaper, h>>

Handshake(c) ==
  /\ call[c].pc = "launched"
  /\ call' = [call EXCEPT ![c].pc = "handshake", ![c].p = c]
  /\ s' = [s EXCEPT !.proc = c] /\ Request(c, c, "get_state")
  /\ UNCHANGED <<loop, respond, reaper, h>>

\* The answer is read into the row (reconcile), the state set, and the prompt
\* written to the process that start returned.
Started(c) ==
  /\ call[c].pc = "handshake" /\ call[c].answered
  /\ call' = [call EXCEPT ![c].pc = "asking", ![c].answered = FALSE]
  /\ s' = [s EXCEPT !.state = "idle"] /\ Request(c, c, "prompt")
  /\ Note(h, s.turn # c)
  /\ UNCHANGED <<loop, respond, reaper>>

\* stopProcess takes the process the session has now, and closes its stdin.
StopProcess(p) == proc' = IF p = None THEN proc ELSE [proc EXCEPT ![p].stopping = TRUE]

HandshakeFails(c) ==
  /\ call[c].pc = "handshake"
  /\ call' = [call EXCEPT ![c].pc = "stopping", ![c].p = s.proc]
  /\ s' = [s EXCEPT !.proc = None] /\ StopProcess(s.proc)
  /\ UNCHANGED <<loop, respond, reaper, h>>

IsDone(p) == IF p = None THEN TRUE ELSE loop[p] \in {"closed", "exited", "gone"}

\* The prompt fails: start did, or the process it stopped is done, or the
\* request got an error, a timeout or no process to take it.
PromptFails(c) ==
  /\ \/ call[c].pc \in {"starting", "asking"}
     \/ call[c].pc = "stopping" /\ IsDone(call[c].p)
  /\ Return(c, "failed")

\* Mistake: the claim outlives the prompt that failed.
MistakeAbandonTurn(c) ==
  /\ PromptFails(c) /\ s' = [s EXCEPT !.state = "idle"]
  /\ UNCHANGED <<proc, loop, respond, reaper, h>>

\* abandonTurn does not ask whose turn it gives up.
abandonTurn(c) ==
  /\ PromptFails(c)
  /\ s' = [Settled EXCEPT !.state = "idle"]
  /\ Note(h, s.turn \notin {c, None})
  /\ UNCHANGED <<proc, loop, respond, reaper>>

\* Mistake: the state is left to agent_start.
MistakePromptReturns(c) ==
  /\ call[c].pc = "asking" /\ call[c].answered /\ Goto(c, "returned")
  /\ UNCHANGED <<s, proc, loop, respond, reaper, h>>

\* Accepted: the state is set and turn_started published, the turn having
\* perhaps ended meanwhile.  p stays, as history: which process was asked.
PromptReturns(c) ==
  /\ call[c].pc = "asking" /\ call[c].answered /\ Goto(c, "returned")
  /\ s' = [s EXCEPT !.state = "running"]
  /\ UNCHANGED <<proc, loop, respond, reaper, h>>

-----------------------------------------------------------------------------
(* interrupt, respond, the reaper, Discard                                 *)

\* Dialogs N written back to process p; pi takes an answer for one it opened.
Answer(q, p, N) == IF p = None THEN q ELSE [q EXCEPT ![p].open = @ \ N]
Answered(p, N) ==
  LET sent == IF p = None THEN {} ELSE {n \in N : n \in proc[p].open \cup h.answered} IN
  [h EXCEPT !.twice = @ \/ sent \cap h.answered # {}, !.answered = @ \cup sent]

\* Mistake: the dialogs are forgotten, pi not told.
MistakeInterrupt ==
  /\ s.proc # None /\ s.running /\ s.pending # {}
  /\ s' = [s EXCEPT !.pending = {}]
  /\ UNCHANGED <<call, proc, loop, respond, reaper, h>>

\* interrupt cancels the dialogs, then sends abort; its only effect is that pi
\* may settle.
Interrupt ==
  /\ s.proc # None /\ s.running /\ s.pending # {}
  /\ s' = [s EXCEPT !.pending = {}]
  /\ proc' = Answer(proc, s.proc, s.pending) /\ Note(Answered(s.proc, s.pending), FALSE)
  /\ UNCHANGED <<call, loop, respond, reaper>>

\* Mistake: the dialog stays pending until pi has the answer.
MistakeRespondTakes(o, n) ==
  /\ respond[o] = <<>> /\ n \in s.pending
  /\ respond' = [respond EXCEPT ![o] = <<s.proc, n, s.running>>]
  /\ UNCHANGED <<s, call, proc, loop, reaper, h>>

RespondTakes(o, n) ==
  /\ respond[o] = <<>> /\ n \in s.pending
  /\ s' = [s EXCEPT !.pending = @ \ {n}]
  /\ respond' = [respond EXCEPT ![o] = <<s.proc, n, s.running>>]
  /\ UNCHANGED <<call, proc, loop, reaper, h>>

Respond(o) ==
  LET p == respond[o][1]
      n == respond[o][2]
      sent == p # None /\ proc[p].alive
  IN
  /\ respond[o] # <<>> /\ respond' = [respond EXCEPT ![o] = <<>>]
  /\ IF sent THEN proc' = Answer(proc, p, {n}) /\ Note(Answered(p, {n}), FALSE)
             ELSE UNCHANGED proc /\ Note(h, p = None)
  /\ s' = IF sent /\ respond[o][3] THEN [s EXCEPT !.state = "running"] ELSE s
  /\ UNCHANGED <<call, loop, reaper>>

\* A prompt refreshes lastActive when it claims, and no call of one lasts the
\* idle timeout: a session that has been idle that long runs none.
ReapLooks ==
  /\ ~reaper /\ s.proc # None /\ s.state = "idle" /\ ~s.running /\ reaper' = TRUE
  /\ UNCHANGED <<s, call, proc, loop, respond, h>>

ReapStops ==
  /\ reaper /\ reaper' = FALSE
  /\ s' = [s EXCEPT !.proc = None] /\ StopProcess(s.proc)
  /\ UNCHANGED <<call, loop, respond, h>>

-----------------------------------------------------------------------------
(* pi (external)                                                           *)

PiStep(p, q, lines) ==
  /\ proc[p].alive /\ Len(proc[p].pipe) + Len(lines) <= MaxPipe
  /\ proc' = [proc EXCEPT ![p] = [q EXCEPT !.pipe = @ \o lines]]
  /\ UNCHANGED <<s, call, loop, respond, reaper>>

\* The verdict on a prompt may come before or after the turn's first events.
PiTakes(p, m) ==
  LET q == [proc[p] EXCEPT !.inbox = @ \ {m}]
      answer == <<<<"response", m[2]>>>>
      begin == <<<<"agent_start">>, <<"user", m[2]>>>>
  IN
  /\ m \in proc[p].inbox /\ UNCHANGED h
  /\ \/ m[1] = "get_state" /\ PiStep(p, q, answer)
     \/ /\ m[1] = "prompt" /\ proc[p].run = None
        /\ \E lines \in {answer \o begin, begin \o answer} :
             PiStep(p, [q EXCEPT !.run = m[2]], lines)

\* An extension opens a turn of its own, once pi has answered get_state.
PiDrives(p) ==
  /\ proc[p].run = None /\ h.drove < MaxAsks /\ Note([h EXCEPT !.drove = @ + 1], FALSE)
  /\ call[p].pc \notin {"launched", "handshake"}
  /\ PiStep(p, [proc[p] EXCEPT !.run = Extension], <<<<"agent_start">>>>)

\* The owner steers a turn that was told as started: steer, which only asks for
\* a process, passes the message on, and the run of the moment takes it as one of
\* the user's.
Steer(p) ==
  /\ s.proc = p /\ s.running /\ (s.turn # None => call[s.turn].pc = "returned")
  /\ proc[p].run # None /\ h.drove < MaxAsks /\ Note([h EXCEPT !.drove = @ + 1], FALSE)
  /\ PiStep(p, proc[p], <<<<"steer", proc[p].run>>>>)

PiAsks(p) ==
  LET n == h.asked + 1 IN
  /\ proc[p].run # None /\ n \in Asks /\ Note([h EXCEPT !.asked = n], FALSE)
  /\ PiStep(p, [proc[p] EXCEPT !.open = @ \cup {n}], <<<<"extension_ui_request", n>>>>)

\* A run does not settle while an extension waits on a dialog.
PiSettles(p) ==
  /\ proc[p].run # None /\ proc[p].open = {}
  /\ PiStep(p, [proc[p] EXCEPT !.run = None], <<<<"agent_settled", proc[p].run>>>>)
  /\ UNCHANGED h

\* It crashes, or ends because its stdin was closed, or is killed.
PiDies(p) ==
  /\ proc[p].alive
  /\ proc' = [proc EXCEPT ![p] = [NoProcess EXCEPT !.pipe = proc[p].pipe]]
  /\ UNCHANGED <<s, call, loop, respond, reaper, h>>

-----------------------------------------------------------------------------
(* The read loop                                                           *)

Line(p) == Head(proc[p].pipe)
HasLine(p, kind) == loop[p] = "read" /\ proc[p].pipe # <<>> /\ Line(p)[1] = kind
Rest(p) == [proc EXCEPT ![p].pipe = Tail(@)]

resolve(p) ==
  LET c == Line(p)[2] IN
  /\ HasLine(p, "response") /\ proc' = Rest(p)
  /\ call' = IF call[c].pc \in {"handshake", "asking"} /\ call[c].p = p
               THEN [call EXCEPT ![c].answered = TRUE] ELSE call
  /\ UNCHANGED <<s, loop, respond, reaper, h>>

openTurn(p) ==
  /\ HasLine(p, "agent_start") /\ proc' = Rest(p)
  /\ s' = IF s.running THEN s
          ELSE [s EXCEPT !.turn = None, !.running = TRUE, !.echoed = FALSE, !.state = "running"]
  /\ UNCHANGED <<call, loop, respond, reaper, h>>

UserMessage(p) == HasLine(p, "user") \/ HasLine(p, "steer")

\* Mistake: any user message of the turn is taken for the owner's prompt.
MistakeOnMessageEnd(p) ==
  /\ UserMessage(p) /\ proc' = Rest(p) /\ UNCHANGED s
  /\ Note([h EXCEPT !.echo = @ \cup {<<s.turn, Line(p)>>}], FALSE)
  /\ UNCHANGED <<call, loop, respond, reaper>>

\* A user message: the first of a prompted turn is the owner's prompt, a later
\* one is a steer.
onMessageEnd(p) ==
  /\ UserMessage(p) /\ proc' = Rest(p)
  /\ s' = [s EXCEPT !.echoed = TRUE]
  /\ IF s.echoed \/ s.turn = None THEN UNCHANGED h
     ELSE Note([h EXCEPT !.echo = @ \cup {<<s.turn, Line(p)>>}], FALSE)
  /\ UNCHANGED <<call, loop, respond, reaper>>

onUIRequest(p) ==
  /\ HasLine(p, "extension_ui_request") /\ proc' = Rest(p)
  /\ s' = [s EXCEPT !.pending = @ \cup {Line(p)[2]}]
  /\ loop' = [loop EXCEPT ![p] = "asked"]
  /\ UNCHANGED <<call, respond, reaper, h>>

AskedSetsState(p) ==
  /\ loop[p] = "asked" /\ loop' = [loop EXCEPT ![p] = "read"]
  /\ s' = [s EXCEPT !.state = "waiting_input"]
  /\ UNCHANGED <<call, proc, respond, reaper, h>>

\* onSettled: the dialogs are cancelled, then the turn closed, then the state
\* set.  The run that settled may be an extension's, and the turn a prompt's.
onSettled(p) ==
  /\ HasLine(p, "agent_settled")
  /\ s' = [s EXCEPT !.pending = {}]
  /\ proc' = Answer(Rest(p), s.proc, s.pending)
  /\ Note(Answered(s.proc, s.pending),
          s.turn \notin {Line(p)[2], None} \/ s.proc \notin {None, p})
  /\ loop' = [loop EXCEPT ![p] = "settled"]
  /\ UNCHANGED <<call, respond, reaper>>

SettledCloses(p) ==
  /\ loop[p] = "settled"
  /\ s' = Settled /\ Note([h EXCEPT !.ended = @ \cup ({s.turn} \ {None})], FALSE)
  /\ loop' = [loop EXCEPT ![p] = IF s.running THEN "idle" ELSE "read"]
  /\ UNCHANGED <<call, proc, respond, reaper>>

SettledSetsState(p) ==
  /\ loop[p] = "idle" /\ loop' = [loop EXCEPT ![p] = "read"]
  /\ s' = [s EXCEPT !.state = "idle"]
  /\ Note(h, s.proc # p /\ (s.proc # None \/ s.turn # None))
  /\ UNCHANGED <<call, proc, respond, reaper>>

readLoopEnds(p) ==
  /\ loop[p] = "read" /\ proc[p].pipe = <<>> /\ ~proc[p].alive
  /\ loop' = [loop EXCEPT ![p] = "closed"]
  /\ UNCHANGED <<s, call, proc, respond, reaper, h>>

\* Mistake: the turn's record outlives the turn.
MistakeOnExit(p) ==
  /\ loop[p] = "closed" /\ loop' = [loop EXCEPT ![p] = "exited"]
  /\ s' = [s EXCEPT !.proc = None, !.running = FALSE]
  /\ UNCHANGED <<call, proc, respond, reaper, h>>

\* Mistake: the session starts clean, and nobody is told of the turn.
MistakeExitSilent(p) ==
  /\ loop[p] = "closed" /\ loop' = [loop EXCEPT ![p] = "exited"]
  /\ s' = [Settled EXCEPT !.proc = None]
  /\ UNCHANGED <<call, proc, respond, reaper, h>>

\* onExit clears the session, whichever process it is that ended.
onExit(p) ==
  LET c == s.turn
      others == c # None /\ call[c].p # p    \* the turn of another process, or of none yet
  IN
  /\ loop[p] = "closed" /\ loop' = [loop EXCEPT ![p] = "exited"]
  /\ s' = [Settled EXCEPT !.proc = None]
  /\ Note([h EXCEPT !.ended = @ \cup ({c} \ {None})], others \/ s.proc \notin {None, p})
  /\ UNCHANGED <<call, proc, respond, reaper>>

\* cancelPending, which has a process to write to only when a new one is up.
ExitTells(p) ==
  /\ loop[p] = "exited" /\ loop' = [loop EXCEPT ![p] = "gone"]
  /\ s' = [s EXCEPT !.pending = {}, !.state = "idle"]
  /\ proc' = Answer(proc, s.proc, s.pending)
  /\ Note(Answered(s.proc, s.pending),
          \E q \in Prompts \ {p} : loop[q] \notin {"none", "gone"})
  /\ UNCHANGED <<call, respond, reaper>>

-----------------------------------------------------------------------------
PromptStep(c) ==
  \/ Running(c) \/ NotRunning(c) \/ Launch(c) \/ Handshake(c) \/ Started(c)
  \/ HandshakeFails(c) \/ abandonTurn(c) \/ PromptReturns(c)

LoopStep(p) ==
  \/ resolve(p) \/ openTurn(p) \/ onMessageEnd(p) \/ onUIRequest(p) \/ AskedSetsState(p)
  \/ onSettled(p) \/ SettledCloses(p) \/ SettledSetsState(p)
  \/ readLoopEnds(p) \/ onExit(p) \/ ExitTells(p)

Next ==
  \/ \E c \in Prompts : Busy(c) \/ Claim(c) \/ PromptStep(c) \/ LoopStep(c)
  \/ Interrupt \/ ReapLooks \/ ReapStops
  \/ \E o \in Owners : Respond(o) \/ \E n \in Asks : RespondTakes(o, n)
  \/ \E p \in Prompts : \E m \in proc[p].inbox : PiTakes(p, m)
  \/ \E p \in Prompts : PiDrives(p) \/ Steer(p) \/ PiAsks(p) \/ PiSettles(p) \/ PiDies(p)

Spec == Init /\ [][Next]_vars

-----------------------------------------------------------------------------
TypeOK ==
  /\ s \in [proc : Prompts \cup {None}, state : {"idle", "starting", "running", "waiting_input"},
            pending : SUBSET Asks, turn : Prompts \cup {None}, running : BOOLEAN,
            echoed : BOOLEAN]
  /\ s.turn # None => s.running
  /\ \A p \in Prompts : proc[p].open \subseteq Asks /\ Len(proc[p].pipe) <= MaxPipe
  /\ h.ended \subseteq Prompts

Exited(p) == loop[p] \in {"none", "exited", "gone"}

\* The thread is never busy for good: while it refuses prompts, a prompt is
\* still being sent, or a process that has a run, or its end to tell, is there
\* to finish the turn or to exit.
BusyMeansWorking ==
  s.running =>
    \/ \E c \in Prompts : call[c].pc \notin {"new", "failed", "returned"}
    \/ \E p \in Prompts : ~Exited(p) /\ (proc[p].run # None \/ proc[p].pipe # <<>>
                                          \/ loop[p] \in {"settled", "closed"} \/ ~proc[p].alive)

\* A prompt that was accepted ends with an event.
NoTurnIsDropped ==
  ~h.slipped =>
    \A c \in Prompts : call[c].pc = "returned" => s.turn = c \/ c \in h.ended

\* A dialog an extension waits on is unread, or the owner can answer it, or an
\* answer is on its way.
NoDialogForgotten ==
  ~h.slipped =>
    \A p \in Prompts : \A n \in proc[p].open :
      \/ \E i \in DOMAIN proc[p].pipe : proc[p].pipe[i] = <<"extension_ui_request", n>>
      \/ n \in s.pending
      \/ \E o \in Owners : respond[o] # <<>> /\ respond[o][2] = n
      \/ proc[p].stopping

\* A dialog gets one answer: the owners', the interrupt's or the end's.
OneAnswerEach == ~h.twice

\* The message the browser takes for the owner's prompt is the one the owner
\* sent, not a steer; it can be another's only in a run that is not the turn's:
\* of an extension, or of a prompt that was given up, by its timer or its
\* caller, and that pi took later.
IsPrompt(line, c) == line = <<"user", c>>
RunOf(line) == line[2]
EchoIsTheOwners ==
  ~h.slipped =>
    \A e \in h.echo :
      \/ IsPrompt(e[2], e[1])
      \/ RunOf(e[2]) # e[1] /\ (RunOf(e[2]) = Extension \/ call[RunOf(e[2])].pc = "failed")

\* While the turn of an accepted prompt runs its row does not read idle, which
\* is what keeps the reaper from stopping the process under it.
RunningIsNotIdle ==
  ~h.slipped =>
    \A c \in Prompts : call[c].pc = "returned" /\ s.turn = c => s.state # "idle"

\* One process per thread, those that were told to stop aside.
OneProcess ==
  h.slipped \/
    Cardinality({p \in Prompts : proc[p].alive /\ ~proc[p].stopping}) <= 1

\* Types, and one process for the session.
ProcessesSound == TypeOK /\ OneProcess

\* What an extension asks is answered, and once.
DialogsSound == NoDialogForgotten /\ OneAnswerEach

\* Every turn that was accepted is told to its end, and shows the prompt it is of.
TurnsTold == NoTurnIsDropped /\ EchoIsTheOwners

\* The session is busy only while its process works, and its row says so.
StateIsTrue == BusyMeansWorking /\ RunningIsNotIdle
=============================================================================
