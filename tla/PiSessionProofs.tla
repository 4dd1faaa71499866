--------------------------- MODULE PiSessionProofs ---------------------------
(***************************************************************************)
(* One `pi` process for a thread, and turns that end with an event, for    *)
(* any number of prompts, owners, dialogs and unread lines.                *)
(***************************************************************************)
EXTENDS PiSession, FiniteSetTheorems, TLAPS

-----------------------------------------------------------------------------
(* Types, variable by variable.                                            *)

Nobody == Prompts \cup {None}
PromptSteps == {"new", "claimed", "starting", "launched", "handshake", "asking", "stopping",
                "failed", "returned"}
LoopSteps == {"none", "read", "asked", "settled", "idle", "closed", "exited", "gone"}
RowStates == {"idle", "starting", "running", "waiting_input"}

Sessions == [proc : Nobody, state : RowStates, pending : SUBSET Asks, turn : Nobody,
             running : BOOLEAN, echoed : BOOLEAN]
SessionTyped == s \in Sessions /\ (s.turn # None => s.running)

Calls == [pc : PromptSteps, p : Nobody, answered : BOOLEAN]
CallsTyped == call \in [Prompts -> Calls]

Messages == {"prompt", "get_state"} \X Prompts
Lines == ({"response", "user"} \X Prompts) \cup ({"steer"} \X (Prompts \cup {Extension}))
         \cup ({"extension_ui_request"} \X Asks)
         \cup ({"agent_settled"} \X (Prompts \cup {Extension}))
         \cup {<<"agent_start">>}
Processes == [alive : BOOLEAN, stopping : BOOLEAN, inbox : SUBSET Messages, pipe : Seq(Lines),
              run : Nobody \cup {Extension}, open : SUBSET Asks]
Good(q) == q \in Processes /\ Len(q.pipe) <= MaxPipe
AllGood(P) == P \in [Prompts -> Processes] /\ \A p \in Prompts : Good(P[p])
ProcessesTyped == AllGood(proc)

LoopsTyped == loop \in [Prompts -> LoopSteps]

RespondTyped == respond \in [Owners -> {<<>>} \cup (Nobody \X Asks \X BOOLEAN)]

IsHistory(g) ==
  /\ g = [ended |-> g.ended, answered |-> g.answered, twice |-> g.twice, echo |-> g.echo,
          asked |-> g.asked, drove |-> g.drove, slipped |-> g.slipped]
  /\ g.ended \subseteq Prompts /\ g.slipped \in BOOLEAN
HistoryTyped == IsHistory(h)

Typed == /\ SessionTyped /\ CallsTyped /\ ProcessesTyped /\ LoopsTyped /\ RespondTyped
         /\ HistoryTyped

-----------------------------------------------------------------------------
(* The invariant.                                                          *)

\* A read loop ends when its process is dead.
Done == {"closed", "exited", "gone"}
DeadInv == \A p \in Prompts : loop[p] \in Done => ~proc[p].alive

\* No process has heard of a prompt before it is written to one.
Settles(pipe, c) == \E i \in DOMAIN pipe : pipe[i] = <<"agent_settled", c>>
Knows(q, c) == <<"prompt", c>> \in q.inbox \/ q.run = c \/ Settles(q.pipe, c)
Unsent == {"new", "claimed", "starting", "launched", "handshake"}
SentInv == \A c, p \in Prompts : call[c].pc \in Unsent => ~Knows(proc[p], c)

\* Before the handshake a prompt has no process.
Early == {"claimed", "starting", "launched"}
PlaceInv == \A c \in Prompts : call[c].pc \in Early \cup {"new"} => call[c].p = None

\* Outside the mishaps: before its handshake a prompt is the turn of the
\* session, which has no process once that was looked at; a settling that is
\* half done is of no such prompt; and what was claimed is the turn, or ended.
EarlyInv == \A c \in Prompts : call[c].pc \in Early => s.turn = c
StartInv == \A c \in Prompts : call[c].pc \in {"starting", "launched"} => s.proc = None
SettleInv == \A p, c \in Prompts : loop[p] = "settled" /\ s.turn = c => call[c].pc \notin Early
ToldInv == \A c \in Prompts : call[c].pc \notin {"new", "failed"} => s.turn = c \/ c \in h.ended

\* A process that was not told to stop is the session's, or is not known to it yet.
Active(q) == q.alive /\ ~q.stopping
ActiveInv == \A p \in Prompts : Active(proc[p]) => s.proc = p \/ call[p].pc = "launched"

CleanInv == ~h.slipped => EarlyInv /\ StartInv /\ SettleInv /\ ToldInv /\ ActiveInv

IInv == Typed /\ DeadInv /\ SentInv /\ PlaceInv /\ CleanInv

-----------------------------------------------------------------------------
(* What the other properties need on top of it.                            *)

\* A process that is dead does nothing; one that was not launched has said
\* nothing, and one whose loop is over has nothing more to say.  The session's
\* process has had its handshake, and its turn is of a prompt under way or done.
LifeInv == \A p \in Prompts :
  /\ ~proc[p].alive => proc[p].inbox = {} /\ proc[p].run = None /\ proc[p].open = {}
  /\ loop[p] = "none" => ~proc[p].alive
  /\ loop[p] \in {"none"} \cup Done => proc[p].pipe = <<>>
  /\ call[p].pc \in {"new", "claimed", "starting"} => loop[p] = "none"
  /\ call[p].pc = "launched" =>
       proc[p].inbox = {} /\ proc[p].pipe = <<>> /\ proc[p].run = None /\ proc[p].open = {}
  /\ call[p].pc \in Early \cup {"new"} => s.proc # p /\ ~call[p].answered
  /\ s.turn = p => call[p].pc \notin {"new", "failed"}

\* Lines that wait to be read, and their order.
Has(pipe, line) == \E i \in DOMAIN pipe : pipe[i] = line
Ends(pipe) == \E i \in DOMAIN pipe : pipe[i][1] = "agent_settled"
EndFollows(pipe, line) == \A i \in DOMAIN pipe :
  pipe[i] = line => \E j \in DOMAIN pipe : i < j /\ pipe[j][1] = "agent_settled"
NotAfter(pipe, first, line) == \A i, j \in DOMAIN pipe :
  i < j /\ pipe[i] = first => pipe[j] # line
Precedes(pipe, first, line) == \A j \in DOMAIN pipe :
  pipe[j] = line => \E i \in DOMAIN pipe : i < j /\ pipe[i] = first

\* Nobody is answered before the handshake, which is answered once, and before
\* the prompt is written.
Answers(p, c) == Has(proc[p].pipe, <<"response", c>>)
AskInv == \A c, p \in Prompts :
  /\ call[c].pc \in Early \cup {"new"} => <<"get_state", c>> \notin proc[p].inbox /\ ~Answers(p, c)
  /\ call[c].pc = "handshake" => call[c].p = c
  /\ <<"get_state", c>> \in proc[p].inbox =>
       /\ p = c /\ call[c].pc \in {"handshake", "stopping", "failed"}
       /\ call[c].pc = "handshake" => ~Answers(p, c) /\ ~call[c].answered
  /\ call[c].pc = "handshake" /\ Answers(p, c) =>
       /\ p = c /\ ~call[c].answered
       /\ NotAfter(proc[p].pipe, <<"response", c>>, <<"response", c>>)

\* What pi said of a run is followed by its end, or the run goes on, or pi died.
Runs(q) == q.run # None \/ ~q.alive
RunInv == \A p \in Prompts :
  /\ Runs(proc[p]) \/ EndFollows(proc[p].pipe, <<"agent_start">>)
  /\ \A c \in Prompts : call[c].pc = "asking" /\ call[c].p = p =>
       Runs(proc[p]) \/ EndFollows(proc[p].pipe, <<"response", c>>)

\* A session is busy with a prompt that is not answered, or with a process.
Sending(q) == q.pc \notin {"new", "failed", "returned"} /\ ~(q.pc = "asking" /\ q.answered)
Working(p) == ~Exited(p) /\ (Runs(proc[p]) \/ Ends(proc[p].pipe) \/ loop[p] \in {"settled", "closed"})
BusyInv == s.running => (\E c \in Prompts : Sending(call[c])) \/ \E p \in Prompts : Working(p)

\* A turn that pi accepted has the loop of its process, which does not close another.
Accepted(q) == q.pc = "returned" \/ (q.pc = "asking" /\ q.answered)
AcceptedInv == \A c \in Prompts : Accepted(call[c]) /\ s.turn = c =>
  \E p \in Prompts : call[c].p = p /\ ~Exited(p) /\ loop[p] # "idle"

\* Of a prompt one process hears, which is asked for it, runs it and ends it, in
\* this order.
Shows(pipe, c) == Has(pipe, <<"user", c>>) \/ Has(pipe, <<"steer", c>>)
Heard(q, c) == Knows(q, c) \/ Shows(q.pipe, c)
Orderly(q, c) ==
  /\ <<"prompt", c>> \in q.inbox => q.run # c /\ ~Settles(q.pipe, c) /\ ~Shows(q.pipe, c)
  /\ Settles(q.pipe, c) => q.run # c
  /\ NotAfter(q.pipe, <<"agent_settled", c>>, <<"user", c>>)
  /\ NotAfter(q.pipe, <<"agent_settled", c>>, <<"steer", c>>)
HeardInv == \A c, p \in Prompts :
  /\ call[c].pc \in Unsent \cup {"stopping"} => ~Heard(proc[p], c)
  /\ call[c].pc \in {"asking", "returned"} /\ Heard(proc[p], c) => call[c].p = p
  /\ Orderly(proc[p], c)

\* A steer comes after the prompt of its run.
SteerInv == \A c, p \in Prompts : s.turn = c /\ ~s.echoed =>
  /\ proc[p].run = c => Has(proc[p].pipe, <<"user", c>>)
  /\ Precedes(proc[p].pipe, <<"user", c>>, <<"steer", c>>)

\* Outside the mishaps.  The process of the turn is the session's.
ProcInv == \A c \in Prompts : call[c].pc \in {"handshake", "asking", "returned"} /\ s.turn = c =>
  s.proc \in {call[c].p, None}
RowInv == \A c \in Prompts : call[c].pc = "returned" /\ s.turn = c => s.state # "idle"

\* A turn that ended, or is being closed, has nothing left to say.
Quiet(c) == \A p \in Prompts :
  <<"prompt", c>> \notin proc[p].inbox /\ proc[p].run # c /\ ~Shows(proc[p].pipe, c)
EndedInv == \A c \in h.ended :
  s.turn # c /\ call[c].pc \notin Early \cup {"new"} /\ (call[c].pc = "failed" \/ Quiet(c))
ClosingInv == \A p, c \in Prompts : loop[p] = "settled" /\ s.turn = c =>
  call[c].pc \in {"asking", "returned"} /\ Quiet(c)
Excused(c, r) == r # c /\ (r = Extension \/ (r \in Prompts /\ call[r].pc = "failed"))
EchoInv == \A e \in h.echo : IsPrompt(e[2], e[1]) \/ Excused(e[1], RunOf(e[2]))

\* A dialog that is open is unread, pending or being answered, by its process.
Unread(p, n) == Has(proc[p].pipe, <<"extension_ui_request", n>>)
Answering(o, n) == respond[o] # <<>> /\ respond[o][2] = n
OpenInv == \A p \in Prompts, n \in Asks : n \in proc[p].open /\ ~proc[p].stopping =>
  Unread(p, n) \/ n \in s.pending \/ \E o \in Owners : Answering(o, n)
TakenInv == \A o \in Owners, p \in Prompts, n \in Asks :
  Answering(o, n) /\ n \in proc[p].open /\ ~proc[p].stopping => respond[o][1] = p

-----------------------------------------------------------------------------
(* Lines that wait to be read, after a step of pi and after one of the loop. *)

LEMMA AppendedLines ==
  ASSUME NEW pipe \in Seq(Lines), NEW lines \in Seq(Lines)
  PROVE  /\ pipe \o lines \in Seq(Lines) /\ Len(pipe \o lines) = Len(pipe) + Len(lines)
         /\ \A i \in DOMAIN pipe : i \in DOMAIN (pipe \o lines) /\ (pipe \o lines)[i] = pipe[i]
         /\ \A i \in DOMAIN lines : /\ Len(pipe) + i \in DOMAIN (pipe \o lines)
                                    /\ (pipe \o lines)[Len(pipe) + i] = lines[i]
         /\ \A i \in DOMAIN (pipe \o lines) : i \notin DOMAIN pipe =>
              /\ i - Len(pipe) \in DOMAIN lines /\ i > Len(pipe)
              /\ (pipe \o lines)[i] = lines[i - Len(pipe)]
OBVIOUS

LEMMA RestLines ==
  ASSUME NEW pipe \in Seq(Lines), pipe # <<>>
  PROVE  /\ Tail(pipe) \in Seq(Lines) /\ 1 \in DOMAIN pipe /\ Head(pipe) = pipe[1]
         /\ \A i \in DOMAIN Tail(pipe) : i + 1 \in DOMAIN pipe /\ Tail(pipe)[i] = pipe[i + 1] /\ i > 0
         /\ \A i \in DOMAIN pipe : i # 1 => i - 1 \in DOMAIN Tail(pipe) /\ Tail(pipe)[i - 1] = pipe[i]
OBVIOUS

LEMMA HasAppended ==
  ASSUME NEW pipe \in Seq(Lines), NEW lines \in Seq(Lines), NEW line
  PROVE  Has(pipe \o lines, line) <=> Has(pipe, line) \/ Has(lines, line)
<1> DEFINE all == pipe \o lines
<1>1. Has(all, line) => Has(pipe, line) \/ Has(lines, line)
  BY AppendedLines DEF Has
<1>2. Has(pipe, line) => Has(all, line)
  BY AppendedLines DEF Has
<1>3. Has(lines, line) => Has(all, line)
  <2> SUFFICES ASSUME NEW i \in DOMAIN lines, lines[i] = line PROVE Has(all, line)
    BY DEF Has
  <2>1. Len(pipe) + i \in DOMAIN all /\ all[Len(pipe) + i] = line
    BY AppendedLines
  <2> QED BY <2>1 DEF Has
<1> QED BY <1>1, <1>2, <1>3

LEMMA HasRest ==
  ASSUME NEW pipe \in Seq(Lines), pipe # <<>>, NEW line
  PROVE  Has(pipe, line) <=> line = Head(pipe) \/ Has(Tail(pipe), line)
<1>1. Has(pipe, line) => line = Head(pipe) \/ Has(Tail(pipe), line)
  <2> SUFFICES ASSUME NEW i \in DOMAIN pipe, pipe[i] = line, i # 1 PROVE Has(Tail(pipe), line)
    BY RestLines DEF Has
  <2>1. i - 1 \in DOMAIN Tail(pipe) /\ Tail(pipe)[i - 1] = line
    BY RestLines
  <2> QED BY <2>1 DEF Has
<1>2. line = Head(pipe) \/ Has(Tail(pipe), line) => Has(pipe, line)
  BY RestLines DEF Has
<1> QED BY <1>1, <1>2

LEMMA EndsAppended ==
  ASSUME NEW pipe \in Seq(Lines), NEW lines \in Seq(Lines), Ends(pipe) \/ Ends(lines)
  PROVE  Ends(pipe \o lines)
<1>1. ASSUME Ends(lines) PROVE Ends(pipe \o lines)
  <2>1. PICK i \in DOMAIN lines : lines[i][1] = "agent_settled"
    BY <1>1 DEF Ends
  <2>2. /\ Len(pipe) + i \in DOMAIN (pipe \o lines)
        /\ (pipe \o lines)[Len(pipe) + i][1] = "agent_settled"
    BY <2>1, AppendedLines
  <2> QED BY <2>2 DEF Ends
<1> QED BY <1>1, AppendedLines DEF Ends

LEMMA EndsRest ==
  ASSUME NEW pipe \in Seq(Lines), pipe # <<>>, Ends(pipe), Head(pipe)[1] # "agent_settled"
  PROVE  Ends(Tail(pipe))
<1>1. PICK i \in DOMAIN pipe : pipe[i][1] = "agent_settled"
  BY DEF Ends
<1>2. i - 1 \in DOMAIN Tail(pipe) /\ Tail(pipe)[i - 1][1] = "agent_settled"
  BY <1>1, RestLines
<1> QED BY <1>2 DEF Ends

LEMMA EndFollowsAppended ==
  ASSUME NEW pipe \in Seq(Lines), NEW lines \in Seq(Lines), NEW line,
         EndFollows(pipe, line), ~Has(lines, line)
  PROVE  EndFollows(pipe \o lines, line)
BY AppendedLines DEF EndFollows, Has

LEMMA EndFollowsEnd ==
  ASSUME NEW pipe \in Seq(Lines), NEW end \in Lines, end[1] = "agent_settled",
         NEW line, line[1] # "agent_settled"
  PROVE  EndFollows(pipe \o <<end>>, line)
<1> DEFINE all == pipe \o <<end>>
<1>1. /\ DOMAIN all = 1..Len(pipe) + 1 /\ all[Len(pipe) + 1] = end /\ Len(pipe) \in Nat
  OBVIOUS
<1> HIDE DEF all
<1> QED BY <1>1 DEF EndFollows

LEMMA EndFollowsRest ==
  ASSUME NEW pipe \in Seq(Lines), pipe # <<>>, NEW line, EndFollows(pipe, line)
  PROVE  EndFollows(Tail(pipe), line) /\ (Head(pipe) = line => Ends(Tail(pipe)))
<1>1. EndFollows(Tail(pipe), line)
  <2> SUFFICES ASSUME NEW i \in DOMAIN Tail(pipe), Tail(pipe)[i] = line
               PROVE  \E j \in DOMAIN Tail(pipe) : i < j /\ Tail(pipe)[j][1] = "agent_settled"
    BY DEF EndFollows
  <2>1. i + 1 \in DOMAIN pipe /\ pipe[i + 1] = line /\ i \in Nat
    BY RestLines
  <2>2. PICK j \in DOMAIN pipe : i + 1 < j /\ pipe[j][1] = "agent_settled"
    BY <2>1 DEF EndFollows
  <2>3. j - 1 \in DOMAIN Tail(pipe) /\ Tail(pipe)[j - 1] = pipe[j] /\ i < j - 1
    BY <2>1, <2>2, RestLines
  <2> QED BY <2>2, <2>3
<1>2. ASSUME Head(pipe) = line PROVE Ends(Tail(pipe))
  <2>1. PICK j \in DOMAIN pipe : 1 < j /\ pipe[j][1] = "agent_settled"
    BY <1>2, RestLines DEF EndFollows
  <2>2. j - 1 \in DOMAIN Tail(pipe) /\ Tail(pipe)[j - 1][1] = "agent_settled"
    BY <2>1, RestLines
  <2> QED BY <2>2 DEF Ends
<1> QED BY <1>1, <1>2

LEMMA NotAfterAppended ==
  ASSUME NEW pipe \in Seq(Lines), NEW lines \in Seq(Lines), NEW first, NEW line,
         NotAfter(pipe, first, line), NotAfter(lines, first, line),
         ~Has(pipe, first) \/ ~Has(lines, line)
  PROVE  NotAfter(pipe \o lines, first, line)
<1> DEFINE all == pipe \o lines
<1> SUFFICES ASSUME NEW i \in DOMAIN all, NEW j \in DOMAIN all, i < j, all[i] = first, all[j] = line
             PROVE  FALSE
  BY DEF NotAfter
<1>1. CASE j \in DOMAIN pipe
  <2>1. i \in DOMAIN pipe
    BY <1>1
  <2> QED BY <1>1, <2>1, AppendedLines DEF NotAfter
<1>2. CASE j \notin DOMAIN pipe /\ i \in DOMAIN pipe
  BY <1>2, AppendedLines DEF Has
<1>3. CASE j \notin DOMAIN pipe /\ i \notin DOMAIN pipe
  <2>1. /\ i - Len(pipe) \in DOMAIN lines /\ lines[i - Len(pipe)] = first
        /\ j - Len(pipe) \in DOMAIN lines /\ lines[j - Len(pipe)] = line
        /\ i - Len(pipe) < j - Len(pipe)
    BY <1>3, AppendedLines
  <2> QED BY <2>1 DEF NotAfter
<1> QED BY <1>1, <1>2, <1>3

LEMMA NotAfterRest ==
  ASSUME NEW pipe \in Seq(Lines), pipe # <<>>, NEW first, NEW line, NotAfter(pipe, first, line)
  PROVE  NotAfter(Tail(pipe), first, line) /\ (Head(pipe) = first => ~Has(Tail(pipe), line))
<1>1. NotAfter(Tail(pipe), first, line)
  BY RestLines DEF NotAfter
<1>2. Head(pipe) = first => ~Has(Tail(pipe), line)
  BY RestLines DEF NotAfter, Has
<1> QED BY <1>1, <1>2

LEMMA PrecedesAppended ==
  ASSUME NEW pipe \in Seq(Lines), NEW lines \in Seq(Lines), NEW first, NEW line,
         Precedes(pipe, first, line), Has(pipe, first) \/ ~Has(lines, line)
  PROVE  Precedes(pipe \o lines, first, line)
<1> DEFINE all == pipe \o lines
<1> SUFFICES ASSUME NEW j \in DOMAIN all, all[j] = line
             PROVE  \E i \in DOMAIN all : i < j /\ all[i] = first
  BY DEF Precedes
<1>1. CASE j \in DOMAIN pipe
  BY <1>1, AppendedLines DEF Precedes
<1>2. CASE j \notin DOMAIN pipe
  <2>1. Has(lines, line) /\ j > Len(pipe)
    BY <1>2, AppendedLines DEF Has
  <2>2. PICK i \in DOMAIN pipe : pipe[i] = first
    BY <2>1 DEF Has
  <2> QED BY <2>1, <2>2, AppendedLines
<1> QED BY <1>1, <1>2

LEMMA PrecedesRest ==
  ASSUME NEW pipe \in Seq(Lines), pipe # <<>>, NEW first, NEW line,
         Precedes(pipe, first, line), Head(pipe) # first
  PROVE  Precedes(Tail(pipe), first, line) /\ Head(pipe) # line
<1>1. Head(pipe) # line
  BY RestLines DEF Precedes
<1>2. Precedes(Tail(pipe), first, line)
  <2> SUFFICES ASSUME NEW j \in DOMAIN Tail(pipe), Tail(pipe)[j] = line
               PROVE  \E i \in DOMAIN Tail(pipe) : i < j /\ Tail(pipe)[i] = first
    BY DEF Precedes
  <2>1. j + 1 \in DOMAIN pipe /\ pipe[j + 1] = line /\ j \in Nat
    BY RestLines
  <2>2. PICK i \in DOMAIN pipe : i < j + 1 /\ pipe[i] = first
    BY <2>1 DEF Precedes
  <2>3. i # 1
    BY <2>2, RestLines
  <2>4. i - 1 \in DOMAIN Tail(pipe) /\ Tail(pipe)[i - 1] = first /\ i - 1 < j
    BY <2>1, <2>2, <2>3, RestLines
  <2> QED BY <2>4
<1> QED BY <1>1, <1>2

-----------------------------------------------------------------------------
(* What a step leaves alone.                                               *)

LEMMA NoneIsNoPrompt ==
  None \notin Prompts /\ None \in Nobody /\ Prompts \subseteq Nobody
  /\ Extension \notin Nobody
BY PiAssumption DEF Nobody

TurnStays == s'.turn = s.turn /\ s'.proc = s.proc
\* A prompt stays where it is, or is over.
StepsStay == \A c \in Prompts :
  \/ call'[c].pc = call[c].pc /\ call'[c].p = call[c].p
  \/ call'[c].pc = "failed" /\ call[c].pc # "launched"
  \/ call'[c].pc = "returned" /\ call[c].pc = "asking"
\* q is p after a step that wakes nothing and writes no prompt.
Less(q, p) == /\ q.alive => p.alive
              /\ Active(q) => Active(p)
              /\ \A c \in Prompts : Knows(q, c) => Knows(p, c)
ProcessesStay == \A p \in Prompts : Less(proc'[p], proc[p])
LoopsStay == \A p \in Prompts : /\ loop'[p] = "settled" => loop[p] = "settled"
                                /\ loop'[p] \in Done => loop[p] \in Done \/ ~proc'[p].alive
ToldStays == ~h'.slipped => ~h.slipped /\ h.ended \subseteq h'.ended

\* A step in which no prompt moves, and the turn and the process stay.
LEMMA QuietStep ==
  ASSUME IInv, Typed', TurnStays, StepsStay, ProcessesStay, LoopsStay, ToldStays
  PROVE  IInv'
<1>1. DeadInv'
  BY DEF IInv, DeadInv, LoopsStay, ProcessesStay, Less
<1>2. SentInv'
  BY DEF IInv, SentInv, StepsStay, ProcessesStay, Less, Unsent
<1>3. PlaceInv'
  BY DEF IInv, PlaceInv, StepsStay, Early
<1>4. CleanInv'
  <2> SUFFICES ASSUME ~h'.slipped
               PROVE  (EarlyInv /\ StartInv /\ SettleInv /\ ToldInv /\ ActiveInv)'
    BY DEF CleanInv
  <2>1. EarlyInv /\ StartInv /\ SettleInv /\ ToldInv /\ ActiveInv /\ h.ended \subseteq h'.ended
    BY DEF ToldStays, IInv, CleanInv
  <2>2. EarlyInv' /\ StartInv'
    BY <2>1 DEF EarlyInv, StartInv, TurnStays, StepsStay, Early
  <2>3. SettleInv' /\ ToldInv'
    BY <2>1 DEF SettleInv, ToldInv, TurnStays, StepsStay, LoopsStay, Early
  <2>4. ActiveInv'
    BY <2>1 DEF ActiveInv, TurnStays, StepsStay, ProcessesStay, Less
  <2> QED BY <2>2, <2>3, <2>4
<1> QED BY <1>1, <1>2, <1>3, <1>4 DEF IInv

LEMMA TypedStays ==
  ASSUME IInv
  PROVE  /\ UNCHANGED s => SessionTyped' /\ TurnStays
         /\ UNCHANGED call => CallsTyped' /\ StepsStay
         /\ UNCHANGED proc => ProcessesTyped' /\ ProcessesStay
         /\ UNCHANGED loop => LoopsTyped' /\ LoopsStay
         /\ UNCHANGED respond => RespondTyped'
         /\ UNCHANGED h => HistoryTyped' /\ ToldStays
<1>1. UNCHANGED s => SessionTyped' /\ TurnStays
  BY DEF IInv, Typed, SessionTyped, TurnStays
<1>2. UNCHANGED call => CallsTyped' /\ StepsStay
  BY DEF IInv, Typed, CallsTyped, StepsStay
<1>3. UNCHANGED proc => ProcessesTyped' /\ ProcessesStay
  BY DEF IInv, Typed, ProcessesTyped, AllGood, ProcessesStay, Less
<1>4. UNCHANGED loop => LoopsTyped' /\ LoopsStay
  BY DEF IInv, Typed, LoopsTyped, LoopsStay
<1>5. UNCHANGED respond => RespondTyped'
  BY DEF IInv, Typed, RespondTyped
<1>6. UNCHANGED h => HistoryTyped' /\ ToldStays
  BY DEF IInv, Typed, HistoryTyped, IsHistory, ToldStays
<1> QED BY <1>1, <1>2, <1>3, <1>4, <1>5, <1>6

-----------------------------------------------------------------------------
(* The history.                                                            *)

Told(g, f) == IsHistory(f) /\ f.slipped = g.slipped /\ f.ended = g.ended

\* One field changes.
LEMMA HistoryFields ==
  ASSUME NEW g, IsHistory(g), NEW x
  PROVE  /\ Told(g, [g EXCEPT !.answered = x])
         /\ Told(g, [g EXCEPT !.twice = x])
         /\ Told(g, [g EXCEPT !.echo = x])
         /\ Told(g, [g EXCEPT !.asked = x])
         /\ Told(g, [g EXCEPT !.drove = x])
<1>1. Told(g, [g EXCEPT !.answered = x]) /\ Told(g, [g EXCEPT !.twice = x])
  BY DEF IsHistory, Told
<1>2. Told(g, [g EXCEPT !.echo = x]) /\ Told(g, [g EXCEPT !.asked = x])
  BY DEF IsHistory, Told
<1>3. Told(g, [g EXCEPT !.drove = x])
  BY DEF IsHistory, Told
<1> QED BY <1>1, <1>2, <1>3

LEMMA HistoryEnds ==
  ASSUME NEW g, IsHistory(g), NEW E \in SUBSET Prompts
  PROVE  /\ IsHistory([g EXCEPT !.ended = E]) /\ [g EXCEPT !.ended = E].slipped = g.slipped
         /\ [g EXCEPT !.ended = E].ended = E
BY DEF IsHistory

LEMMA AnsweredTold ==
  ASSUME IInv, NEW p, NEW N
  PROVE  Told(h, Answered(p, N))
<1> DEFINE sent == IF p = None THEN {} ELSE {n \in N : n \in proc[p].open \cup h.answered}
           twice == h.twice \/ sent \cap h.answered # {}
           answered == h.answered \cup sent
           k == [h EXCEPT !.twice = twice]
           f == [k EXCEPT !.answered = answered]
<1>1. IsHistory(h)
  BY DEF IInv, Typed, HistoryTyped
<1>2. Told(h, k)
  <2> HIDE DEF twice
  <2> QED BY <1>1, HistoryFields
<1>3. Answered(p, N) = [h EXCEPT !.twice = twice, !.answered = answered]
  BY DEF Answered
<1>4. [h EXCEPT !.twice = twice, !.answered = answered] = f
  <2> HIDE DEF twice, answered
  <2> QED OBVIOUS
<1> HIDE DEF k, answered, twice
<1>5. Told(k, f)
  BY <1>2, HistoryFields DEF Told
<1> HIDE DEF f
<1> QED BY <1>2, <1>3, <1>4, <1>5 DEF Told

\* A step with a mishap slips; one without keeps what was told.
LEMMA NoteTyped ==
  ASSUME IInv, NEW g, NEW mishap, IsHistory(g), g.slipped = h.slipped, h.ended \subseteq g.ended,
         Note(g, mishap)
  PROVE  HistoryTyped' /\ ToldStays /\ (~h'.slipped => ~mishap /\ h' = g)
<1>1. CASE mishap \/ h.slipped
  <2>1. h' = [NoHistory EXCEPT !.asked = g.asked, !.drove = g.drove, !.slipped = TRUE]
    BY <1>1 DEF Note
  <2> QED BY <2>1 DEF NoHistory, HistoryTyped, IsHistory, ToldStays
<1>2. CASE ~(mishap \/ h.slipped)
  <2>1. h' = g
    BY <1>2 DEF Note
  <2> QED BY <1>2, <2>1 DEF HistoryTyped, IsHistory, ToldStays
<1> QED BY <1>1, <1>2

LEMMA ToldTyped ==
  ASSUME IInv, NEW g, NEW mishap, Told(h, g), Note(g, mishap)
  PROVE  HistoryTyped' /\ ToldStays /\ (~h'.slipped => ~mishap /\ h' = g)
BY NoteTyped DEF Told

LEMMA NothingTold == IInv => Told(h, h)
BY DEF IInv, Typed, HistoryTyped, Told

-----------------------------------------------------------------------------
(* The processes.                                                          *)

Same(q, p) == /\ q.alive = p.alive /\ q.stopping = p.stopping
              /\ q.inbox = p.inbox /\ q.run = p.run /\ q.pipe = p.pipe

LEMMA SameIsLess == \A p, q : Same(q, p) => Less(q, p)
BY DEF Same, Less, Active, Knows

\* One process changes.
LEMMA ProcessTyped ==
  ASSUME IInv, NEW p \in Prompts, NEW q, Good(q), proc' = [proc EXCEPT ![p] = q]
  PROVE  /\ ProcessesTyped' /\ proc'[p] = q
         /\ \A x \in Prompts \ {p} : proc'[x] = proc[x]
         /\ Less(q, proc[p]) => ProcessesStay
<1>1. /\ proc' \in [Prompts -> Processes] /\ proc'[p] = q
      /\ \A x \in Prompts \ {p} : proc'[x] = proc[x]
  BY DEF IInv, Typed, ProcessesTyped, AllGood, Good
<1>2. ProcessesTyped'
  BY <1>1 DEF IInv, Typed, ProcessesTyped, AllGood
<1>3. Less(q, proc[p]) => ProcessesStay
  BY <1>1 DEF ProcessesStay, Less
<1> QED BY <1>1, <1>2, <1>3

LEMMA GoodProcess ==
  ASSUME IInv, NEW p \in Prompts
  PROVE  Good(proc[p]) /\ proc[p] \in Processes
BY DEF IInv, Typed, ProcessesTyped, AllGood, Good

\* An answer closes a dialog.
LEMMA AnswerTyped ==
  ASSUME IInv, NEW P, AllGood(P), NEW p \in Nobody, NEW N, proc' = Answer(P, p, N)
  PROVE  ProcessesTyped' /\ \A x \in Prompts : Same(proc'[x], P[x])
<1>1. CASE p = None
  BY <1>1 DEF Answer, ProcessesTyped, Same
<1>2. CASE p \in Prompts
  <2> DEFINE open == P[p].open \ N
             q == [P[p] EXCEPT !.open = open]
  <2>1. P[p] \in Processes /\ Len(P[p].pipe) <= MaxPipe
    BY <1>2 DEF AllGood, Good
  <2>2. open \in SUBSET Asks
    BY <2>1 DEF Processes
  <2>3. proc' = [P EXCEPT ![p] = q]
    BY <1>2, NoneIsNoPrompt DEF Answer
  <2> HIDE DEF open
  <2>4. q \in Processes /\ q.pipe = P[p].pipe /\ Same(q, P[p])
    BY <2>1, <2>2 DEF Processes, Same
  <2> HIDE DEF q
  <2> QED BY <1>2, <2>1, <2>3, <2>4 DEF ProcessesTyped, AllGood, Good, Same
<1> QED BY <1>1, <1>2 DEF Nobody

LEMMA SameStays ==
  ASSUME IInv, \A x \in Prompts : Same(proc'[x], proc[x])
  PROVE  ProcessesStay
BY SameIsLess DEF ProcessesStay

LEMMA AnswerStays ==
  ASSUME IInv, NEW p \in Nobody, NEW N, proc' = Answer(proc, p, N)
  PROVE  ProcessesTyped' /\ ProcessesStay
<1>1. AllGood(proc)
  BY DEF IInv, Typed, ProcessesTyped
<1> QED BY <1>1, AnswerTyped, SameStays

\* A process is told to stop.
LEMMA StopTyped ==
  ASSUME IInv, NEW p \in Nobody, StopProcess(p)
  PROVE  /\ ProcessesTyped' /\ ProcessesStay
         /\ \A x \in Prompts : Active(proc'[x]) => x # p /\ Active(proc[x])
<1>1. CASE p = None
  BY <1>1, TypedStays, NoneIsNoPrompt DEF StopProcess
<1>2. CASE p \in Prompts
  <2> DEFINE q == [proc[p] EXCEPT !.stopping = TRUE]
  <2>1. Good(proc[p]) /\ proc[p] \in Processes
    BY <1>2, GoodProcess
  <2>2. proc' = [proc EXCEPT ![p] = q]
    BY <1>2, NoneIsNoPrompt DEF StopProcess
  <2>3. q \in Processes /\ q.pipe = proc[p].pipe
        /\ q.alive = proc[p].alive /\ q.stopping /\ q.inbox = proc[p].inbox /\ q.run = proc[p].run
    BY <2>1 DEF Processes
  <2> HIDE DEF q
  <2>4. Good(q) /\ Less(q, proc[p])
    BY <2>1, <2>3 DEF Good, Less, Active, Knows
  <2>5. /\ ProcessesTyped' /\ ProcessesStay /\ proc'[p] = q
        /\ \A x \in Prompts \ {p} : proc'[x] = proc[x]
    BY <1>2, <2>2, <2>4, ProcessTyped
  <2> QED BY <1>2, <2>3, <2>5 DEF Active
<1> QED BY <1>1, <1>2 DEF Nobody

\* A request is written: a prompt is heard of only if it is what is written.
LEMMA RequestTyped ==
  ASSUME IInv, NEW p \in Prompts, NEW c \in Prompts, NEW what \in {"prompt", "get_state"},
         Request(p, c, what)
  PROVE  /\ ProcessesTyped'
         /\ \A x \in Prompts : proc'[x].alive = proc[x].alive /\ proc'[x].stopping = proc[x].stopping
         /\ \A x, d \in Prompts : Knows(proc'[x], d) => Knows(proc[x], d) \/ (what = "prompt" /\ d = c)
<1> DEFINE inbox == IF proc[p].alive /\ ~proc[p].stopping THEN proc[p].inbox \cup {<<what, c>>}
                                                         ELSE proc[p].inbox
           q == [proc[p] EXCEPT !.inbox = inbox]
<1>1. Good(proc[p]) /\ proc[p] \in Processes
  BY GoodProcess
<1>2. inbox \in SUBSET Messages
  BY <1>1 DEF Processes, Messages
<1>3. \A d \in Prompts : <<"prompt", d>> \in inbox
                         => <<"prompt", d>> \in proc[p].inbox \/ (what = "prompt" /\ d = c)
  <2>1. inbox \subseteq proc[p].inbox \cup {<<what, c>>}
    OBVIOUS
  <2> HIDE DEF inbox
  <2> QED BY <2>1
<1>4. proc' = [proc EXCEPT ![p] = q]
  BY DEF Request
<1> HIDE DEF inbox
<1>5. /\ q \in Processes /\ q.pipe = proc[p].pipe /\ q.alive = proc[p].alive /\ q.inbox = inbox
      /\ q.stopping = proc[p].stopping /\ q.run = proc[p].run
  BY <1>1, <1>2 DEF Processes
<1> HIDE DEF q
<1>6. Good(q)
  BY <1>1, <1>5 DEF Good
<1>7. /\ ProcessesTyped' /\ proc'[p] = q /\ \A x \in Prompts \ {p} : proc'[x] = proc[x]
  BY <1>4, <1>6, ProcessTyped
<1>8. \A d \in Prompts : Knows(q, d) => Knows(proc[p], d) \/ (what = "prompt" /\ d = c)
  BY <1>3, <1>5 DEF Knows
<1> QED BY <1>5, <1>7, <1>8

-----------------------------------------------------------------------------
(* What is said of a settled run is in the pipe it was written to.         *)

LEMMA SettlesAppended ==
  ASSUME NEW pipe \in Seq(Lines), NEW lines \in Seq(Lines), NEW c, Settles(pipe \o lines, c)
  PROVE  Settles(pipe, c) \/ Settles(lines, c)
<1>1. PICK i \in DOMAIN (pipe \o lines) : (pipe \o lines)[i] = <<"agent_settled", c>>
  BY DEF Settles
<1>2. CASE i <= Len(pipe)
  <2>1. i \in DOMAIN pipe /\ pipe[i] = <<"agent_settled", c>>
    BY <1>1, <1>2
  <2> QED BY <2>1 DEF Settles
<1>3. CASE i > Len(pipe)
  <2>1. i - Len(pipe) \in DOMAIN lines /\ lines[i - Len(pipe)] = <<"agent_settled", c>>
    BY <1>1, <1>3
  <2> QED BY <2>1 DEF Settles
<1> QED BY <1>1, <1>2, <1>3

LEMMA SettlesRest ==
  ASSUME NEW pipe \in Seq(Lines), pipe # <<>>, NEW c, Settles(Tail(pipe), c)
  PROVE  Settles(pipe, c)
<1>1. PICK i \in DOMAIN Tail(pipe) : Tail(pipe)[i] = <<"agent_settled", c>>
  BY DEF Settles
<1>2. i + 1 \in DOMAIN pipe /\ pipe[i + 1] = <<"agent_settled", c>>
  BY <1>1
<1> QED BY <1>2 DEF Settles

-----------------------------------------------------------------------------
(* The steps of a prompt.                                                  *)

LEMMA CallTyped ==
  ASSUME IInv, NEW c \in Prompts, NEW q \in Calls, call' = [call EXCEPT ![c] = q]
  PROVE  CallsTyped' /\ call'[c] = q /\ \A d \in Prompts \ {c} : call'[d] = call[d]
BY DEF IInv, Typed, CallsTyped

LEMMA GotoTyped ==
  ASSUME IInv, NEW c \in Prompts, NEW pc \in PromptSteps, Goto(c, pc)
  PROVE  /\ CallsTyped' /\ call'[c].pc = pc /\ call'[c].p = call[c].p
         /\ \A d \in Prompts \ {c} : call'[d] = call[d]
<1> DEFINE q == [call[c] EXCEPT !.pc = pc]
<1>1. call[c] \in Calls
  BY DEF IInv, Typed, CallsTyped
<1>2. q \in Calls /\ q.pc = pc /\ q.p = call[c].p
  BY <1>1 DEF Calls
<1>3. call' = [call EXCEPT ![c] = q]
  BY DEF Goto
<1> HIDE DEF q
<1> QED BY <1>2, <1>3, CallTyped

LEMMA ReturnTyped ==
  ASSUME IInv, NEW c \in Prompts, NEW pc \in PromptSteps, Return(c, pc)
  PROVE  /\ CallsTyped' /\ call'[c].pc = pc /\ \A d \in Prompts \ {c} : call'[d] = call[d]
<1> DEFINE q == [NoCall EXCEPT !.pc = pc]
<1>1. q \in Calls /\ q.pc = pc
  BY NoneIsNoPrompt DEF Calls, NoCall
<1>2. call' = [call EXCEPT ![c] = q]
  BY DEF Return
<1> HIDE DEF q
<1> QED BY <1>1, <1>2, CallTyped

LEMMA BusyKeeps ==
  ASSUME IInv, NEW c \in Prompts, Busy(c)
  PROVE  IInv'
<1>1. call[c].pc = "new" /\ Return(c, "failed") /\ UNCHANGED <<s, proc, loop, respond, h>>
  BY DEF Busy
<1>2. CallsTyped' /\ StepsStay
  BY <1>1, ReturnTyped DEF PromptSteps, StepsStay
<1> QED BY <1>1, <1>2, TypedStays, QuietStep DEF Typed

LEMMA ClaimKeeps ==
  ASSUME IInv, NEW c \in Prompts, Claim(c)
  PROVE  IInv'
<1>1. /\ call[c].pc = "new" /\ ~s.running /\ Goto(c, "claimed")
      /\ s' = [s EXCEPT !.turn = c, !.running = TRUE, !.echoed = FALSE]
      /\ Note(h, \E p \in Prompts : loop[p] = "settled") /\ UNCHANGED <<proc, loop, respond>>
  BY DEF Claim
<1>2. /\ CallsTyped' /\ call'[c].pc = "claimed" /\ call'[c].p = call[c].p
      /\ \A d \in Prompts \ {c} : call'[d] = call[d]
  BY <1>1, GotoTyped DEF PromptSteps
<1>3. SessionTyped' /\ s'.turn = c /\ s'.proc = s.proc /\ s.turn = None
  BY <1>1, NoneIsNoPrompt DEF IInv, Typed, SessionTyped, Sessions
<1>4. /\ HistoryTyped' /\ ToldStays
      /\ ~h'.slipped => h' = h /\ \A p \in Prompts : loop[p] # "settled"
  BY <1>1, NothingTold, ToldTyped
<1>5. Typed'
  BY <1>1, <1>2, <1>3, <1>4, TypedStays DEF Typed
<1>6. DeadInv' /\ SentInv' /\ PlaceInv'
  BY <1>1, <1>2 DEF IInv, DeadInv, SentInv, PlaceInv, Unsent, Early
<1>7. CleanInv'
  <2> SUFFICES ASSUME ~h'.slipped
               PROVE  (EarlyInv /\ StartInv /\ SettleInv /\ ToldInv /\ ActiveInv)'
    BY DEF CleanInv
  <2>1. EarlyInv /\ StartInv /\ SettleInv /\ ToldInv /\ ActiveInv /\ h' = h
    BY <1>4 DEF ToldStays, IInv, CleanInv
  <2>2. \A d \in Prompts : call[d].pc \notin Early
    BY <1>3, <2>1, NoneIsNoPrompt DEF EarlyInv
  <2>3. EarlyInv' /\ StartInv' /\ SettleInv'
    BY <1>1, <1>2, <1>3, <1>4, <2>1, <2>2 DEF EarlyInv, StartInv, SettleInv, Early
  <2>4. ToldInv'
    BY <1>2, <1>3, <2>1, NoneIsNoPrompt DEF ToldInv
  <2>5. ActiveInv'
    BY <1>1, <1>2, <1>3, <2>1 DEF ActiveInv
  <2> QED BY <2>3, <2>4, <2>5
<1> QED BY <1>5, <1>6, <1>7 DEF IInv

\* The claim, and the process it goes to.
LEMMA RunningKeeps ==
  ASSUME IInv, NEW c \in Prompts, Running(c)
  PROVE  IInv'
<1> DEFINE q == [call[c] EXCEPT !.pc = "asking", !.p = s.proc]
<1>1. /\ call[c].pc = "claimed" /\ s.proc \in Prompts /\ Request(s.proc, c, "prompt")
      /\ UNCHANGED <<s, loop, respond, h>>
  BY DEF Running, IInv, Typed, SessionTyped, Sessions, Nobody
<1>2. call[c] \in Calls
  BY DEF IInv, Typed, CallsTyped
<1>3. q \in Calls /\ q.pc = "asking"
  BY <1>1, <1>2 DEF Calls, PromptSteps, Nobody
<1>4. call' = [call EXCEPT ![c] = q]
  BY DEF Running
<1> HIDE DEF q
<1>5. CallsTyped' /\ call'[c].pc = "asking" /\ \A d \in Prompts \ {c} : call'[d] = call[d]
  BY <1>3, <1>4, CallTyped
<1>6. /\ ProcessesTyped'
      /\ \A x \in Prompts : proc'[x].alive = proc[x].alive /\ proc'[x].stopping = proc[x].stopping
      /\ \A x, d \in Prompts : Knows(proc'[x], d) => Knows(proc[x], d) \/ d = c
  BY <1>1, RequestTyped
<1>7. Typed'
  BY <1>1, <1>5, <1>6, TypedStays DEF Typed
<1>8. DeadInv' /\ SentInv' /\ PlaceInv'
  BY <1>1, <1>5, <1>6 DEF IInv, DeadInv, SentInv, PlaceInv, Unsent, Early
<1>9. CleanInv'
  BY <1>1, <1>5, <1>6
     DEF IInv, CleanInv, EarlyInv, StartInv, SettleInv, ToldInv, ActiveInv, Active, Early
<1> QED BY <1>7, <1>8, <1>9 DEF IInv

LEMMA NotRunningKeeps ==
  ASSUME IInv, NEW c \in Prompts, NotRunning(c)
  PROVE  IInv'
<1>1. /\ call[c].pc = "claimed" /\ s.proc = None /\ Goto(c, "starting")
      /\ s' = [s EXCEPT !.state = "starting"] /\ UNCHANGED <<proc, loop, respond, h>>
  BY DEF NotRunning
<1>2. /\ CallsTyped' /\ call'[c].pc = "starting" /\ call'[c].p = call[c].p
      /\ \A d \in Prompts \ {c} : call'[d] = call[d]
  BY <1>1, GotoTyped DEF PromptSteps
<1>3. SessionTyped' /\ s'.turn = s.turn /\ s'.proc = None
  BY <1>1 DEF IInv, Typed, SessionTyped, Sessions, RowStates
<1>4. Typed'
  BY <1>1, <1>2, <1>3, TypedStays DEF Typed
<1>5. DeadInv' /\ SentInv' /\ PlaceInv'
  BY <1>1, <1>2 DEF IInv, DeadInv, SentInv, PlaceInv, Unsent, Early
<1>6. CleanInv'
  <2> SUFFICES ASSUME ~h'.slipped
               PROVE  (EarlyInv /\ StartInv /\ SettleInv /\ ToldInv /\ ActiveInv)'
    BY DEF CleanInv
  <2>1. EarlyInv /\ StartInv /\ SettleInv /\ ToldInv /\ ActiveInv
    BY <1>1 DEF IInv, CleanInv
  <2>2. EarlyInv' /\ StartInv' /\ SettleInv' /\ ToldInv'
    BY <1>1, <1>2, <1>3, <2>1 DEF EarlyInv, StartInv, SettleInv, ToldInv, Early
  <2>3. ActiveInv'
    BY <1>1, <1>2, <1>3, <2>1, NoneIsNoPrompt DEF ActiveInv
  <2> QED BY <2>2, <2>3
<1> QED BY <1>4, <1>5, <1>6 DEF IInv

\* The process is up, and the session has none.
LEMMA LaunchKeeps ==
  ASSUME IInv, NEW c \in Prompts, Launch(c)
  PROVE  IInv'
<1> DEFINE q == [proc[c] EXCEPT !.alive = TRUE]
<1>1. /\ call[c].pc = "starting" /\ Goto(c, "launched") /\ proc' = [proc EXCEPT ![c] = q]
      /\ loop' = [loop EXCEPT ![c] = "read"] /\ UNCHANGED <<s, respond, h>>
  BY DEF Launch
<1>2. /\ CallsTyped' /\ call'[c].pc = "launched" /\ call'[c].p = call[c].p
      /\ \A d \in Prompts \ {c} : call'[d] = call[d]
  BY <1>1, GotoTyped DEF PromptSteps
<1>3. Good(proc[c]) /\ proc[c] \in Processes
  BY GoodProcess
<1>4. q \in Processes /\ q.pipe = proc[c].pipe /\ q.inbox = proc[c].inbox /\ q.run = proc[c].run
  BY <1>3 DEF Processes
<1>5. Good(q) /\ \A d \in Prompts : Knows(q, d) => Knows(proc[c], d)
  BY <1>3, <1>4 DEF Good, Knows
<1> HIDE DEF q
<1>6. ProcessesTyped' /\ proc'[c] = q /\ \A x \in Prompts \ {c} : proc'[x] = proc[x]
  BY <1>1, <1>5, ProcessTyped
<1>7. LoopsTyped' /\ loop'[c] = "read" /\ \A x \in Prompts \ {c} : loop'[x] = loop[x]
  BY <1>1 DEF IInv, Typed, LoopsTyped, LoopSteps
<1>8. Typed'
  BY <1>1, <1>2, <1>6, <1>7, TypedStays DEF Typed
<1>9. DeadInv' /\ PlaceInv'
  BY <1>1, <1>2, <1>6, <1>7 DEF IInv, DeadInv, PlaceInv, Early, Done
<1>10. SentInv'
  BY <1>1, <1>2, <1>5, <1>6 DEF IInv, SentInv, Unsent
<1>11. CleanInv'
  BY <1>1, <1>2, <1>6, <1>7
     DEF IInv, CleanInv, EarlyInv, StartInv, SettleInv, ToldInv, ActiveInv, Active, Early
<1> QED BY <1>8, <1>9, <1>10, <1>11 DEF IInv

\* No other process is active.
LEMMA HandshakeKeeps ==
  ASSUME IInv, NEW c \in Prompts, Handshake(c)
  PROVE  IInv'
<1> DEFINE q == [call[c] EXCEPT !.pc = "handshake", !.p = c]
<1>1. /\ call[c].pc = "launched" /\ s' = [s EXCEPT !.proc = c] /\ Request(c, c, "get_state")
      /\ UNCHANGED <<loop, respond, h>>
  BY DEF Handshake
<1>2. call[c] \in Calls
  BY DEF IInv, Typed, CallsTyped
<1>3. q \in Calls /\ q.pc = "handshake" /\ q.p = c
  BY <1>1, <1>2 DEF Calls, PromptSteps, Nobody
<1>4. call' = [call EXCEPT ![c] = q]
  BY DEF Handshake
<1> HIDE DEF q
<1>5. CallsTyped' /\ call'[c].pc = "handshake" /\ \A d \in Prompts \ {c} : call'[d] = call[d]
  BY <1>3, <1>4, CallTyped
<1>6. /\ ProcessesTyped'
      /\ \A x \in Prompts : proc'[x].alive = proc[x].alive /\ proc'[x].stopping = proc[x].stopping
      /\ \A x, d \in Prompts : Knows(proc'[x], d) => Knows(proc[x], d)
  BY <1>1, RequestTyped
<1>7. SessionTyped' /\ s'.turn = s.turn /\ s'.proc = c
  BY <1>1 DEF IInv, Typed, SessionTyped, Sessions, Nobody
<1>8. Typed'
  BY <1>1, <1>5, <1>6, <1>7, TypedStays DEF Typed
<1>9. DeadInv' /\ PlaceInv'
  BY <1>1, <1>5, <1>6 DEF IInv, DeadInv, PlaceInv, Early
<1>10. SentInv'
  BY <1>1, <1>5, <1>6 DEF IInv, SentInv, Unsent
<1>11. CleanInv'
  <2> SUFFICES ASSUME ~h'.slipped
               PROVE  (EarlyInv /\ StartInv /\ SettleInv /\ ToldInv /\ ActiveInv)'
    BY DEF CleanInv
  <2>1. EarlyInv /\ StartInv /\ SettleInv /\ ToldInv /\ ActiveInv
    BY <1>1 DEF IInv, CleanInv
  <2>2. s.turn = c /\ s.proc = None /\ \A d \in Prompts : call[d].pc \in Early => d = c
    BY <1>1, <2>1 DEF EarlyInv, StartInv, Early
  <2>3. EarlyInv' /\ StartInv' /\ SettleInv' /\ ToldInv'
    BY <1>1, <1>5, <1>7, <2>1, <2>2 DEF EarlyInv, StartInv, SettleInv, ToldInv, Early
  <2>4. ActiveInv'
    BY <1>6, <1>7, <2>1, <2>2, NoneIsNoPrompt DEF ActiveInv, Active, Early
  <2> QED BY <2>3, <2>4
<1> QED BY <1>8, <1>9, <1>10, <1>11 DEF IInv

LEMMA StartedKeeps ==
  ASSUME IInv, NEW c \in Prompts, Started(c)
  PROVE  IInv'
<1> DEFINE q == [call[c] EXCEPT !.pc = "asking", !.answered = FALSE]
<1>1. /\ call[c].pc = "handshake" /\ s' = [s EXCEPT !.state = "idle"] /\ Request(c, c, "prompt")
      /\ Note(h, s.turn # c) /\ UNCHANGED <<loop, respond>>
  BY DEF Started
<1>2. call[c] \in Calls
  BY DEF IInv, Typed, CallsTyped
<1>3. q \in Calls /\ q.pc = "asking"
  BY <1>1, <1>2 DEF Calls, PromptSteps
<1>4. call' = [call EXCEPT ![c] = q]
  BY DEF Started
<1> HIDE DEF q
<1>5. CallsTyped' /\ call'[c].pc = "asking" /\ \A d \in Prompts \ {c} : call'[d] = call[d]
  BY <1>3, <1>4, CallTyped
<1>6. /\ ProcessesTyped'
      /\ \A x \in Prompts : proc'[x].alive = proc[x].alive /\ proc'[x].stopping = proc[x].stopping
      /\ \A x, d \in Prompts : Knows(proc'[x], d) => Knows(proc[x], d) \/ d = c
  BY <1>1, RequestTyped
<1>7. SessionTyped' /\ s'.turn = s.turn /\ s'.proc = s.proc
  BY <1>1 DEF IInv, Typed, SessionTyped, Sessions, RowStates
<1>8. HistoryTyped' /\ ToldStays
  BY <1>1, NothingTold, ToldTyped
<1>9. Typed'
  BY <1>1, <1>5, <1>6, <1>7, <1>8, TypedStays DEF Typed
<1>10. DeadInv' /\ PlaceInv'
  BY <1>1, <1>5, <1>6 DEF IInv, DeadInv, PlaceInv, Early
<1>11. SentInv'
  BY <1>1, <1>5, <1>6 DEF IInv, SentInv, Unsent
<1>12. CleanInv'
  BY <1>1, <1>5, <1>6, <1>7, <1>8
     DEF IInv, CleanInv, EarlyInv, StartInv, SettleInv, ToldInv, ActiveInv, Active, Early, ToldStays
<1> QED BY <1>9, <1>10, <1>11, <1>12 DEF IInv

\* The process the session has now is told to stop, whosever it is.
LEMMA HandshakeFailsKeeps ==
  ASSUME IInv, NEW c \in Prompts, HandshakeFails(c)
  PROVE  IInv'
<1> DEFINE q == [call[c] EXCEPT !.pc = "stopping", !.p = s.proc]
<1>1. /\ call[c].pc = "handshake" /\ s' = [s EXCEPT !.proc = None] /\ StopProcess(s.proc)
      /\ s.proc \in Nobody /\ UNCHANGED <<loop, respond, h>>
  BY DEF HandshakeFails, IInv, Typed, SessionTyped, Sessions
<1>2. call[c] \in Calls
  BY DEF IInv, Typed, CallsTyped
<1>3. q \in Calls /\ q.pc = "stopping"
  BY <1>1, <1>2 DEF Calls, PromptSteps
<1>4. call' = [call EXCEPT ![c] = q]
  BY DEF HandshakeFails
<1> HIDE DEF q
<1>5. CallsTyped' /\ call'[c].pc = "stopping" /\ \A d \in Prompts \ {c} : call'[d] = call[d]
  BY <1>3, <1>4, CallTyped
<1>6. /\ ProcessesTyped' /\ ProcessesStay
      /\ \A x \in Prompts : Active(proc'[x]) => x # s.proc /\ Active(proc[x])
  BY <1>1, StopTyped
<1>7. SessionTyped' /\ s'.turn = s.turn /\ s'.proc = None
  BY <1>1, NoneIsNoPrompt DEF IInv, Typed, SessionTyped, Sessions
<1>8. Typed'
  BY <1>1, <1>5, <1>6, <1>7, TypedStays DEF Typed
<1>9. DeadInv' /\ PlaceInv'
  BY <1>1, <1>5, <1>6 DEF IInv, DeadInv, PlaceInv, Early, ProcessesStay, Less
<1>10. SentInv'
  BY <1>1, <1>5, <1>6 DEF IInv, SentInv, Unsent, ProcessesStay, Less
<1>11. CleanInv'
  BY <1>1, <1>5, <1>6, <1>7
     DEF IInv, CleanInv, EarlyInv, StartInv, SettleInv, ToldInv, ActiveInv, Early
<1> QED BY <1>8, <1>9, <1>10, <1>11 DEF IInv

\* The turn is given up; that of another is a mishap.
LEMMA abandonTurnKeeps ==
  ASSUME IInv, NEW c \in Prompts, abandonTurn(c)
  PROVE  IInv'
<1>1. /\ call[c].pc \in {"starting", "asking", "stopping"} /\ Return(c, "failed")
      /\ s' = [s EXCEPT !.turn = None, !.running = FALSE, !.state = "idle"]
      /\ Note(h, s.turn \notin {c, None}) /\ UNCHANGED <<proc, loop, respond>>
  BY DEF abandonTurn, PromptFails, Settled
<1>2. CallsTyped' /\ call'[c].pc = "failed" /\ \A d \in Prompts \ {c} : call'[d] = call[d]
  BY <1>1, ReturnTyped DEF PromptSteps
<1>3. SessionTyped' /\ s'.turn = None /\ s'.proc = s.proc
  BY <1>1, NoneIsNoPrompt DEF IInv, Typed, SessionTyped, Sessions, RowStates
<1>4. HistoryTyped' /\ ToldStays /\ (~h'.slipped => s.turn \in {c, None})
  BY <1>1, NothingTold, ToldTyped
<1>5. Typed'
  BY <1>1, <1>2, <1>3, <1>4, TypedStays DEF Typed
<1>6. DeadInv' /\ SentInv' /\ PlaceInv'
  BY <1>1, <1>2 DEF IInv, DeadInv, SentInv, PlaceInv, Unsent, Early
<1>7. CleanInv'
  <2> SUFFICES ASSUME ~h'.slipped
               PROVE  (EarlyInv /\ StartInv /\ SettleInv /\ ToldInv /\ ActiveInv)'
    BY DEF CleanInv
  <2>1. EarlyInv /\ StartInv /\ SettleInv /\ ToldInv /\ ActiveInv /\ h.ended \subseteq h'.ended
    BY <1>4 DEF ToldStays, IInv, CleanInv
  <2>2. \A d \in Prompts \ {c} : call[d].pc \notin Early /\ s.turn # d
    BY <1>4, <2>1, NoneIsNoPrompt DEF EarlyInv
  <2>3. EarlyInv' /\ StartInv'
    BY <1>2, <2>2 DEF EarlyInv, StartInv, Early
  <2>4. SettleInv'
    BY <1>3, NoneIsNoPrompt DEF SettleInv
  <2>5. ToldInv'
    BY <1>2, <2>1, <2>2 DEF ToldInv
  <2>6. ActiveInv'
    BY <1>1, <1>2, <1>3, <2>1 DEF ActiveInv
  <2> QED BY <2>3, <2>4, <2>5, <2>6
<1> QED BY <1>5, <1>6, <1>7 DEF IInv

LEMMA PromptReturnsKeeps ==
  ASSUME IInv, NEW c \in Prompts, PromptReturns(c)
  PROVE  IInv'
<1>1. /\ call[c].pc = "asking" /\ Goto(c, "returned") /\ s' = [s EXCEPT !.state = "running"]
      /\ UNCHANGED <<proc, loop, respond, h>>
  BY DEF PromptReturns
<1>2. CallsTyped' /\ StepsStay
  BY <1>1, GotoTyped DEF PromptSteps, StepsStay
<1>3. SessionTyped' /\ TurnStays
  BY <1>1 DEF IInv, Typed, SessionTyped, Sessions, RowStates, TurnStays
<1> QED BY <1>1, <1>2, <1>3, TypedStays, QuietStep DEF Typed

-----------------------------------------------------------------------------
(* The owner's other requests, and the reaper.                             *)

LEMMA InterruptKeeps ==
  ASSUME IInv, Interrupt
  PROVE  IInv'
<1>1. /\ s' = [s EXCEPT !.pending = {}] /\ proc' = Answer(proc, s.proc, s.pending)
      /\ Note(Answered(s.proc, s.pending), FALSE) /\ UNCHANGED <<call, loop, respond>>
  BY DEF Interrupt
<1>2. SessionTyped' /\ TurnStays /\ s.proc \in Nobody
  BY <1>1 DEF IInv, Typed, SessionTyped, Sessions, TurnStays
<1>3. ProcessesTyped' /\ ProcessesStay
  BY <1>1, <1>2, AnswerStays
<1>4. HistoryTyped' /\ ToldStays
  BY <1>1, AnsweredTold, ToldTyped
<1> QED BY <1>1, <1>2, <1>3, <1>4, TypedStays, QuietStep DEF Typed

LEMMA RespondTakesKeeps ==
  ASSUME IInv, NEW o \in Owners, NEW n \in Asks, RespondTakes(o, n)
  PROVE  IInv'
<1>1. /\ s' = [s EXCEPT !.pending = s.pending \ {n}]
      /\ respond' = [respond EXCEPT ![o] = <<s.proc, n, s.running>>]
      /\ UNCHANGED <<call, proc, loop, h>>
  BY DEF RespondTakes
<1>2. SessionTyped' /\ TurnStays /\ s.proc \in Nobody /\ s.running \in BOOLEAN
  BY <1>1 DEF IInv, Typed, SessionTyped, Sessions, TurnStays
<1>3. RespondTyped'
  BY <1>1, <1>2 DEF IInv, Typed, RespondTyped
<1> QED BY <1>1, <1>2, <1>3, TypedStays, QuietStep DEF Typed

LEMMA RespondKeeps ==
  ASSUME IInv, NEW o \in Owners, Respond(o)
  PROVE  IInv'
<1> DEFINE p == respond[o][1]
           n == respond[o][2]
<1>1. /\ respond[o] # <<>> /\ respond' = [respond EXCEPT ![o] = <<>>]
      /\ s' = [s EXCEPT !.state = "running"] \/ UNCHANGED s
      /\ UNCHANGED <<call, loop>>
  BY DEF Respond
<1>2. p \in Nobody
  BY <1>1 DEF IInv, Typed, RespondTyped
<1>3. SessionTyped' /\ TurnStays
  BY <1>1 DEF IInv, Typed, SessionTyped, Sessions, RowStates, TurnStays
<1>4. RespondTyped'
  BY <1>1 DEF IInv, Typed, RespondTyped
<1>5. CASE proc' = Answer(proc, p, {n}) /\ Note(Answered(p, {n}), FALSE)
  <2>1. ProcessesTyped' /\ ProcessesStay
    BY <1>2, <1>5, AnswerStays
  <2>2. HistoryTyped' /\ ToldStays
    BY <1>5, AnsweredTold, ToldTyped
  <2> QED BY <1>1, <1>3, <1>4, <2>1, <2>2, TypedStays, QuietStep DEF Typed
<1>6. CASE UNCHANGED proc /\ Note(h, p = None)
  <2>1. HistoryTyped' /\ ToldStays
    BY <1>6, NothingTold, ToldTyped
  <2> QED BY <1>1, <1>3, <1>4, <1>6, <2>1, TypedStays, QuietStep DEF Typed
<1> QED BY <1>5, <1>6 DEF Respond

LEMMA ReapLooksKeeps ==
  ASSUME IInv, ReapLooks
  PROVE  IInv'
BY TypedStays, QuietStep DEF ReapLooks, Typed

LEMMA ReapStopsKeeps ==
  ASSUME IInv, ReapStops
  PROVE  IInv'
<1>1. /\ s' = [s EXCEPT !.proc = None] /\ StopProcess(s.proc) /\ s.proc \in Nobody
      /\ UNCHANGED <<call, loop, respond, h>>
  BY DEF ReapStops, IInv, Typed, SessionTyped, Sessions
<1>2. /\ ProcessesTyped' /\ ProcessesStay
      /\ \A x \in Prompts : Active(proc'[x]) => x # s.proc /\ Active(proc[x])
  BY <1>1, StopTyped
<1>3. SessionTyped' /\ s'.turn = s.turn /\ s'.proc = None
  BY <1>1, NoneIsNoPrompt DEF IInv, Typed, SessionTyped, Sessions
<1>4. Typed'
  BY <1>1, <1>2, <1>3, TypedStays DEF Typed
<1>5. DeadInv' /\ PlaceInv' /\ SentInv'
  BY <1>1, <1>2 DEF IInv, DeadInv, PlaceInv, SentInv, ProcessesStay, Less
<1>6. CleanInv'
  BY <1>1, <1>2, <1>3 DEF IInv, CleanInv, EarlyInv, StartInv, SettleInv, ToldInv, ActiveInv
<1> QED BY <1>4, <1>5, <1>6 DEF IInv

-----------------------------------------------------------------------------
(* What pi does.                                                           *)

\* A process that says something, of which it knew.
LEMMA PiStepKeeps ==
  ASSUME IInv, NEW p \in Prompts, NEW q \in Processes, NEW lines \in Seq(Lines), PiStep(p, q, lines),
         q.pipe = proc[p].pipe, q.alive = proc[p].alive, q.stopping = proc[p].stopping,
         \A c \in Prompts : <<"prompt", c>> \in q.inbox \/ q.run = c \/ Settles(lines, c)
                            => Knows(proc[p], c),
         HistoryTyped', ToldStays
  PROVE  IInv'
<1> DEFINE pipe == q.pipe \o lines
           r == [q EXCEPT !.pipe = pipe]
<1>1. /\ Len(proc[p].pipe) + Len(lines) <= MaxPipe /\ proc' = [proc EXCEPT ![p] = r]
      /\ UNCHANGED <<s, call, loop, respond>>
  BY DEF PiStep
<1>2. q.pipe \in Seq(Lines) /\ pipe \in Seq(Lines) /\ Len(pipe) = Len(q.pipe) + Len(lines)
  BY DEF Processes
<1>3. \A c \in Prompts : Settles(pipe, c) => Knows(proc[p], c)
  BY <1>2, SettlesAppended DEF Knows
<1> HIDE DEF pipe
<1>4. /\ r \in Processes /\ r.pipe = pipe /\ r.alive = q.alive /\ r.stopping = q.stopping
      /\ r.inbox = q.inbox /\ r.run = q.run
  BY <1>2 DEF Processes
<1> HIDE DEF r
<1>5. Good(r)
  BY <1>1, <1>2, <1>4 DEF Good
<1>6. Less(r, proc[p])
  <2>1. \A c \in Prompts : Knows(r, c) => Knows(proc[p], c)
    BY <1>3, <1>4 DEF Knows
  <2> QED BY <1>4, <2>1 DEF Less, Active
<1>7. ProcessesTyped' /\ ProcessesStay
  BY <1>1, <1>5, <1>6, ProcessTyped
<1> QED BY <1>1, <1>7, TypedStays, QuietStep DEF Typed

LEMMA PiTakesKeeps ==
  ASSUME IInv, NEW p \in Prompts, NEW m \in proc[p].inbox, PiTakes(p, m)
  PROVE  IInv'
<1> DEFINE inbox == proc[p].inbox \ {m}
           q == [proc[p] EXCEPT !.inbox = inbox]
           r == [q EXCEPT !.run = m[2]]
           answer == <<<<"response", m[2]>>>>
           begin == <<<<"agent_start">>, <<"user", m[2]>>>>
<1>1. proc[p] \in Processes
  BY GoodProcess
<1>2. m \in Messages /\ m[2] \in Prompts /\ m = <<m[1], m[2]>> /\ inbox \in SUBSET Messages
  BY <1>1 DEF Processes, Messages
<1>3. HistoryTyped' /\ ToldStays
  BY TypedStays DEF PiTakes
<1>4. \/ PiStep(p, q, answer)
      \/ m[1] = "prompt" /\ (PiStep(p, r, answer \o begin) \/ PiStep(p, r, begin \o answer))
  BY DEF PiTakes
<1>5. inbox \subseteq proc[p].inbox
  OBVIOUS
<1> HIDE DEF inbox
<1>6. /\ q \in Processes /\ q.pipe = proc[p].pipe /\ q.alive = proc[p].alive /\ q.inbox = inbox
      /\ q.stopping = proc[p].stopping /\ q.run = proc[p].run
  BY <1>1, <1>2 DEF Processes
<1> HIDE DEF q
<1>7. /\ r \in Processes /\ r.pipe = q.pipe /\ r.alive = q.alive /\ r.inbox = inbox
      /\ r.stopping = q.stopping /\ r.run = m[2]
  BY <1>2, <1>6, NoneIsNoPrompt DEF Processes, Nobody
<1> HIDE DEF r
<1>8. /\ answer \in Seq(Lines) /\ begin \in Seq(Lines)
      /\ \A c : ~Settles(answer, c) /\ ~Settles(begin, c)
  <2>1. <<"response", m[2]>> \in Lines /\ <<"user", m[2]>> \in Lines /\ <<"agent_start">> \in Lines
    BY <1>2 DEF Lines
  <2>2. \A c : ~Settles(answer, c)
    BY DEF Settles
  <2>3. \A c : ~Settles(begin, c)
    <3>1. begin[1][1] = "agent_start" /\ begin[2][1] = "user" /\ DOMAIN begin = 1..2
      OBVIOUS
    <3> HIDE DEF begin
    <3> QED BY <3>1 DEF Settles
  <2> QED BY <2>1, <2>2, <2>3
<1> HIDE DEF answer, begin
<1>9. CASE PiStep(p, q, answer)
  BY <1>3, <1>5, <1>6, <1>8, <1>9, PiStepKeeps DEF Knows
<1>10. ASSUME m[1] = "prompt", NEW lines \in {answer \o begin, begin \o answer}, PiStep(p, r, lines)
       PROVE  IInv'
  <2>1. lines \in Seq(Lines)
    <3>1. answer \o begin \in Seq(Lines) /\ begin \o answer \in Seq(Lines)
      BY <1>8
    <3> QED BY <1>10, <3>1
  <2>2. \A c : ~Settles(lines, c)
    BY <1>8, <1>10, SettlesAppended
  <2>3. \A c \in Prompts : <<"prompt", c>> \in r.inbox \/ r.run = c => Knows(proc[p], c)
    BY <1>2, <1>5, <1>7, <1>10 DEF Knows
  <2> QED BY <1>3, <1>6, <1>7, <1>10, <2>1, <2>2, <2>3, PiStepKeeps
<1> QED BY <1>4, <1>9, <1>10

LEMMA PiDrivesKeeps ==
  ASSUME IInv, NEW p \in Prompts, PiDrives(p)
  PROVE  IInv'
<1> DEFINE q == [proc[p] EXCEPT !.run = Extension]
           lines == <<<<"agent_start">>>>
           g == [h EXCEPT !.drove = h.drove + 1]
<1>1. Note(g, FALSE) /\ PiStep(p, q, lines)
  BY DEF PiDrives
<1>2. proc[p] \in Processes
  BY GoodProcess
<1>3. /\ q \in Processes /\ q.pipe = proc[p].pipe /\ q.alive = proc[p].alive /\ q.run = Extension
      /\ q.stopping = proc[p].stopping /\ q.inbox = proc[p].inbox
  BY <1>2 DEF Processes
<1>4. lines \in Seq(Lines) /\ \A c : ~Settles(lines, c)
  BY DEF Lines, Settles
<1>5. Told(h, g)
  BY HistoryFields DEF IInv, Typed, HistoryTyped
<1> HIDE DEF q, lines, g
<1>6. HistoryTyped' /\ ToldStays
  BY <1>1, <1>5, ToldTyped
<1>7. \A c \in Prompts : Extension # c
  BY NoneIsNoPrompt
<1> QED BY <1>1, <1>3, <1>4, <1>6, <1>7, PiStepKeeps DEF Knows

LEMMA SteerKeeps ==
  ASSUME IInv, NEW p \in Prompts, Steer(p)
  PROVE  IInv'
<1> DEFINE lines == <<<<"steer", proc[p].run>>>>
           g == [h EXCEPT !.drove = h.drove + 1]
<1>1. Note(g, FALSE) /\ PiStep(p, proc[p], lines) /\ proc[p].run # None
  BY DEF Steer
<1>2. proc[p] \in Processes
  BY GoodProcess
<1>3. lines \in Seq(Lines) /\ \A c : ~Settles(lines, c)
  BY <1>1, <1>2 DEF Lines, Settles, Processes, Nobody
<1>4. Told(h, g)
  BY HistoryFields DEF IInv, Typed, HistoryTyped
<1> HIDE DEF lines, g
<1>5. HistoryTyped' /\ ToldStays
  BY <1>1, <1>4, ToldTyped
<1> QED BY <1>1, <1>2, <1>3, <1>5, PiStepKeeps DEF Knows

LEMMA PiAsksKeeps ==
  ASSUME IInv, NEW p \in Prompts, PiAsks(p)
  PROVE  IInv'
<1> DEFINE n == h.asked + 1
           open == proc[p].open \cup {n}
           q == [proc[p] EXCEPT !.open = open]
           lines == <<<<"extension_ui_request", n>>>>
           g == [h EXCEPT !.asked = n]
<1>1. n \in Asks /\ Note(g, FALSE) /\ PiStep(p, q, lines)
  BY DEF PiAsks
<1> HIDE DEF n
<1>2. proc[p] \in Processes /\ open \in SUBSET Asks
  BY <1>1, GoodProcess DEF Processes
<1> HIDE DEF open
<1>3. /\ q \in Processes /\ q.pipe = proc[p].pipe /\ q.alive = proc[p].alive /\ q.run = proc[p].run
      /\ q.stopping = proc[p].stopping /\ q.inbox = proc[p].inbox
  BY <1>2 DEF Processes
<1>4. lines \in Seq(Lines) /\ \A c : ~Settles(lines, c)
  BY <1>1 DEF Lines, Settles
<1>5. Told(h, g)
  BY HistoryFields DEF IInv, Typed, HistoryTyped
<1> HIDE DEF q, lines, g
<1>6. HistoryTyped' /\ ToldStays
  BY <1>1, <1>5, ToldTyped
<1> QED BY <1>1, <1>3, <1>4, <1>6, PiStepKeeps DEF Knows

LEMMA PiSettlesKeeps ==
  ASSUME IInv, NEW p \in Prompts, PiSettles(p)
  PROVE  IInv'
<1> DEFINE q == [proc[p] EXCEPT !.run = None]
           lines == <<<<"agent_settled", proc[p].run>>>>
<1>1. PiStep(p, q, lines) /\ proc[p].run # None /\ UNCHANGED h
  BY DEF PiSettles
<1>2. proc[p] \in Processes
  BY GoodProcess
<1>3. /\ q \in Processes /\ q.pipe = proc[p].pipe /\ q.alive = proc[p].alive /\ q.run = None
      /\ q.stopping = proc[p].stopping /\ q.inbox = proc[p].inbox
  BY <1>2, NoneIsNoPrompt DEF Processes
<1>4. lines \in Seq(Lines) /\ \A c : Settles(lines, c) => c = proc[p].run
  BY <1>1, <1>2 DEF Lines, Settles, Processes, Nobody
<1> HIDE DEF q, lines
<1>5. HistoryTyped' /\ ToldStays
  BY <1>1, TypedStays
<1>6. \A c \in Prompts : None # c
  BY NoneIsNoPrompt
<1> QED BY <1>1, <1>3, <1>4, <1>5, <1>6, PiStepKeeps DEF Knows

LEMMA PiDiesKeeps ==
  ASSUME IInv, NEW p \in Prompts, PiDies(p)
  PROVE  IInv'
<1> DEFINE q == [NoProcess EXCEPT !.pipe = proc[p].pipe]
<1>1. proc' = [proc EXCEPT ![p] = q] /\ UNCHANGED <<s, call, loop, respond, h>>
  BY DEF PiDies
<1>2. proc[p] \in Processes /\ Good(proc[p])
  BY GoodProcess
<1>3. q \in Processes /\ q.pipe = proc[p].pipe /\ ~q.alive /\ q.inbox = {} /\ q.run = None
  BY <1>2, NoneIsNoPrompt DEF Processes, NoProcess
<1> HIDE DEF q
<1>4. Good(q) /\ Less(q, proc[p])
  BY <1>2, <1>3, NoneIsNoPrompt DEF Good, Less, Active, Knows
<1>5. ProcessesTyped' /\ ProcessesStay
  BY <1>1, <1>4, ProcessTyped
<1> QED BY <1>1, <1>5, TypedStays, QuietStep DEF Typed

-----------------------------------------------------------------------------
(* The read loop.                                                          *)

LEMMA LineTyped ==
  ASSUME IInv, NEW p \in Prompts, proc[p].pipe # <<>>
  PROVE  /\ proc[p].pipe \in Seq(Lines) /\ Line(p) \in Lines
         /\ Line(p)[1] = "response" => Line(p)[2] \in Prompts
         /\ Line(p)[1] = "extension_ui_request" => Line(p)[2] \in Asks
         /\ \A c : Line(p)[1] = "agent_settled" /\ c = Line(p)[2] => Settles(proc[p].pipe, c)
<1>1. proc[p].pipe \in Seq(Lines)
  BY GoodProcess DEF Processes
<1>2. Line(p) \in Lines /\ Line(p) = proc[p].pipe[1] /\ 1 \in DOMAIN proc[p].pipe
  BY <1>1 DEF Line
<1>3. /\ Line(p)[1] = "response" => Line(p)[2] \in Prompts
      /\ Line(p)[1] = "extension_ui_request" => Line(p)[2] \in Asks
      /\ Line(p)[1] = "agent_settled" => Line(p) = <<"agent_settled", Line(p)[2]>>
  BY <1>2 DEF Lines
<1> QED BY <1>1, <1>2, <1>3 DEF Settles

LEMMA RestTyped ==
  ASSUME IInv, NEW p \in Prompts, proc[p].pipe # <<>>
  PROVE  AllGood(Rest(p)) /\ \A x \in Prompts : Less(Rest(p)[x], proc[x])
<1> DEFINE rest == Tail(proc[p].pipe)
           q == [proc[p] EXCEPT !.pipe = rest]
<1>1. proc[p] \in Processes /\ Good(proc[p]) /\ proc[p].pipe \in Seq(Lines)
  BY GoodProcess, LineTyped
<1>2. rest \in Seq(Lines) /\ Len(rest) <= Len(proc[p].pipe) /\ Len(rest) \in Nat
      /\ Len(proc[p].pipe) \in Nat
  BY <1>1
<1>3. \A c : Settles(rest, c) => Settles(proc[p].pipe, c)
  BY <1>1, SettlesRest
<1>4. Rest(p) = [proc EXCEPT ![p] = q]
  BY DEF Rest
<1> HIDE DEF rest
<1>5. /\ q \in Processes /\ q.pipe = rest /\ q.alive = proc[p].alive /\ q.run = proc[p].run
      /\ q.stopping = proc[p].stopping /\ q.inbox = proc[p].inbox
  BY <1>1, <1>2 DEF Processes
<1> HIDE DEF q
<1>6. Good(q)
  BY <1>1, <1>2, <1>5, PiAssumption DEF Good
<1>7. Less(q, proc[p])
  BY <1>3, <1>5 DEF Less, Active, Knows
<1>8. /\ Rest(p) \in [Prompts -> Processes] /\ Rest(p)[p] = q
      /\ \A x \in Prompts \ {p} : Rest(p)[x] = proc[x]
  BY <1>4, <1>5 DEF IInv, Typed, ProcessesTyped, AllGood
<1>9. \A x \in Prompts : Good(Rest(p)[x])
  BY <1>6, <1>8, GoodProcess
<1>10. \A x \in Prompts : Less(Rest(p)[x], proc[x])
  BY <1>7, <1>8 DEF Less
<1> QED BY <1>8, <1>9, <1>10 DEF AllGood

LEMMA RestStays ==
  ASSUME IInv, NEW p \in Prompts, NEW kind, HasLine(p, kind), proc' = Rest(p)
  PROVE  ProcessesTyped' /\ ProcessesStay
BY RestTyped DEF HasLine, ProcessesTyped, ProcessesStay

LEMMA LoopTyped ==
  ASSUME IInv, NEW p \in Prompts, NEW at \in LoopSteps, loop' = [loop EXCEPT ![p] = at]
  PROVE  /\ LoopsTyped' /\ loop'[p] = at /\ \A x \in Prompts \ {p} : loop'[x] = loop[x]
         /\ at \notin Done \cup {"settled"} => LoopsStay
BY DEF IInv, Typed, LoopsTyped, LoopsStay

LEMMA resolveKeeps ==
  ASSUME IInv, NEW p \in Prompts, resolve(p)
  PROVE  IInv'
<1> DEFINE c == Line(p)[2]
           q == [call[c] EXCEPT !.answered = TRUE]
<1>1. /\ HasLine(p, "response") /\ proc' = Rest(p)
      /\ UNCHANGED call \/ call' = [call EXCEPT ![c] = q]
      /\ UNCHANGED <<s, loop, respond, h>>
  BY DEF resolve
<1>2. c \in Prompts
  BY <1>1, LineTyped DEF HasLine
<1>3. call[c] \in Calls
  BY <1>2 DEF IInv, Typed, CallsTyped
<1>4. q \in Calls /\ q.pc = call[c].pc /\ q.p = call[c].p
  BY <1>3 DEF Calls
<1> HIDE DEF q, c
<1>5. CallsTyped' /\ StepsStay
  <2>1. CASE UNCHANGED call
    BY <2>1, TypedStays
  <2>2. CASE call' = [call EXCEPT ![c] = q]
    BY <1>2, <1>4, <2>2, CallTyped DEF StepsStay
  <2> QED BY <1>1, <2>1, <2>2
<1>6. ProcessesTyped' /\ ProcessesStay
  BY <1>1, RestStays
<1> QED BY <1>1, <1>5, <1>6, TypedStays, QuietStep DEF Typed

\* It opens a turn only when there is none.
LEMMA openTurnKeeps ==
  ASSUME IInv, NEW p \in Prompts, openTurn(p)
  PROVE  IInv'
<1>1. HasLine(p, "agent_start") /\ proc' = Rest(p) /\ UNCHANGED <<call, loop, respond, h>>
  BY DEF openTurn
<1>2. SessionTyped' /\ TurnStays
  BY NoneIsNoPrompt DEF openTurn, IInv, Typed, SessionTyped, Sessions, RowStates, TurnStays
<1>3. ProcessesTyped' /\ ProcessesStay
  BY <1>1, RestStays
<1> QED BY <1>1, <1>2, <1>3, TypedStays, QuietStep DEF Typed

LEMMA onMessageEndKeeps ==
  ASSUME IInv, NEW p \in Prompts, onMessageEnd(p)
  PROVE  IInv'
<1> DEFINE echo == h.echo \cup {<<s.turn, Line(p)>>}
           g == [h EXCEPT !.echo = echo]
<1>1. UserMessage(p) /\ proc' = Rest(p) /\ s' = [s EXCEPT !.echoed = TRUE]
      /\ (UNCHANGED h \/ Note(g, FALSE)) /\ UNCHANGED <<call, loop, respond>>
  BY DEF onMessageEnd
<1>2. SessionTyped' /\ TurnStays
  BY <1>1 DEF IInv, Typed, SessionTyped, Sessions, TurnStays
<1>3. ProcessesTyped' /\ ProcessesStay
  BY <1>1, RestStays DEF UserMessage
<1> HIDE DEF echo
<1>4. Told(h, g)
  BY HistoryFields DEF IInv, Typed, HistoryTyped
<1> HIDE DEF g
<1>5. HistoryTyped' /\ ToldStays
  BY <1>1, <1>4, ToldTyped, TypedStays
<1> QED BY <1>1, <1>2, <1>3, <1>5, TypedStays, QuietStep DEF Typed

LEMMA onUIRequestKeeps ==
  ASSUME IInv, NEW p \in Prompts, onUIRequest(p)
  PROVE  IInv'
<1> DEFINE pending == s.pending \cup {Line(p)[2]}
<1>1. /\ HasLine(p, "extension_ui_request") /\ proc' = Rest(p)
      /\ s' = [s EXCEPT !.pending = pending]
      /\ loop' = [loop EXCEPT ![p] = "asked"] /\ UNCHANGED <<call, respond, h>>
  BY DEF onUIRequest
<1>2. pending \in SUBSET Asks
  BY <1>1, LineTyped DEF HasLine, IInv, Typed, SessionTyped, Sessions
<1> HIDE DEF pending
<1>3. SessionTyped' /\ TurnStays
  BY <1>1, <1>2 DEF IInv, Typed, SessionTyped, Sessions, TurnStays
<1>4. ProcessesTyped' /\ ProcessesStay
  BY <1>1, RestStays
<1>5. LoopsTyped' /\ LoopsStay
  BY <1>1, LoopTyped DEF LoopSteps, Done
<1> QED BY <1>1, <1>3, <1>4, <1>5, TypedStays, QuietStep DEF Typed

LEMMA AskedSetsStateKeeps ==
  ASSUME IInv, NEW p \in Prompts, AskedSetsState(p)
  PROVE  IInv'
<1>1. /\ s' = [s EXCEPT !.state = "waiting_input"] /\ loop' = [loop EXCEPT ![p] = "read"]
      /\ UNCHANGED <<call, proc, respond, h>>
  BY DEF AskedSetsState
<1>2. SessionTyped' /\ TurnStays
  BY <1>1 DEF IInv, Typed, SessionTyped, Sessions, RowStates, TurnStays
<1>3. LoopsTyped' /\ LoopsStay
  BY <1>1, LoopTyped DEF LoopSteps, Done
<1> QED BY <1>1, <1>2, <1>3, TypedStays, QuietStep DEF Typed

\* The run that settled was sent, so its prompt is past the handshake.
LEMMA onSettledKeeps ==
  ASSUME IInv, NEW p \in Prompts, onSettled(p)
  PROVE  IInv'
<1>1. /\ proc[p].pipe # <<>> /\ Line(p)[1] = "agent_settled" /\ loop[p] = "read"
      /\ s' = [s EXCEPT !.pending = {}] /\ proc' = Answer(Rest(p), s.proc, s.pending)
      /\ Note(Answered(s.proc, s.pending),
              s.turn \notin {Line(p)[2], None} \/ s.proc \notin {None, p})
      /\ loop' = [loop EXCEPT ![p] = "settled"] /\ UNCHANGED <<call, respond>>
  BY DEF onSettled, HasLine
<1>2. SessionTyped' /\ TurnStays /\ s.proc \in Nobody
  BY <1>1 DEF IInv, Typed, SessionTyped, Sessions, TurnStays
<1>3. ProcessesTyped' /\ \A x \in Prompts : Less(proc'[x], proc[x])
  <2>1. AllGood(Rest(p)) /\ \A x \in Prompts : Less(Rest(p)[x], proc[x])
    BY <1>1, RestTyped
  <2>2. ProcessesTyped' /\ \A x \in Prompts : Less(proc'[x], Rest(p)[x])
    BY <1>1, <1>2, <2>1, AnswerTyped, SameIsLess
  <2> QED BY <2>1, <2>2 DEF Less
<1>4. LoopsTyped' /\ loop'[p] = "settled" /\ \A x \in Prompts \ {p} : loop'[x] = loop[x]
  BY <1>1, LoopTyped DEF LoopSteps
<1>5. HistoryTyped' /\ ToldStays /\ (~h'.slipped => s.turn \in {Line(p)[2], None})
  BY <1>1, AnsweredTold, ToldTyped
<1>6. Typed'
  BY <1>1, <1>2, <1>3, <1>4, <1>5, TypedStays DEF Typed
<1>7. DeadInv' /\ PlaceInv' /\ SentInv'
  BY <1>1, <1>3, <1>4 DEF IInv, DeadInv, PlaceInv, SentInv, Less, Done
<1>8. CleanInv'
  <2> SUFFICES ASSUME ~h'.slipped
               PROVE  (EarlyInv /\ StartInv /\ SettleInv /\ ToldInv /\ ActiveInv)'
    BY DEF CleanInv
  <2>1. EarlyInv /\ StartInv /\ SettleInv /\ ToldInv /\ ActiveInv /\ h.ended \subseteq h'.ended
    BY <1>5 DEF ToldStays, IInv, CleanInv
  <2>2. EarlyInv' /\ StartInv' /\ ToldInv'
    BY <1>1, <1>2, <2>1 DEF EarlyInv, StartInv, ToldInv, TurnStays
  <2>3. ActiveInv'
    BY <1>1, <1>2, <1>3, <2>1 DEF ActiveInv, TurnStays, Less
  <2>4. \A c \in Prompts : s.turn = c => call[c].pc \notin Early
    <3> SUFFICES ASSUME NEW c \in Prompts, s.turn = c PROVE call[c].pc \notin Early
      OBVIOUS
    <3>1. c = Line(p)[2]
      BY <1>5, NoneIsNoPrompt
    <3>2. Knows(proc[p], c)
      BY <1>1, <3>1, LineTyped DEF Knows
    <3> QED BY <3>2 DEF IInv, SentInv, Unsent, Early
  <2>5. SettleInv'
    BY <1>1, <1>2, <1>4, <2>1, <2>4 DEF SettleInv, TurnStays
  <2> QED BY <2>2, <2>3, <2>5
<1> QED BY <1>6, <1>7, <1>8 DEF IInv

\* The turn that is closed is told.
LEMMA SettledClosesKeeps ==
  ASSUME IInv, NEW p \in Prompts, SettledCloses(p)
  PROVE  IInv'
<1> DEFINE at == IF s.running THEN "idle" ELSE "read"
           ended == h.ended \cup ({s.turn} \ {None})
           g == [h EXCEPT !.ended = ended]
<1>1. /\ loop[p] = "settled" /\ s' = [s EXCEPT !.turn = None, !.running = FALSE]
      /\ Note(g, FALSE) /\ loop' = [loop EXCEPT ![p] = at] /\ UNCHANGED <<call, proc, respond>>
  BY DEF SettledCloses, Settled
<1>2. SessionTyped' /\ s'.turn = None /\ s'.proc = s.proc
  BY <1>1, NoneIsNoPrompt DEF IInv, Typed, SessionTyped, Sessions
<1>3. at \in LoopSteps /\ at \notin Done \cup {"settled"}
  BY DEF LoopSteps, Done
<1> HIDE DEF at
<1>4. LoopsTyped' /\ LoopsStay
  BY <1>1, <1>3, LoopTyped
<1>5. IsHistory(h) /\ ended \in SUBSET Prompts
  BY DEF IInv, Typed, HistoryTyped, IsHistory, SessionTyped, Sessions, Nobody
<1>6. h.ended \subseteq ended /\ \A c \in Prompts : s.turn = c => c \in ended
  BY NoneIsNoPrompt
<1> HIDE DEF ended
<1>7. IsHistory(g) /\ g.slipped = h.slipped /\ g.ended = ended
  BY <1>5, HistoryEnds
<1> HIDE DEF g
<1>8. HistoryTyped' /\ ToldStays /\ (~h'.slipped => h' = g)
  BY <1>1, <1>6, <1>7, NoteTyped
<1>9. Typed'
  BY <1>1, <1>2, <1>4, <1>8, TypedStays DEF Typed
<1>10. DeadInv' /\ PlaceInv' /\ SentInv'
  BY <1>1, <1>4 DEF IInv, DeadInv, PlaceInv, SentInv, LoopsStay
<1>11. CleanInv'
  <2> SUFFICES ASSUME ~h'.slipped
               PROVE  (EarlyInv /\ StartInv /\ SettleInv /\ ToldInv /\ ActiveInv)'
    BY DEF CleanInv
  <2>1. EarlyInv /\ StartInv /\ SettleInv /\ ToldInv /\ ActiveInv
    BY <1>8 DEF ToldStays, IInv, CleanInv
  <2>2. \A c \in Prompts : call[c].pc \notin Early
    BY <1>1, <2>1 DEF EarlyInv, SettleInv
  <2>3. EarlyInv' /\ StartInv' /\ SettleInv'
    BY <1>1, <1>2, <2>2, NoneIsNoPrompt DEF EarlyInv, StartInv, SettleInv, Early
  <2>4. ToldInv'
    BY <1>1, <1>6, <1>7, <1>8, <2>1 DEF ToldInv
  <2>5. ActiveInv'
    BY <1>1, <1>2, <2>1 DEF ActiveInv
  <2> QED BY <2>3, <2>4, <2>5
<1> QED BY <1>9, <1>10, <1>11 DEF IInv

LEMMA SettledSetsStateKeeps ==
  ASSUME IInv, NEW p \in Prompts, SettledSetsState(p)
  PROVE  IInv'
<1>1. /\ s' = [s EXCEPT !.state = "idle"] /\ loop' = [loop EXCEPT ![p] = "read"]
      /\ Note(h, s.proc # p /\ (s.proc # None \/ s.turn # None)) /\ UNCHANGED <<call, proc, respond>>
  BY DEF SettledSetsState
<1>2. SessionTyped' /\ TurnStays
  BY <1>1 DEF IInv, Typed, SessionTyped, Sessions, RowStates, TurnStays
<1>3. LoopsTyped' /\ LoopsStay
  BY <1>1, LoopTyped DEF LoopSteps, Done
<1>4. HistoryTyped' /\ ToldStays
  BY <1>1, NothingTold, ToldTyped
<1> QED BY <1>1, <1>2, <1>3, <1>4, TypedStays, QuietStep DEF Typed

LEMMA readLoopEndsKeeps ==
  ASSUME IInv, NEW p \in Prompts, readLoopEnds(p)
  PROVE  IInv'
<1>1. ~proc[p].alive /\ loop' = [loop EXCEPT ![p] = "closed"] /\ UNCHANGED <<s, call, proc, respond, h>>
  BY DEF readLoopEnds
<1>2. LoopsTyped' /\ LoopsStay
  BY <1>1, LoopTyped DEF LoopSteps, LoopsStay
<1> QED BY <1>1, <1>2, TypedStays, QuietStep DEF Typed

\* The process that ended is the session's, and the turn it had is told.
LEMMA onExitKeeps ==
  ASSUME IInv, NEW p \in Prompts, onExit(p)
  PROVE  IInv'
<1> DEFINE others == s.turn # None /\ call[s.turn].p # p
           ended == h.ended \cup ({s.turn} \ {None})
           g == [h EXCEPT !.ended = ended]
<1>1. /\ loop[p] = "closed" /\ s' = [s EXCEPT !.turn = None, !.running = FALSE, !.proc = None]
      /\ Note(g, others \/ s.proc \notin {None, p}) /\ loop' = [loop EXCEPT ![p] = "exited"]
      /\ UNCHANGED <<call, proc, respond>>
  BY DEF onExit, Settled
<1>2. SessionTyped' /\ s'.turn = None /\ s'.proc = None
  BY <1>1, NoneIsNoPrompt DEF IInv, Typed, SessionTyped, Sessions
<1>3. LoopsTyped' /\ loop'[p] = "exited" /\ \A x \in Prompts \ {p} : loop'[x] = loop[x]
  BY <1>1, LoopTyped DEF LoopSteps
<1>4. IsHistory(h) /\ ended \in SUBSET Prompts
  BY DEF IInv, Typed, HistoryTyped, IsHistory, SessionTyped, Sessions, Nobody
<1>5. h.ended \subseteq ended /\ \A c \in Prompts : s.turn = c => c \in ended
  BY NoneIsNoPrompt
<1> HIDE DEF ended
<1>6. IsHistory(g) /\ g.slipped = h.slipped /\ g.ended = ended
  BY <1>4, HistoryEnds
<1> HIDE DEF g, others
<1>7. HistoryTyped' /\ ToldStays /\ (~h'.slipped => h' = g /\ ~others /\ s.proc \in {None, p})
  BY <1>1, <1>5, <1>6, NoteTyped
<1>8. Typed'
  BY <1>1, <1>2, <1>3, <1>7, TypedStays DEF Typed
<1>9. ~proc[p].alive
  BY <1>1 DEF IInv, DeadInv, Done
<1>10. DeadInv' /\ PlaceInv' /\ SentInv'
  BY <1>1, <1>3, <1>9 DEF IInv, DeadInv, PlaceInv, SentInv
<1>11. CleanInv'
  <2> SUFFICES ASSUME ~h'.slipped
               PROVE  (EarlyInv /\ StartInv /\ SettleInv /\ ToldInv /\ ActiveInv)'
    BY DEF CleanInv
  <2>1. EarlyInv /\ StartInv /\ SettleInv /\ ToldInv /\ ActiveInv
    BY <1>7 DEF ToldStays, IInv, CleanInv
  <2>2. \A c \in Prompts : call[c].pc \notin Early
    <3> SUFFICES ASSUME NEW c \in Prompts, call[c].pc \in Early PROVE FALSE
      OBVIOUS
    <3>1. s.turn = c /\ call[c].p = None
      BY <2>1 DEF EarlyInv, IInv, PlaceInv
    <3> QED BY <1>7, <3>1, NoneIsNoPrompt DEF others, Early
  <2>3. EarlyInv' /\ StartInv' /\ SettleInv'
    BY <1>1, <1>2, <2>2, NoneIsNoPrompt DEF EarlyInv, StartInv, SettleInv, Early
  <2>4. ToldInv'
    BY <1>1, <1>5, <1>6, <1>7, <2>1 DEF ToldInv
  <2>5. ActiveInv'
    BY <1>1, <1>7, <1>9, <2>1, NoneIsNoPrompt DEF ActiveInv, Active
  <2> QED BY <2>3, <2>4, <2>5
<1> QED BY <1>8, <1>10, <1>11 DEF IInv

LEMMA ExitTellsKeeps ==
  ASSUME IInv, NEW p \in Prompts, ExitTells(p)
  PROVE  IInv'
<1> DEFINE mishap == \E q \in Prompts \ {p} : loop[q] \notin {"none", "gone"}
<1>1. /\ loop[p] = "exited" /\ loop' = [loop EXCEPT ![p] = "gone"]
      /\ s' = [s EXCEPT !.pending = {}, !.state = "idle"]
      /\ proc' = Answer(proc, s.proc, s.pending) /\ Note(Answered(s.proc, s.pending), mishap)
      /\ UNCHANGED <<call, respond>>
  BY DEF ExitTells
<1> HIDE DEF mishap
<1>2. SessionTyped' /\ TurnStays /\ s.proc \in Nobody
  BY <1>1 DEF IInv, Typed, SessionTyped, Sessions, RowStates, TurnStays
<1>3. ProcessesTyped' /\ ProcessesStay
  BY <1>1, <1>2, AnswerStays
<1>4. LoopsTyped' /\ LoopsStay
  BY <1>1, LoopTyped DEF LoopSteps, LoopsStay, Done
<1>5. HistoryTyped' /\ ToldStays
  BY <1>1, AnsweredTold, ToldTyped
<1> QED BY <1>1, <1>2, <1>3, <1>4, <1>5, TypedStays, QuietStep DEF Typed

-----------------------------------------------------------------------------
(* The invariant, and what follows from it.                                *)

LEMMA InitIInv == Init => IInv
<1> SUFFICES ASSUME Init PROVE IInv
  OBVIOUS
<1> USE NoneIsNoPrompt
<1>1. NoCall \in Calls /\ NoCall.pc = "new" /\ NoCall.p = None
  BY DEF NoCall, Calls, PromptSteps
<1>2. Good(NoProcess) /\ NoProcess \in Processes /\ ~NoProcess.alive
  <2>1. NoProcess \in Processes
    BY DEF NoProcess, Processes
  <2>2. NoProcess.pipe = <<>> /\ ~NoProcess.alive
    BY DEF NoProcess
  <2> QED BY <2>1, <2>2, PiAssumption DEF Good
<1>3. \A c \in Prompts : ~Knows(NoProcess, c)
  BY DEF NoProcess, Knows, Settles
<1>4. IsHistory(NoHistory)
  BY DEF IsHistory, NoHistory
<1>5. /\ s.turn = None /\ call = [c \in Prompts |-> NoCall] /\ proc = [p \in Prompts |-> NoProcess]
      /\ loop = [p \in Prompts |-> "none"] /\ h = NoHistory
  BY DEF Init
<1>6. Typed
  <2>1. SessionTyped /\ RespondTyped
    BY DEF Init, SessionTyped, Sessions, RowStates, RespondTyped
  <2>2. CallsTyped /\ ProcessesTyped /\ LoopsTyped /\ HistoryTyped
    BY <1>1, <1>2, <1>4, <1>5
       DEF CallsTyped, ProcessesTyped, AllGood, LoopsTyped, LoopSteps, HistoryTyped
  <2> QED BY <2>1, <2>2 DEF Typed
<1>7. DeadInv /\ SentInv /\ PlaceInv
  BY <1>1, <1>2, <1>3, <1>5 DEF DeadInv, SentInv, PlaceInv
<1>8. CleanInv
  BY <1>1, <1>2, <1>5
     DEF CleanInv, EarlyInv, StartInv, SettleInv, ToldInv, ActiveInv, Active, Early
<1> QED BY <1>6, <1>7, <1>8 DEF IInv

LEMMA NextIInv == IInv /\ [Next]_vars => IInv'
<1> SUFFICES ASSUME IInv, [Next]_vars PROVE IInv'
  OBVIOUS
<1>1. ASSUME NEW c \in Prompts, PromptStep(c) PROVE IInv'
  BY <1>1, RunningKeeps, NotRunningKeeps, LaunchKeeps, HandshakeKeeps, StartedKeeps,
     HandshakeFailsKeeps, abandonTurnKeeps, PromptReturnsKeeps DEF PromptStep
<1>2. ASSUME NEW p \in Prompts, LoopStep(p) PROVE IInv'
  BY <1>2, resolveKeeps, openTurnKeeps, onMessageEndKeeps, onUIRequestKeeps, AskedSetsStateKeeps,
     onSettledKeeps, SettledClosesKeeps, SettledSetsStateKeeps, readLoopEndsKeeps, onExitKeeps,
     ExitTellsKeeps DEF LoopStep
<1>3. ASSUME NEW p \in Prompts, PiDrives(p) \/ Steer(p) \/ PiAsks(p) \/ PiSettles(p) \/ PiDies(p) PROVE IInv'
  BY <1>3, PiDrivesKeeps, SteerKeeps, PiAsksKeeps, PiSettlesKeeps, PiDiesKeeps
<1>4. CASE UNCHANGED vars
  BY <1>4, TypedStays, QuietStep DEF vars, Typed
<1> QED BY <1>1, <1>2, <1>3, <1>4, BusyKeeps, ClaimKeeps, InterruptKeeps, ReapLooksKeeps, ReapStopsKeeps,
           RespondKeeps, RespondTakesKeeps, PiTakesKeeps DEF Next

\* The parts above hold together in every state that can be reached.
THEOREM Invariance == Spec => []IInv
<1>1. Init => IInv
  BY InitIInv
<1>2. IInv /\ [Next]_vars => IInv'
  BY NextIInv
<1> QED BY <1>1, <1>2, PTL DEF Spec

LEMMA ProcessesFollow == IInv => ProcessesSound
<1> SUFFICES ASSUME IInv PROVE TypeOK /\ OneProcess
  BY DEF ProcessesSound
<1>1. TypeOK
  <2>1. /\ s \in [proc : Prompts \cup {None}, state : {"idle", "starting", "running", "waiting_input"},
                  pending : SUBSET Asks, turn : Prompts \cup {None}, running : BOOLEAN,
                  echoed : BOOLEAN]
        /\ s.turn # None => s.running
    BY DEF IInv, Typed, SessionTyped, Sessions, RowStates, Nobody
  <2>2. \A p \in Prompts : proc[p].open \subseteq Asks /\ Len(proc[p].pipe) <= MaxPipe
    BY GoodProcess DEF Good, Processes
  <2>3. h.ended \subseteq Prompts
    BY DEF IInv, Typed, HistoryTyped, IsHistory
  <2> QED BY <2>1, <2>2, <2>3 DEF TypeOK
<1>2. OneProcess
  <2> DEFINE active == {p \in Prompts : proc[p].alive /\ ~proc[p].stopping}
  <2> SUFFICES ASSUME ~h.slipped PROVE Cardinality(active) <= 1
    BY DEF OneProcess
  <2>1. EarlyInv /\ StartInv /\ ActiveInv
    BY DEF IInv, CleanInv
  <2>2. PICK x : active \subseteq {x}
    <3>1. CASE \E c \in Prompts : call[c].pc = "launched"
      <4>1. PICK c \in Prompts : call[c].pc = "launched"
        BY <3>1
      <4>2. s.turn = c /\ s.proc = None
        BY <2>1, <4>1 DEF EarlyInv, StartInv, Early
      <4>3. \A p \in active : call[p].pc = "launched"
        BY <2>1, <4>2, NoneIsNoPrompt DEF ActiveInv, Active
      <4>4. \A p \in active : p = c
        BY <2>1, <4>2, <4>3 DEF EarlyInv, Early
      <4> QED BY <4>4
    <3>2. CASE ~\E c \in Prompts : call[c].pc = "launched"
      BY <2>1, <3>2 DEF ActiveInv, Active
    <3> QED BY <3>1, <3>2
  <2>3. IsFiniteSet({x}) /\ Cardinality({x}) = 1
    BY FS_Singleton
  <2> HIDE DEF active
  <2>4. Cardinality(active) <= Cardinality({x})
    BY <2>2, <2>3, FS_Subset
  <2> QED BY <2>3, <2>4
<1> QED BY <1>1, <1>2

\* Types, and, outside the mishaps of the README, one process for the session:
\* a second one is not started (ensureRunning) before the first one was told to
\* stop (stopProcess) or has exited, however prompts, their timers, the reaper,
\* extensions and crashes are interleaved.
THEOREM OneProcessAtATime == Spec => []ProcessesSound
BY Invariance, ProcessesFollow, PTL

\* Outside the mishaps of the README: a prompt that was accepted is the turn of
\* the session until that turn is told to its end, by turn_finished (onSettled)
\* or by the error of the exit (onExit).
THEOREM AcceptedIsTold == Spec => []NoTurnIsDropped
<1>1. IInv => NoTurnIsDropped
  BY DEF NoTurnIsDropped, IInv, CleanInv, ToldInv
<1> QED BY <1>1, Invariance, PTL

-----------------------------------------------------------------------------
(* What a step does to the processes.                                      *)

\* What a process was asked and runs stays; dialogs may be closed.
Keeps(q, p) == /\ q.alive = p.alive /\ q.inbox = p.inbox /\ q.run = p.run
               /\ q.open \subseteq p.open /\ (p.stopping => q.stopping)
Calm == \A p \in Prompts : Keeps(proc'[p], proc[p]) /\ proc'[p].pipe = proc[p].pipe

\* Process p does or says something.
Spoke(p, inbox, run, open, lines) ==
  /\ proc[p].alive /\ proc'[p].alive /\ proc'[p].stopping = proc[p].stopping
  /\ proc'[p].inbox = inbox /\ proc'[p].run = run /\ proc'[p].open = open
  /\ proc'[p].pipe = proc[p].pipe \o lines
  /\ \A x \in Prompts \ {p} : proc'[x] = proc[x]

\* A line of process p was read.
Took(p) ==
  /\ loop[p] = "read" /\ proc[p].pipe # <<>> /\ proc'[p].pipe = Tail(proc[p].pipe)
  /\ \A x \in Prompts : Keeps(proc'[x], proc[x]) /\ (x # p => proc'[x].pipe = proc[x].pipe)

\* A process is told to do something for prompt c.
Asked(p, c, what) ==
  \A x \in Prompts :
    /\ proc'[x].alive = proc[x].alive /\ proc'[x].stopping = proc[x].stopping
    /\ proc'[x].run = proc[x].run /\ proc'[x].pipe = proc[x].pipe /\ proc'[x].open = proc[x].open
    /\ \A m \in proc'[x].inbox : m \in proc[x].inbox \/ (x = p /\ m = <<what, c>> /\ proc[x].alive)

LEMMA CalmAnswer ==
  ASSUME IInv, NEW P \in [Prompts -> Processes], NEW p \in Nobody, NEW N, proc' = Answer(P, p, N)
  PROVE  /\ \A x \in Prompts : Keeps(proc'[x], P[x]) /\ proc'[x].pipe = P[x].pipe
         /\ p # None => proc'[p].open = P[p].open \ N
<1>1. CASE p = None
  BY <1>1 DEF Answer, Keeps
<1>2. CASE p \in Prompts
  <2> DEFINE q == [P[p] EXCEPT !.open = @ \ N]
  <2>1. P[p] \in Processes
    BY <1>2
  <2>2. proc' = [P EXCEPT ![p] = q]
    BY <1>2, NoneIsNoPrompt DEF Answer
  <2>3. Keeps(q, P[p]) /\ q.pipe = P[p].pipe /\ q.open = P[p].open \ N
    BY <2>1 DEF Processes, Keeps
  <2> HIDE DEF q
  <2> QED BY <1>2, <2>2, <2>3 DEF Keeps
<1> QED BY <1>1, <1>2 DEF Nobody

LEMMA CalmSteps ==
  ASSUME IInv
  PROVE  /\ UNCHANGED proc => Calm
         /\ \A p \in Nobody : \A N : proc' = Answer(proc, p, N) =>
              Calm /\ (p # None => proc'[p].open = proc[p].open \ N)
         /\ \A p \in Nobody : StopProcess(p) => Calm /\ (p # None => proc'[p].stopping)
<1>1. UNCHANGED proc => Calm
  BY DEF Calm, Keeps
<1>2. proc \in [Prompts -> Processes]
  BY DEF IInv, Typed, ProcessesTyped, AllGood
<1>3. ASSUME NEW p \in Nobody, NEW N, proc' = Answer(proc, p, N)
      PROVE  Calm /\ (p # None => proc'[p].open = proc[p].open \ N)
  BY <1>2, <1>3, CalmAnswer DEF Calm
<1>4. ASSUME NEW p \in Nobody, StopProcess(p)
      PROVE  Calm /\ (p # None => proc'[p].stopping)
  <2>1. CASE p = None
    BY <1>1, <1>4, <2>1 DEF StopProcess
  <2>2. CASE p \in Prompts
    <3> DEFINE q == [proc[p] EXCEPT !.stopping = TRUE]
    <3>1. proc[p] \in Processes
      BY <2>2, <1>2
    <3>2. Keeps(q, proc[p]) /\ q.pipe = proc[p].pipe /\ q.stopping
      BY <3>1 DEF Processes, Keeps
    <3>3. proc' = [proc EXCEPT ![p] = q]
      BY <1>4, <2>2, NoneIsNoPrompt DEF StopProcess
    <3> HIDE DEF q
    <3> QED BY <1>2, <2>2, <3>2, <3>3 DEF Calm, Keeps
  <2> QED BY <2>1, <2>2 DEF Nobody
<1> QED BY <1>1, <1>3, <1>4

LEMMA SpokeStep ==
  ASSUME IInv, NEW p \in Prompts, NEW q \in Processes, NEW lines, PiStep(p, q, lines),
         q.pipe = proc[p].pipe, q.alive = proc[p].alive, q.stopping = proc[p].stopping
  PROVE  Spoke(p, q.inbox, q.run, q.open, lines) /\ UNCHANGED <<s, call, loop, respond>>
<1> DEFINE pipe == q.pipe \o lines
           r == [q EXCEPT !.pipe = pipe]
<1>1. proc' = [proc EXCEPT ![p] = r] /\ proc[p].alive /\ UNCHANGED <<s, call, loop, respond>>
  BY DEF PiStep
<1> HIDE DEF pipe
<1>2. /\ r.pipe = pipe /\ r.alive = q.alive /\ r.stopping = q.stopping
      /\ r.inbox = q.inbox /\ r.run = q.run /\ r.open = q.open
  BY DEF Processes
<1> HIDE DEF r
<1>3. proc'[p] = r /\ \A x \in Prompts \ {p} : proc'[x] = proc[x]
  BY <1>1 DEF IInv, Typed, ProcessesTyped, AllGood
<1> QED BY <1>1, <1>2, <1>3 DEF Spoke, pipe

\* What each step of pi says, and does to its process.
Verdict(c) == <<"response", c>>
User(c) == <<"user", c>>

\* What pi says when it takes a prompt, the verdict first or last.
Begins(c, lines) ==
  \/ lines = <<Verdict(c), <<"agent_start">>, User(c)>>
  \/ lines = <<<<"agent_start">>, User(c), Verdict(c)>>

LEMMA ThreeLines ==
  ASSUME NEW a \in Lines, NEW b \in Lines, NEW c \in Lines
  PROVE  /\ <<a>> \o <<b, c>> = <<a, b, c>> /\ <<a, b>> \o <<c>> = <<a, b, c>>
         /\ <<a, b, c>> \in Seq(Lines)
         /\ \A line : Has(<<a, b, c>>, line) <=> line \in {a, b, c}
<1> DEFINE l == <<a>> \o <<b, c>>
           m == <<a, b>> \o <<c>>
           n == <<a, b, c>>
<1>1. l \in Seq(Lines) /\ Len(l) = 3 /\ l[1] = a /\ l[2] = b /\ l[3] = c
  OBVIOUS
<1>2. m \in Seq(Lines) /\ Len(m) = 3 /\ m[1] = a /\ m[2] = b /\ m[3] = c
  OBVIOUS
<1>3. n \in Seq(Lines) /\ DOMAIN n = 1..3 /\ n[1] = a /\ n[2] = b /\ n[3] = c
  OBVIOUS
<1> HIDE DEF l, m
<1>4. l = <<a, b, c>> /\ m = <<a, b, c>>
  BY <1>1, <1>2
<1> HIDE DEF n
<1>5. \A line : Has(n, line) <=> line \in {a, b, c}
  BY <1>3 DEF Has
<1> QED BY <1>3, <1>4, <1>5 DEF l, m, n

LEMMA BeginLines ==
  ASSUME NEW c \in Prompts, NEW lines, Begins(c, lines)
  PROVE  /\ lines \in Seq(Lines)
         /\ \A line : Has(lines, line) <=> line \in {Verdict(c), <<"agent_start">>, User(c)}
<1>1. /\ Verdict(c) \in Lines /\ <<"agent_start">> \in Lines /\ User(c) \in Lines
  BY DEF Lines, Verdict, User
<1>2. CASE lines = <<Verdict(c), <<"agent_start">>, User(c)>>
  BY <1>1, <1>2, ThreeLines, Zenon
<1>3. CASE lines = <<<<"agent_start">>, User(c), Verdict(c)>>
  <2>1. /\ lines \in Seq(Lines)
        /\ \A line : Has(lines, line) <=> line \in {<<"agent_start">>, User(c), Verdict(c)}
    BY <1>1, <1>3, ThreeLines, Zenon
  <2> QED BY <2>1
<1> QED BY <1>2, <1>3 DEF Begins

LEMMA PiTakesIs ==
  ASSUME IInv, NEW p \in Prompts, NEW m \in proc[p].inbox, PiTakes(p, m)
  PROVE  /\ m[2] \in Prompts /\ UNCHANGED <<s, call, loop, respond, h>>
         /\ \/ /\ m = <<"get_state", m[2]>>
               /\ Spoke(p, proc[p].inbox \ {m}, proc[p].run, proc[p].open, <<Verdict(m[2])>>)
            \/ /\ m = <<"prompt", m[2]>> /\ proc[p].run = None
               /\ \E lines : /\ Begins(m[2], lines)
                             /\ Spoke(p, proc[p].inbox \ {m}, m[2], proc[p].open, lines)
<1> DEFINE inbox == proc[p].inbox \ {m}
           c == m[2]
           q == [proc[p] EXCEPT !.inbox = inbox]
           r == [q EXCEPT !.run = c]
           start == <<"agent_start">>
           first == <<Verdict(c), start, User(c)>>
           last == <<start, User(c), Verdict(c)>>
<1>1. proc[p] \in Processes
  BY GoodProcess
<1>2. m \in Messages /\ c \in Prompts /\ m = <<m[1], c>> /\ inbox \in SUBSET Messages
  BY <1>1 DEF Processes, Messages
<1>3. \/ m[1] = "get_state" /\ PiStep(p, q, <<Verdict(c)>>)
      \/ /\ m[1] = "prompt" /\ proc[p].run = None
         /\ \/ PiStep(p, r, <<Verdict(c)>> \o <<start, User(c)>>)
            \/ PiStep(p, r, <<start, User(c)>> \o <<Verdict(c)>>)
  BY DEF PiTakes, Verdict, User
<1>4. <<Verdict(c)>> \o <<start, User(c)>> = first /\ <<start, User(c)>> \o <<Verdict(c)>> = last
  <2>1. Verdict(c) \in Lines /\ start \in Lines /\ User(c) \in Lines
    BY <1>2 DEF Lines, Verdict, User
  <2> HIDE DEF start
  <2> QED BY <2>1, ThreeLines
<1>5. UNCHANGED h
  BY DEF PiTakes
<1>6. first \in Seq(Lines) /\ last \in Seq(Lines) /\ Begins(c, first) /\ Begins(c, last)
      /\ <<Verdict(c)>> \in Seq(Lines)
  <2>1. Begins(c, first) /\ Begins(c, last)
    BY DEF Begins
  <2>2. Verdict(c) \in Lines
    BY <1>2 DEF Lines, Verdict
  <2>3. <<Verdict(c)>> \in Seq(Lines)
    BY <2>2
  <2> HIDE DEF first, last
  <2> QED BY <1>2, <2>1, <2>3, BeginLines
<1> HIDE DEF inbox, first, last, c
<1>7. /\ q \in Processes /\ q.pipe = proc[p].pipe /\ q.alive = proc[p].alive /\ q.inbox = inbox
      /\ q.stopping = proc[p].stopping /\ q.run = proc[p].run /\ q.open = proc[p].open
  BY <1>1, <1>2 DEF Processes
<1> HIDE DEF q
<1>8. /\ r \in Processes /\ r.pipe = q.pipe /\ r.alive = q.alive /\ r.inbox = inbox
      /\ r.stopping = q.stopping /\ r.run = c /\ r.open = proc[p].open
  BY <1>2, <1>7, NoneIsNoPrompt DEF Processes, Nobody
<1> HIDE DEF r
<1>9. ASSUME PiStep(p, q, <<Verdict(c)>>)
      PROVE  /\ UNCHANGED <<s, call, loop, respond>>
             /\ Spoke(p, inbox, proc[p].run, proc[p].open, <<Verdict(c)>>)
  BY <1>6, <1>7, <1>9, SpokeStep
<1>10. ASSUME NEW lines \in {first, last}, PiStep(p, r, lines)
       PROVE  UNCHANGED <<s, call, loop, respond>> /\ Spoke(p, inbox, c, proc[p].open, lines)
  BY <1>6, <1>7, <1>8, <1>10, SpokeStep
<1> QED BY <1>2, <1>3, <1>4, <1>5, <1>6, <1>9, <1>10 DEF inbox, c

LEMMA PiDrivesIs ==
  ASSUME IInv, NEW p \in Prompts, PiDrives(p)
  PROVE  /\ proc[p].run = None /\ call[p].pc \notin {"launched", "handshake"}
         /\ UNCHANGED <<s, call, loop, respond>> /\ Note([h EXCEPT !.drove = h.drove + 1], FALSE)
         /\ Spoke(p, proc[p].inbox, Extension, proc[p].open, <<<<"agent_start">>>>)
<1> DEFINE q == [proc[p] EXCEPT !.run = Extension]
           lines == <<<<"agent_start">>>>
<1>1. /\ proc[p].run = None /\ call[p].pc \notin {"launched", "handshake"}
      /\ Note([h EXCEPT !.drove = h.drove + 1], FALSE) /\ PiStep(p, q, lines)
  BY DEF PiDrives
<1>2. proc[p] \in Processes /\ lines \in Seq(Lines)
  BY GoodProcess DEF Lines
<1>3. /\ q \in Processes /\ q.pipe = proc[p].pipe /\ q.alive = proc[p].alive /\ q.run = Extension
      /\ q.stopping = proc[p].stopping /\ q.inbox = proc[p].inbox /\ q.open = proc[p].open
  BY <1>2 DEF Processes
<1> HIDE DEF q, lines
<1>4. UNCHANGED <<s, call, loop, respond>> /\ Spoke(p, proc[p].inbox, Extension, proc[p].open, lines)
  BY <1>1, <1>2, <1>3, SpokeStep
<1> QED BY <1>1, <1>4 DEF lines

LEMMA SteerIs ==
  ASSUME IInv, NEW p \in Prompts, Steer(p)
  PROVE  /\ s.proc = p /\ s.running /\ (s.turn # None => call[s.turn].pc = "returned")
         /\ proc[p].run \in Prompts \cup {Extension}
         /\ UNCHANGED <<s, call, loop, respond>> /\ Note([h EXCEPT !.drove = h.drove + 1], FALSE)
         /\ Spoke(p, proc[p].inbox, proc[p].run, proc[p].open, <<<<"steer", proc[p].run>>>>)
<1> DEFINE lines == <<<<"steer", proc[p].run>>>>
<1>1. /\ s.proc = p /\ s.running /\ (s.turn # None => call[s.turn].pc = "returned")
      /\ proc[p].run # None /\ Note([h EXCEPT !.drove = h.drove + 1], FALSE)
      /\ PiStep(p, proc[p], lines)
  BY DEF Steer
<1>2. proc[p] \in Processes /\ proc[p].run \in Prompts \cup {Extension} /\ lines \in Seq(Lines)
  BY <1>1, GoodProcess DEF Lines, Processes, Nobody
<1> HIDE DEF lines
<1>3. /\ UNCHANGED <<s, call, loop, respond>>
      /\ Spoke(p, proc[p].inbox, proc[p].run, proc[p].open, lines)
  BY <1>1, <1>2, SpokeStep
<1> QED BY <1>1, <1>2, <1>3 DEF lines

LEMMA PiAsksIs ==
  ASSUME IInv, NEW p \in Prompts, PiAsks(p)
  PROVE  LET n == h.asked + 1 IN
         /\ proc[p].run # None /\ n \in Asks
         /\ UNCHANGED <<s, call, loop, respond>> /\ Note([h EXCEPT !.asked = n], FALSE)
         /\ Spoke(p, proc[p].inbox, proc[p].run, proc[p].open \cup {n},
                  <<<<"extension_ui_request", n>>>>)
<1> DEFINE n == h.asked + 1
           open == proc[p].open \cup {n}
           q == [proc[p] EXCEPT !.open = open]
           lines == <<<<"extension_ui_request", n>>>>
<1>1. proc[p].run # None /\ n \in Asks /\ Note([h EXCEPT !.asked = n], FALSE) /\ PiStep(p, q, lines)
  BY DEF PiAsks
<1> HIDE DEF n
<1>2. proc[p] \in Processes /\ open \in SUBSET Asks /\ lines \in Seq(Lines)
  BY <1>1, GoodProcess DEF Processes, Lines
<1> HIDE DEF open, lines
<1>3. /\ q \in Processes /\ q.pipe = proc[p].pipe /\ q.alive = proc[p].alive /\ q.run = proc[p].run
      /\ q.stopping = proc[p].stopping /\ q.inbox = proc[p].inbox /\ q.open = open
  BY <1>2 DEF Processes
<1> HIDE DEF q
<1>4. UNCHANGED <<s, call, loop, respond>> /\ Spoke(p, proc[p].inbox, proc[p].run, open, lines)
  BY <1>1, <1>2, <1>3, SpokeStep
<1> QED BY <1>1, <1>4 DEF n, open, lines

LEMMA PiSettlesIs ==
  ASSUME IInv, NEW p \in Prompts, PiSettles(p)
  PROVE  /\ proc[p].run \in Prompts \cup {Extension} /\ proc[p].open = {}
         /\ UNCHANGED <<s, call, loop, respond, h>>
         /\ Spoke(p, proc[p].inbox, None, proc[p].open, <<<<"agent_settled", proc[p].run>>>>)
<1> DEFINE q == [proc[p] EXCEPT !.run = None]
           lines == <<<<"agent_settled", proc[p].run>>>>
<1>1. PiStep(p, q, lines) /\ proc[p].run # None /\ proc[p].open = {} /\ UNCHANGED h
  BY DEF PiSettles
<1>2. proc[p] \in Processes /\ proc[p].run \in Prompts \cup {Extension} /\ lines \in Seq(Lines)
  BY <1>1, GoodProcess DEF Processes, Lines, Nobody
<1>3. /\ q \in Processes /\ q.pipe = proc[p].pipe /\ q.alive = proc[p].alive /\ q.run = None
      /\ q.stopping = proc[p].stopping /\ q.inbox = proc[p].inbox /\ q.open = proc[p].open
  BY <1>2, NoneIsNoPrompt DEF Processes
<1> HIDE DEF q, lines
<1>4. UNCHANGED <<s, call, loop, respond>> /\ Spoke(p, proc[p].inbox, None, proc[p].open, lines)
  BY <1>1, <1>2, <1>3, SpokeStep
<1> QED BY <1>1, <1>2, <1>4 DEF lines

LEMMA PiDiesIs ==
  ASSUME IInv, NEW p \in Prompts, PiDies(p)
  PROVE  /\ proc[p].alive /\ UNCHANGED <<s, call, loop, respond, h>>
         /\ ~proc'[p].alive /\ ~proc'[p].stopping /\ proc'[p].inbox = {} /\ proc'[p].run = None
         /\ proc'[p].open = {} /\ proc'[p].pipe = proc[p].pipe
         /\ \A x \in Prompts \ {p} : proc'[x] = proc[x]
<1> DEFINE pipe == proc[p].pipe
           q == [NoProcess EXCEPT !.pipe = pipe]
<1>1. proc[p].alive /\ proc' = [proc EXCEPT ![p] = q] /\ UNCHANGED <<s, call, loop, respond, h>>
  BY DEF PiDies
<1>2. proc \in [Prompts -> Processes]
  BY DEF IInv, Typed, ProcessesTyped, AllGood
<1> HIDE DEF pipe
<1>3. /\ ~q.alive /\ ~q.stopping /\ q.inbox = {} /\ q.run = None /\ q.open = {} /\ q.pipe = pipe
  BY DEF NoProcess
<1> HIDE DEF q
<1>4. proc'[p] = q /\ \A x \in Prompts \ {p} : proc'[x] = proc[x]
  BY <1>1, <1>2
<1> QED BY <1>1, <1>3, <1>4 DEF pipe

LEMMA TookLine ==
  ASSUME IInv, NEW p \in Prompts, NEW kind, HasLine(p, kind)
  PROVE  /\ proc' = Rest(p) => Took(p) /\ \A x \in Prompts : proc'[x].open = proc[x].open
         /\ \A q \in Nobody : \A N : proc' = Answer(Rest(p), q, N) =>
              Took(p) /\ (q # None => proc'[q].open = proc[q].open \ N)
<1> DEFINE rest == Tail(proc[p].pipe)
           q == [proc[p] EXCEPT !.pipe = rest]
<1>1. proc[p] \in Processes /\ proc \in [Prompts -> Processes] /\ loop[p] = "read" /\ proc[p].pipe # <<>>
  BY DEF HasLine, IInv, Typed, ProcessesTyped, AllGood
<1>2. Rest(p) = [proc EXCEPT ![p] = q]
  BY DEF Rest
<1> HIDE DEF rest
<1>3. /\ q.pipe = rest /\ q.stopping = proc[p].stopping /\ q.open = proc[p].open /\ Keeps(q, proc[p])
  BY <1>1 DEF Processes, Keeps
<1> HIDE DEF q
<1>4. Rest(p)[p] = q /\ \A x \in Prompts \ {p} : Rest(p)[x] = proc[x]
  BY <1>1, <1>2
<1>5. \A x \in Prompts : /\ Keeps(Rest(p)[x], proc[x]) /\ Rest(p)[x].open = proc[x].open
                         /\ Rest(p)[x].pipe = IF x = p THEN rest ELSE proc[x].pipe
  BY <1>3, <1>4 DEF Keeps
<1>6. proc' = Rest(p) => Took(p) /\ \A x \in Prompts : proc'[x].open = proc[x].open
  BY <1>1, <1>5 DEF Took, rest
<1>7. ASSUME NEW y \in Nobody, NEW N, proc' = Answer(Rest(p), y, N)
      PROVE  Took(p) /\ (y # None => proc'[y].open = proc[y].open \ N)
  <2>1. Rest(p) \in [Prompts -> Processes]
    BY <1>1, RestTyped DEF AllGood
  <2>2. /\ \A x \in Prompts : Keeps(proc'[x], Rest(p)[x]) /\ proc'[x].pipe = Rest(p)[x].pipe
        /\ y # None => proc'[y].open = Rest(p)[y].open \ N
    BY <1>7, <2>1, CalmAnswer
  <2>3. y # None => y \in Prompts
    BY DEF Nobody
  <2>4. \A x \in Prompts : Keeps(proc'[x], proc[x])
    BY <1>5, <2>2 DEF Keeps
  <2> QED BY <1>1, <1>5, <2>2, <2>3, <2>4 DEF Took, rest
<1> QED BY <1>6, <1>7

LEMMA AskedStep ==
  ASSUME IInv, NEW p \in Prompts, NEW c \in Prompts, NEW what, Request(p, c, what)
  PROVE  Asked(p, c, what)
<1> DEFINE inbox == IF proc[p].alive /\ ~proc[p].stopping THEN proc[p].inbox \cup {<<what, c>>}
                                                         ELSE proc[p].inbox
           q == [proc[p] EXCEPT !.inbox = inbox]
<1>1. proc[p] \in Processes /\ proc \in [Prompts -> Processes]
  BY DEF IInv, Typed, ProcessesTyped, AllGood
<1>2. proc' = [proc EXCEPT ![p] = q]
  BY DEF Request
<1>3. \A m \in inbox : m \in proc[p].inbox \/ (m = <<what, c>> /\ proc[p].alive)
  OBVIOUS
<1> HIDE DEF inbox
<1>4. /\ q.pipe = proc[p].pipe /\ q.alive = proc[p].alive /\ q.inbox = inbox
      /\ q.stopping = proc[p].stopping /\ q.run = proc[p].run /\ q.open = proc[p].open
  BY <1>1 DEF Processes
<1> HIDE DEF q
<1>5. proc'[p] = q /\ \A x \in Prompts \ {p} : proc'[x] = proc[x]
  BY <1>1, <1>2
<1> QED BY <1>3, <1>4, <1>5 DEF Asked

-----------------------------------------------------------------------------
(* The row and the turn: the session is busy while somebody works.         *)

StateInv == /\ LifeInv /\ AskInv /\ RunInv /\ BusyInv /\ AcceptedInv
            /\ (~h.slipped => ProcInv /\ RowInv)

\* A prompt that is over or one step on, short of being launched or written.
CallMoves(c) ==
  \/ call'[c] = call[c]
  \/ /\ call[c].pc \in {"new", "claimed"} /\ call'[c].pc \in {"claimed", "starting"}
     /\ call'[c].p = call[c].p /\ call'[c].answered = call[c].answered
  \/ call[c].pc = "handshake" /\ call'[c].pc = "stopping"
  \/ call'[c].pc = "failed"
  \/ call[c].pc = "asking" /\ call'[c].pc = "returned" /\ call'[c].p = call[c].p
\* A loop that goes on, or ends with nothing left to read.
LoopMoves(p) ==
  \/ loop'[p] = loop[p]
  \/ /\ loop[p] # "none" /\ loop'[p] # "none"
     /\ loop'[p] \in Done => proc[p].pipe = <<>>

LEMMA CalmLines ==
  ASSUME IInv, LifeInv, AskInv, RunInv, Calm, \A c \in Prompts : CallMoves(c)
  PROVE  AskInv' /\ RunInv'
<1>1. \A p, c \in Prompts : /\ Answers(p, c)' <=> Answers(p, c)
                            /\ proc'[p].pipe = proc[p].pipe /\ proc'[p].inbox = proc[p].inbox
                            /\ Runs(proc'[p]) <=> Runs(proc[p])
  BY DEF Calm, Keeps, Answers, Runs
<1>2. AskInv'
  <2> SUFFICES ASSUME NEW c \in Prompts, NEW p \in Prompts
               PROVE  /\ call'[c].pc \in Early \cup {"new"} =>
                           <<"get_state", c>> \notin proc'[p].inbox /\ ~Answers(p, c)'
                      /\ call'[c].pc = "handshake" => call'[c].p = c
                      /\ <<"get_state", c>> \in proc'[p].inbox =>
                           /\ p = c /\ call'[c].pc \in {"handshake", "stopping", "failed"}
                           /\ call'[c].pc = "handshake" => ~Answers(p, c)' /\ ~call'[c].answered
                      /\ call'[c].pc = "handshake" /\ Answers(p, c)' =>
                           /\ p = c /\ ~call'[c].answered
                           /\ NotAfter(proc'[p].pipe, <<"response", c>>, <<"response", c>>)
    BY DEF AskInv
  <2>1. CallMoves(c)
    OBVIOUS
  <2> QED BY <1>1, <2>1 DEF CallMoves, AskInv, Early
<1>3. RunInv'
  BY <1>1 DEF RunInv, CallMoves
<1> QED BY <1>2, <1>3

LEMMA CalmLife ==
  ASSUME IInv, LifeInv, Calm, \A c \in Prompts : CallMoves(c), \A p \in Prompts : LoopMoves(p),
         s'.proc \in {s.proc, None},
         \A c \in Prompts : s'.turn = c => call'[c].pc \notin {"new", "failed"}
  PROVE  LifeInv'
<1> SUFFICES ASSUME NEW p \in Prompts
             PROVE  /\ ~proc'[p].alive => proc'[p].inbox = {} /\ proc'[p].run = None /\ proc'[p].open = {}
                    /\ loop'[p] = "none" => ~proc'[p].alive
                    /\ loop'[p] \in {"none"} \cup Done => proc'[p].pipe = <<>>
                    /\ call'[p].pc \in {"new", "claimed", "starting"} => loop'[p] = "none"
                    /\ call'[p].pc = "launched" =>
                         proc'[p].inbox = {} /\ proc'[p].pipe = <<>> /\ proc'[p].run = None
                         /\ proc'[p].open = {}
                    /\ call'[p].pc \in Early \cup {"new"} => s'.proc # p /\ ~call'[p].answered
                    /\ s'.turn = p => call'[p].pc \notin {"new", "failed"}
  BY DEF LifeInv
<1>1. Keeps(proc'[p], proc[p]) /\ proc'[p].pipe = proc[p].pipe
  BY DEF Calm
<1>2. CallMoves(p) /\ LoopMoves(p)
  OBVIOUS
<1>3. ~proc'[p].alive => proc'[p].inbox = {} /\ proc'[p].run = None /\ proc'[p].open = {}
  BY <1>1 DEF LifeInv, Keeps
<1>4. /\ loop'[p] = "none" => ~proc'[p].alive
      /\ loop'[p] \in {"none"} \cup Done => proc'[p].pipe = <<>>
  BY <1>1, <1>2 DEF LifeInv, Keeps, LoopMoves
<1>5. call'[p].pc \in {"new", "claimed", "starting"} => loop'[p] = "none"
  BY <1>2 DEF LifeInv, CallMoves, LoopMoves
<1>6. call'[p].pc = "launched" =>
        proc'[p].inbox = {} /\ proc'[p].pipe = <<>> /\ proc'[p].run = None /\ proc'[p].open = {}
  BY <1>1, <1>2 DEF LifeInv, CallMoves, Keeps
<1>7. call'[p].pc \in Early \cup {"new"} => s'.proc # p /\ ~call'[p].answered
  BY <1>2, NoneIsNoPrompt DEF LifeInv, CallMoves, Early
<1> QED BY <1>3, <1>4, <1>5, <1>6, <1>7

\* Somebody who worked still does.
BusyStays == s'.running =>
  /\ s.running
  /\ \A c \in Prompts : Sending(call[c]) => Sending(call'[c])
  /\ \A p \in Prompts : Working(p) => Working(p)'
\* No other turn is accepted, and its process goes on.
AcceptedStays == \A c \in Prompts : Accepted(call'[c]) /\ s'.turn = c =>
  /\ Accepted(call[c]) /\ s.turn = c /\ call'[c].p = call[c].p
  /\ \A p \in Prompts : ~Exited(p) /\ loop[p] # "idle" => ~Exited(p)' /\ loop'[p] # "idle"

LEMMA BusyKept ==
  ASSUME BusyInv, BusyStays
  PROVE  BusyInv'
BY DEF BusyInv, BusyStays

LEMMA AcceptedKept ==
  ASSUME AcceptedInv, AcceptedStays
  PROVE  AcceptedInv'
BY DEF AcceptedInv, AcceptedStays

\* A calm step, of which what is left to show is about the session.
LEMMA CalmKeeps ==
  ASSUME IInv, StateInv, Calm, \A c \in Prompts : CallMoves(c), \A p \in Prompts : LoopMoves(p),
         s'.proc \in {s.proc, None},
         \A c \in Prompts : s'.turn = c => call'[c].pc \notin {"new", "failed"},
         BusyInv', AcceptedInv', ~h'.slipped => ProcInv' /\ RowInv'
  PROVE  StateInv'
BY CalmLines, CalmLife DEF StateInv

\* What went on of a process that runs, has its end to tell, or is over.
LEMMA CalmWorks ==
  ASSUME IInv, NEW p \in Prompts, Working(p), Calm,
         loop'[p] = loop[p] \/ (~Exited(p)' /\ (loop[p] \in {"settled", "closed"}
                                                => loop'[p] \in {"settled", "closed"}))
  PROVE  Working(p)'
BY DEF Working, Calm, Keeps, Runs, Exited

LEMMA NoteDoes ==
  ASSUME IInv, NEW g, NEW mishap, g.slipped = h.slipped, Note(g, mishap)
  PROVE  /\ ~h'.slipped => h' = g /\ ~mishap /\ ~h.slipped
         /\ h'.slipped => h'.answered = {} /\ h'.twice = FALSE /\ h'.asked = g.asked
         /\ ~h.slipped /\ ~mishap => h' = g
<1>1. CASE mishap \/ h.slipped
  <2>1. h' = [NoHistory EXCEPT !.asked = g.asked, !.drove = g.drove, !.slipped = TRUE]
    BY <1>1 DEF Note
  <2> QED BY <1>1, <2>1 DEF NoHistory
<1>2. CASE ~(mishap \/ h.slipped)
  BY <1>2 DEF Note
<1> QED BY <1>1, <1>2

LEMMA SessionIs ==
  ASSUME IInv
  PROVE  /\ s \in Sessions /\ s.turn \in Nobody /\ s.proc \in Nobody /\ (s.turn # None => s.running)
         /\ \A c \in Prompts : call[c] \in Calls /\ call[c].p \in Nobody
         /\ DOMAIN call = Prompts /\ DOMAIN loop = Prompts
BY DEF IInv, Typed, SessionTyped, Sessions, CallsTyped, Calls, LoopsTyped

\* A call changes.
LEMMA CallIs ==
  ASSUME IInv, NEW c \in Prompts, NEW pc
  PROVE  /\ Goto(c, pc) => /\ call'[c].pc = pc /\ call'[c].p = call[c].p
                           /\ call'[c].answered = call[c].answered
                           /\ \A d \in Prompts \ {c} : call'[d] = call[d]
         /\ Return(c, pc) => /\ call'[c].pc = pc /\ call'[c].p = None /\ ~call'[c].answered
                             /\ \A d \in Prompts \ {c} : call'[d] = call[d]
<1>1. ASSUME Goto(c, pc)
      PROVE  /\ call'[c].pc = pc /\ call'[c].p = call[c].p /\ call'[c].answered = call[c].answered
             /\ \A d \in Prompts \ {c} : call'[d] = call[d]
  <2> DEFINE q == [call[c] EXCEPT !.pc = pc]
  <2>1. q.pc = pc /\ q.p = call[c].p /\ q.answered = call[c].answered
    BY SessionIs DEF Calls
  <2>2. call' = [call EXCEPT ![c] = q]
    BY <1>1 DEF Goto
  <2> HIDE DEF q
  <2> QED BY <2>1, <2>2, SessionIs
<1>2. ASSUME Return(c, pc)
      PROVE  /\ call'[c].pc = pc /\ call'[c].p = None /\ ~call'[c].answered
             /\ \A d \in Prompts \ {c} : call'[d] = call[d]
  <2> DEFINE q == [NoCall EXCEPT !.pc = pc]
  <2>1. q.pc = pc /\ q.p = None /\ ~q.answered
    BY DEF NoCall
  <2>2. call' = [call EXCEPT ![c] = q]
    BY <1>2 DEF Return
  <2> HIDE DEF q
  <2> QED BY <2>1, <2>2, SessionIs
<1> QED BY <1>1, <1>2

-----------------------------------------------------------------------------
(* The steps that leave the processes alone.                               *)

LEMMA BusyState ==
  ASSUME IInv, StateInv, NEW c \in Prompts, Busy(c)
  PROVE  StateInv'
<1>1. /\ call[c].pc = "new" /\ call'[c].pc = "failed" /\ \A d \in Prompts \ {c} : call'[d] = call[d]
      /\ UNCHANGED <<s, proc, loop, h>> /\ Calm
  BY CallIs, CalmSteps DEF Busy
<1>2. \A d \in Prompts : CallMoves(d) /\ LoopMoves(d)
  BY <1>1 DEF CallMoves, LoopMoves
<1>3. \A d \in Prompts : s'.turn = d => call'[d].pc \notin {"new", "failed"}
  BY <1>1 DEF StateInv, LifeInv
<1>4. BusyStays
  BY <1>1, CalmWorks DEF BusyStays, Sending
<1>5. AcceptedStays
  BY <1>1 DEF AcceptedStays, Accepted, Exited
<1>6. ~h'.slipped => ProcInv' /\ RowInv'
  BY <1>1 DEF StateInv, ProcInv, RowInv
<1> QED BY <1>1, <1>2, <1>3, <1>4, <1>5, <1>6, BusyKept, AcceptedKept, CalmKeeps DEF StateInv

LEMMA ClaimState ==
  ASSUME IInv, StateInv, NEW c \in Prompts, Claim(c)
  PROVE  StateInv'
<1>1. /\ call[c].pc = "new" /\ call'[c].pc = "claimed" /\ call'[c].p = call[c].p
      /\ call'[c].answered = call[c].answered /\ \A d \in Prompts \ {c} : call'[d] = call[d]
      /\ s' = [s EXCEPT !.turn = c, !.running = TRUE, !.echoed = FALSE]
      /\ UNCHANGED <<proc, loop>> /\ Calm
      /\ Note(h, \E p \in Prompts : loop[p] = "settled")
  BY CallIs, CalmSteps DEF Claim
<1>2. \A d \in Prompts : CallMoves(d) /\ LoopMoves(d)
  BY <1>1 DEF CallMoves, LoopMoves
<1>3. s'.turn = c /\ s'.proc = s.proc
  BY <1>1, SessionIs DEF Sessions
<1>4. \A d \in Prompts : s'.turn = d => call'[d].pc \notin {"new", "failed"}
  BY <1>1, <1>3
<1>5. BusyInv'
  BY <1>1 DEF BusyInv, Sending
<1>6. AcceptedStays
  BY <1>1, <1>3 DEF AcceptedStays, Accepted
<1>7. ~h'.slipped => ProcInv' /\ RowInv'
  BY <1>1, <1>3 DEF ProcInv, RowInv
<1> QED BY <1>1, <1>2, <1>3, <1>4, <1>5, <1>6, <1>7, AcceptedKept, CalmKeeps DEF StateInv

LEMMA NotRunningState ==
  ASSUME IInv, StateInv, NEW c \in Prompts, NotRunning(c)
  PROVE  StateInv'
<1>1. /\ call[c].pc = "claimed" /\ call'[c].pc = "starting" /\ call'[c].p = call[c].p
      /\ call'[c].answered = call[c].answered /\ \A d \in Prompts \ {c} : call'[d] = call[d]
      /\ s' = [s EXCEPT !.state = "starting"] /\ UNCHANGED <<proc, loop, h>> /\ Calm
  BY CallIs, CalmSteps DEF NotRunning
<1>2. \A d \in Prompts : CallMoves(d) /\ LoopMoves(d)
  BY <1>1 DEF CallMoves, LoopMoves
<1>3. s'.turn = s.turn /\ s'.proc = s.proc /\ s'.running = s.running /\ s'.state = "starting"
  BY <1>1, SessionIs DEF Sessions
<1>4. \A d \in Prompts : s'.turn = d => call'[d].pc \notin {"new", "failed"}
  BY <1>1, <1>3 DEF StateInv, LifeInv
<1>5. BusyStays
  BY <1>1, <1>3, CalmWorks DEF BusyStays, Sending
<1>6. AcceptedStays
  BY <1>1, <1>3 DEF AcceptedStays, Accepted, Exited
<1>7. ~h'.slipped => ProcInv' /\ RowInv'
  BY <1>1, <1>3 DEF StateInv, ProcInv, RowInv
<1> QED BY <1>1, <1>2, <1>3, <1>4, <1>5, <1>6, <1>7, BusyKept, AcceptedKept, CalmKeeps DEF StateInv

LEMMA HandshakeFailsState ==
  ASSUME IInv, StateInv, NEW c \in Prompts, HandshakeFails(c)
  PROVE  StateInv'
<1> DEFINE q == [call[c] EXCEPT !.pc = "stopping", !.p = s.proc]
<1>1. /\ call[c].pc = "handshake" /\ call' = [call EXCEPT ![c] = q]
      /\ s' = [s EXCEPT !.proc = None] /\ UNCHANGED <<loop, h>> /\ Calm
  BY CalmSteps, SessionIs DEF HandshakeFails
<1>2. q.pc = "stopping"
  BY SessionIs DEF Calls
<1> HIDE DEF q
<1>3. call'[c].pc = "stopping" /\ \A d \in Prompts \ {c} : call'[d] = call[d]
  BY <1>1, <1>2, SessionIs
<1>4. s'.turn = s.turn /\ s'.proc = None /\ s'.running = s.running /\ s'.state = s.state
  BY <1>1, SessionIs DEF Sessions
<1>5. \A d \in Prompts : CallMoves(d) /\ LoopMoves(d)
  BY <1>1, <1>3 DEF CallMoves, LoopMoves
<1>6. \A d \in Prompts : s'.turn = d => call'[d].pc \notin {"new", "failed"}
  BY <1>3, <1>4 DEF StateInv, LifeInv
<1>7. BusyStays
  BY <1>1, <1>3, <1>4, CalmWorks DEF BusyStays, Sending
<1>8. AcceptedStays
  BY <1>1, <1>3, <1>4 DEF AcceptedStays, Accepted, Exited
<1>9. ~h'.slipped => ProcInv' /\ RowInv'
  BY <1>1, <1>3, <1>4 DEF StateInv, ProcInv, RowInv
<1> QED BY <1>1, <1>4, <1>5, <1>6, <1>7, <1>8, <1>9, BusyKept, AcceptedKept, CalmKeeps DEF StateInv

LEMMA abandonTurnState ==
  ASSUME IInv, StateInv, NEW c \in Prompts, abandonTurn(c)
  PROVE  StateInv'
<1>1. /\ call'[c].pc = "failed" /\ \A d \in Prompts \ {c} : call'[d] = call[d]
      /\ s' = [s EXCEPT !.turn = None, !.running = FALSE, !.state = "idle"]
      /\ UNCHANGED <<proc, loop>> /\ Calm
  BY CallIs, CalmSteps DEF abandonTurn, PromptFails, Settled
<1>2. s'.turn = None /\ s'.proc = s.proc /\ ~s'.running
  BY <1>1, SessionIs DEF Sessions
<1>3. \A d \in Prompts : CallMoves(d) /\ LoopMoves(d) /\ s'.turn # d
  BY <1>1, <1>2, NoneIsNoPrompt DEF CallMoves, LoopMoves
<1>4. BusyInv' /\ AcceptedInv' /\ ProcInv' /\ RowInv'
  BY <1>2, <1>3 DEF BusyInv, AcceptedInv, ProcInv, RowInv
<1> QED BY <1>1, <1>2, <1>3, <1>4, CalmKeeps DEF StateInv

\* The answered prompt leaves its run behind, which is what its turn waits for.
LEMMA PromptReturnsState ==
  ASSUME IInv, StateInv, NEW c \in Prompts, PromptReturns(c)
  PROVE  StateInv'
<1>1. /\ call[c].pc = "asking" /\ call[c].answered /\ call'[c].pc = "returned"
      /\ call'[c].p = call[c].p /\ \A d \in Prompts \ {c} : call'[d] = call[d]
      /\ s' = [s EXCEPT !.state = "running"] /\ UNCHANGED <<proc, loop, h>> /\ Calm
  BY CallIs, CalmSteps DEF PromptReturns
<1>2. s'.turn = s.turn /\ s'.proc = s.proc /\ s'.running = s.running /\ s'.state = "running"
  BY <1>1, SessionIs DEF Sessions
<1>3. \A d \in Prompts : CallMoves(d) /\ LoopMoves(d)
  BY <1>1 DEF CallMoves, LoopMoves
<1>4. \A d \in Prompts : s'.turn = d => call'[d].pc \notin {"new", "failed"}
  BY <1>1, <1>2 DEF StateInv, LifeInv
<1>5. BusyStays
  BY <1>1, <1>2, CalmWorks DEF BusyStays, Sending
<1>6. AcceptedStays
  BY <1>1, <1>2 DEF AcceptedStays, Accepted, Exited
<1>7. ~h'.slipped => ProcInv' /\ RowInv'
  BY <1>1, <1>2 DEF StateInv, ProcInv, RowInv
<1> QED BY <1>1, <1>2, <1>3, <1>4, <1>5, <1>6, <1>7, BusyKept, AcceptedKept, CalmKeeps DEF StateInv

\* Prompts and the turn stay, the row does not turn idle, and no loop ends.
LEMMA StillState ==
  ASSUME IInv, StateInv, UNCHANGED call, s'.turn = s.turn, s'.running = s.running,
         s'.proc \in {s.proc, None}, s'.state # "idle" \/ s'.state = s.state,
         LifeInv', AskInv', RunInv',
         \A p \in Prompts : Working(p) => Working(p)',
         \A p \in Prompts : ~Exited(p) /\ loop[p] # "idle" => ~Exited(p)' /\ loop'[p] # "idle",
         ~h'.slipped => ~h.slipped
  PROVE  StateInv'
<1>1. BusyStays /\ AcceptedStays
  BY DEF BusyStays, AcceptedStays
<1>2. ~h'.slipped => ProcInv' /\ RowInv'
  BY DEF StateInv, ProcInv, RowInv
<1> QED BY <1>1, <1>2, BusyKept, AcceptedKept DEF StateInv

LEMMA StillCalmState ==
  ASSUME IInv, StateInv, UNCHANGED <<call, loop>>, Calm, s'.turn = s.turn, s'.running = s.running,
         s'.proc \in {s.proc, None}, s'.state # "idle" \/ s'.state = s.state,
         ~h'.slipped => ~h.slipped
  PROVE  StateInv'
<1>1. \A p \in Prompts : CallMoves(p) /\ LoopMoves(p) /\ (s'.turn = p => call'[p].pc \notin {"new", "failed"})
  BY DEF CallMoves, LoopMoves, StateInv, LifeInv
<1>2. LifeInv' /\ AskInv' /\ RunInv'
  BY <1>1, CalmLife, CalmLines DEF StateInv
<1>3. \A p \in Prompts : Working(p) => Working(p)'
  BY CalmWorks
<1> QED BY <1>2, <1>3, StillState DEF Exited

LEMMA AnsweredNotes ==
  ASSUME NEW p, NEW N
  PROVE  /\ Answered(p, N).slipped = h.slipped /\ Answered(p, N).asked = h.asked
         /\ Answered(p, N).ended = h.ended /\ Answered(p, N).echo = h.echo
BY DEF Answered

LEMMA InterruptState ==
  ASSUME IInv, StateInv, Interrupt
  PROVE  StateInv'
<1>1. /\ s' = [s EXCEPT !.pending = {}] /\ UNCHANGED <<call, loop>>
      /\ Calm /\ Note(Answered(s.proc, s.pending), FALSE)
  BY CalmSteps, SessionIs DEF Interrupt
<1>2. ~h'.slipped => ~h.slipped
  BY <1>1, NoteDoes, AnsweredTold DEF Told
<1> QED BY <1>1, <1>2, SessionIs, StillCalmState DEF Sessions

LEMMA RespondTakesState ==
  ASSUME IInv, StateInv, NEW o \in Owners, NEW n \in Asks, RespondTakes(o, n)
  PROVE  StateInv'
<1>1. s' = [s EXCEPT !.pending = s.pending \ {n}] /\ UNCHANGED <<call, loop, h>> /\ Calm
  BY CalmSteps DEF RespondTakes
<1> QED BY <1>1, SessionIs, StillCalmState DEF Sessions

LEMMA RespondIs ==
  ASSUME IInv, NEW o \in Owners, Respond(o)
  PROVE  LET p == respond[o][1]
             n == respond[o][2]
         IN
         /\ respond[o] # <<>> /\ p \in Nobody /\ n \in Asks /\ respond' = [respond EXCEPT ![o] = <<>>]
         /\ s' = [s EXCEPT !.state = "running"] \/ UNCHANGED s
         /\ UNCHANGED <<call, loop>> /\ Calm
         /\ \/ /\ p \in Prompts /\ proc[p].alive /\ proc'[p].open = proc[p].open \ {n}
               /\ Note(Answered(p, {n}), FALSE)
            \/ (p = None \/ ~proc[p].alive) /\ UNCHANGED proc /\ Note(h, p = None)
<1> DEFINE p == respond[o][1]
           n == respond[o][2]
<1>1. respond[o] # <<>> /\ p \in Nobody /\ n \in Asks
  BY DEF Respond, IInv, Typed, RespondTyped
<1>2. /\ respond' = [respond EXCEPT ![o] = <<>>] /\ UNCHANGED <<call, loop>>
      /\ s' = [s EXCEPT !.state = "running"] \/ UNCHANGED s
  BY DEF Respond
<1>3. CASE p # None /\ proc[p].alive
  <2>1. proc' = Answer(proc, p, {n}) /\ Note(Answered(p, {n}), FALSE)
    BY <1>3 DEF Respond
  <2>2. Calm /\ proc'[p].open = proc[p].open \ {n}
    BY <1>1, <1>3, <2>1, CalmSteps
  <2> QED BY <1>1, <1>2, <1>3, <2>1, <2>2 DEF Nobody
<1>4. CASE ~(p # None /\ proc[p].alive)
  <2>1. UNCHANGED proc /\ Note(h, p = None)
    BY <1>4 DEF Respond
  <2> QED BY <1>1, <1>2, <1>4, <2>1, CalmSteps
<1> QED BY <1>3, <1>4

LEMMA RespondState ==
  ASSUME IInv, StateInv, NEW o \in Owners, Respond(o)
  PROVE  StateInv'
<1> DEFINE p == respond[o][1]
           n == respond[o][2]
<1>1. /\ s' = [s EXCEPT !.state = "running"] \/ UNCHANGED s
      /\ UNCHANGED <<call, loop>> /\ Calm
      /\ Note(Answered(p, {n}), FALSE) \/ Note(h, p = None)
  BY RespondIs
<1>2. ~h'.slipped => ~h.slipped
  BY <1>1, NoteDoes, AnsweredTold, NothingTold DEF Told
<1>3. /\ s'.turn = s.turn /\ s'.running = s.running /\ s'.proc = s.proc
      /\ s'.state # "idle" \/ s'.state = s.state
  BY <1>1, SessionIs DEF Sessions
<1> QED BY <1>1, <1>2, <1>3, StillCalmState

LEMMA ReapLooksState ==
  ASSUME IInv, StateInv, ReapLooks
  PROVE  StateInv'
BY CalmSteps, StillCalmState DEF ReapLooks

LEMMA ReapStopsState ==
  ASSUME IInv, StateInv, ReapStops
  PROVE  StateInv'
<1>1. s' = [s EXCEPT !.proc = None] /\ UNCHANGED <<call, loop, h>> /\ Calm
  BY CalmSteps, SessionIs DEF ReapStops
<1> QED BY <1>1, SessionIs, StillCalmState DEF Sessions

-----------------------------------------------------------------------------
(* The read loop, between its lines.                                       *)

LEMMA LoopIs ==
  ASSUME IInv, NEW p \in Prompts, NEW at, loop' = [loop EXCEPT ![p] = at]
  PROVE  loop'[p] = at /\ \A x \in Prompts \ {p} : loop'[x] = loop[x]
BY SessionIs

LEMMA AskedSetsStateState ==
  ASSUME IInv, StateInv, NEW p \in Prompts, AskedSetsState(p)
  PROVE  StateInv'
<1>1. /\ loop[p] = "asked" /\ loop'[p] = "read" /\ \A x \in Prompts \ {p} : loop'[x] = loop[x]
      /\ s' = [s EXCEPT !.state = "waiting_input"] /\ UNCHANGED <<call, proc, h>> /\ Calm
  BY CalmSteps, LoopIs DEF AskedSetsState
<1>2. /\ s'.turn = s.turn /\ s'.running = s.running /\ s'.proc = s.proc /\ s'.state # "idle"
  BY <1>1, SessionIs DEF Sessions
<1>3. \A x \in Prompts : CallMoves(x) /\ LoopMoves(x) /\ (s'.turn = x => call'[x].pc \notin {"new", "failed"})
  BY <1>1, <1>2 DEF CallMoves, LoopMoves, StateInv, LifeInv, Done
<1>4. LifeInv' /\ AskInv' /\ RunInv'
  BY <1>1, <1>2, <1>3, CalmLife, CalmLines DEF StateInv
<1>5. \A x \in Prompts : Working(x) => Working(x)'
  BY <1>1, CalmWorks DEF Exited
<1> QED BY <1>1, <1>2, <1>4, <1>5, StillState DEF Exited

LEMMA SettledClosesState ==
  ASSUME IInv, StateInv, NEW p \in Prompts, SettledCloses(p)
  PROVE  StateInv'
<1>1. /\ loop[p] = "settled" /\ loop'[p] \in {"idle", "read"} /\ \A x \in Prompts \ {p} : loop'[x] = loop[x]
      /\ s' = [s EXCEPT !.turn = None, !.running = FALSE] /\ UNCHANGED <<call, proc>> /\ Calm
  BY CalmSteps, LoopIs DEF SettledCloses, Settled
<1>2. s'.turn = None /\ ~s'.running /\ s'.proc = s.proc
  BY <1>1, SessionIs DEF Sessions
<1>3. \A x \in Prompts : CallMoves(x) /\ LoopMoves(x) /\ s'.turn # x
  BY <1>1, <1>2, NoneIsNoPrompt DEF CallMoves, LoopMoves, Done
<1>4. BusyInv' /\ AcceptedInv' /\ ProcInv' /\ RowInv'
  BY <1>2, <1>3 DEF BusyInv, AcceptedInv, ProcInv, RowInv
<1> QED BY <1>1, <1>2, <1>3, <1>4, CalmKeeps DEF StateInv

\* The turn whose row would turn idle is of another process, a mishap, or of
\* this one, which reads no answer meanwhile.
LEMMA SettledSetsStateState ==
  ASSUME IInv, StateInv, NEW p \in Prompts, SettledSetsState(p)
  PROVE  StateInv'
<1>1. /\ loop[p] = "idle" /\ loop'[p] = "read" /\ \A x \in Prompts \ {p} : loop'[x] = loop[x]
      /\ s' = [s EXCEPT !.state = "idle"] /\ UNCHANGED <<call, proc>> /\ Calm
      /\ Note(h, s.proc # p /\ (s.proc # None \/ s.turn # None))
  BY CalmSteps, LoopIs DEF SettledSetsState
<1>2. s'.turn = s.turn /\ s'.running = s.running /\ s'.proc = s.proc
  BY <1>1, SessionIs DEF Sessions
<1>3. \A x \in Prompts : CallMoves(x) /\ LoopMoves(x) /\ (s'.turn = x => call'[x].pc \notin {"new", "failed"})
  BY <1>1, <1>2 DEF CallMoves, LoopMoves, StateInv, LifeInv, Done
<1>4. BusyStays
  BY <1>1, <1>2, CalmWorks DEF BusyStays, Exited
<1>5. AcceptedStays
  BY <1>1, <1>2 DEF AcceptedStays, Exited
<1>6. ~h'.slipped => ProcInv' /\ RowInv'
  <2> SUFFICES ASSUME ~h'.slipped PROVE ProcInv' /\ RowInv'
    OBVIOUS
  <2>1. ~h.slipped /\ (s.proc = p \/ (s.proc = None /\ s.turn = None))
    BY <1>1, NoteDoes
  <2>2. \A c \in Prompts : ~(call[c].pc = "returned" /\ s.turn = c)
    <3> SUFFICES ASSUME NEW c \in Prompts, call[c].pc = "returned", s.turn = c PROVE FALSE
      OBVIOUS
    <3>1. s.proc = p /\ call[c].p = p
      BY <2>1, NoneIsNoPrompt DEF StateInv, ProcInv
    <3> QED BY <1>1, <3>1 DEF StateInv, AcceptedInv, Accepted
  <2> QED BY <1>1, <1>2, <2>1, <2>2 DEF StateInv, ProcInv, RowInv
<1> QED BY <1>1, <1>2, <1>3, <1>4, <1>5, <1>6, BusyKept, AcceptedKept, CalmKeeps DEF StateInv

LEMMA readLoopEndsState ==
  ASSUME IInv, StateInv, NEW p \in Prompts, readLoopEnds(p)
  PROVE  StateInv'
<1>1. /\ loop[p] = "read" /\ loop'[p] = "closed" /\ \A x \in Prompts \ {p} : loop'[x] = loop[x]
      /\ proc[p].pipe = <<>> /\ UNCHANGED <<s, call, proc, h>> /\ Calm
  BY CalmSteps, LoopIs DEF readLoopEnds
<1>2. \A x \in Prompts : CallMoves(x) /\ LoopMoves(x) /\ (s'.turn = x => call'[x].pc \notin {"new", "failed"})
  BY <1>1 DEF CallMoves, LoopMoves, StateInv, LifeInv
<1>3. LifeInv' /\ AskInv' /\ RunInv'
  BY <1>1, <1>2, CalmLife, CalmLines DEF StateInv
<1>4. \A x \in Prompts : Working(x) => Working(x)'
  BY <1>1, CalmWorks DEF Exited
<1> QED BY <1>1, <1>3, <1>4, StillState DEF Exited

LEMMA onExitState ==
  ASSUME IInv, StateInv, NEW p \in Prompts, onExit(p)
  PROVE  StateInv'
<1>1. /\ loop[p] = "closed" /\ loop'[p] = "exited" /\ \A x \in Prompts \ {p} : loop'[x] = loop[x]
      /\ s' = [s EXCEPT !.turn = None, !.running = FALSE, !.proc = None]
      /\ UNCHANGED <<call, proc>> /\ Calm
  BY CalmSteps, LoopIs DEF onExit, Settled
<1>2. s'.turn = None /\ ~s'.running /\ s'.proc = None
  BY <1>1, SessionIs DEF Sessions
<1>3. \A x \in Prompts : CallMoves(x) /\ LoopMoves(x) /\ s'.turn # x
  BY <1>1, <1>2, NoneIsNoPrompt DEF CallMoves, LoopMoves, Done, StateInv, LifeInv
<1>4. BusyInv' /\ AcceptedInv' /\ ProcInv' /\ RowInv'
  BY <1>2, <1>3 DEF BusyInv, AcceptedInv, ProcInv, RowInv
<1> QED BY <1>1, <1>2, <1>3, <1>4, CalmKeeps DEF StateInv

\* A turn that was accepted has a process that did not exit.
LEMMA ExitTellsState ==
  ASSUME IInv, StateInv, NEW p \in Prompts, ExitTells(p)
  PROVE  StateInv'
<1> DEFINE mishap == \E q \in Prompts \ {p} : loop[q] \notin {"none", "gone"}
<1>1. /\ loop[p] = "exited" /\ loop'[p] = "gone" /\ \A x \in Prompts \ {p} : loop'[x] = loop[x]
      /\ s' = [s EXCEPT !.pending = {}, !.state = "idle"] /\ UNCHANGED call /\ Calm
      /\ Note(Answered(s.proc, s.pending), mishap)
  BY CalmSteps, LoopIs, SessionIs DEF ExitTells
<1>2. s'.turn = s.turn /\ s'.running = s.running /\ s'.proc = s.proc
  BY <1>1, SessionIs DEF Sessions
<1>3. \A x \in Prompts : CallMoves(x) /\ LoopMoves(x) /\ (s'.turn = x => call'[x].pc \notin {"new", "failed"})
  BY <1>1, <1>2 DEF CallMoves, LoopMoves, StateInv, LifeInv, Done
<1>4. BusyStays
  BY <1>1, <1>2, CalmWorks DEF BusyStays, Working, Exited
<1>5. AcceptedStays
  BY <1>1, <1>2 DEF AcceptedStays, Exited
<1>6. ~h'.slipped => ProcInv' /\ RowInv'
  <2> SUFFICES ASSUME ~h'.slipped PROVE ProcInv' /\ RowInv'
    OBVIOUS
  <2>1. ~h.slipped /\ \A q \in Prompts \ {p} : loop[q] \in {"none", "gone"}
    <3> HIDE DEF mishap
    <3>1. ~h.slipped /\ ~mishap
      BY <1>1, NoteDoes, AnsweredTold DEF Told
    <3> QED BY <3>1 DEF mishap
  <2>2. \A c \in Prompts : ~(call[c].pc = "returned" /\ s.turn = c)
    BY <1>1, <2>1 DEF StateInv, AcceptedInv, Accepted, Exited
  <2> QED BY <1>1, <1>2, <2>1, <2>2 DEF StateInv, ProcInv, RowInv
<1> QED BY <1>1, <1>2, <1>3, <1>4, <1>5, <1>6, BusyKept, AcceptedKept, CalmKeeps DEF StateInv

-----------------------------------------------------------------------------
(* The steps that write to a process, or start one.                        *)

\* A prompt that nobody answered is written to a process.
LEMMA AskedState ==
  ASSUME IInv, StateInv, NEW c \in Prompts, NEW p \in Prompts, NEW what \in {"prompt", "get_state"},
         Asked(p, c, what), UNCHANGED loop,
         s'.turn = s.turn, s'.running = s.running, s'.proc = s.proc \/ (s'.proc = c /\ p = c),
         call[c].pc \in {"claimed", "launched", "handshake"},
         call'[c].pc = IF what = "prompt" THEN "asking" ELSE "handshake",
         call'[c].p = p, ~call'[c].answered, \A d \in Prompts \ {c} : call'[d] = call[d],
         p = c \/ (what = "prompt" /\ call[p].pc # "launched"),
         \A x \in Prompts : <<"get_state", c>> \notin proc[x].inbox /\ ~Answers(x, c),
         ~h'.slipped => ProcInv' /\ RowInv'
  PROVE  StateInv'
<1>1. \A x \in Prompts : /\ proc'[x].alive = proc[x].alive /\ proc'[x].run = proc[x].run
                         /\ proc'[x].pipe = proc[x].pipe /\ proc'[x].open = proc[x].open
                         /\ \A m \in proc'[x].inbox :
                              m \in proc[x].inbox \/ (x = p /\ m = <<what, c>> /\ proc[x].alive)
  BY DEF Asked
<1>2. \A x, d \in Prompts : /\ Answers(x, d)' <=> Answers(x, d)
                            /\ Runs(proc'[x]) <=> Runs(proc[x])
  BY <1>1 DEF Answers, Runs
<1>3. LifeInv'
  <2> SUFFICES ASSUME NEW x \in Prompts
               PROVE  /\ ~proc'[x].alive => proc'[x].inbox = {} /\ proc'[x].run = None /\ proc'[x].open = {}
                      /\ loop'[x] = "none" => ~proc'[x].alive
                      /\ loop'[x] \in {"none"} \cup Done => proc'[x].pipe = <<>>
                      /\ call'[x].pc \in {"new", "claimed", "starting"} => loop'[x] = "none"
                      /\ call'[x].pc = "launched" =>
                           proc'[x].inbox = {} /\ proc'[x].pipe = <<>> /\ proc'[x].run = None
                           /\ proc'[x].open = {}
                      /\ call'[x].pc \in Early \cup {"new"} => s'.proc # x /\ ~call'[x].answered
                      /\ s'.turn = x => call'[x].pc \notin {"new", "failed"}
    BY DEF LifeInv
  <2>1. ~proc'[x].alive => proc'[x].inbox = {} /\ proc'[x].run = None /\ proc'[x].open = {}
    BY <1>1 DEF StateInv, LifeInv
  <2>2. /\ loop'[x] = "none" => ~proc'[x].alive
        /\ loop'[x] \in {"none"} \cup Done => proc'[x].pipe = <<>>
    BY <1>1 DEF StateInv, LifeInv
  <2>3. CASE x = c
    BY <2>1, <2>2, <2>3 DEF Early
  <2>4. CASE x # c
    BY <1>1, <2>1, <2>2, <2>4 DEF StateInv, LifeInv
  <2> QED BY <2>3, <2>4
<1>4. AskInv'
  <2> SUFFICES ASSUME NEW d \in Prompts, NEW x \in Prompts
               PROVE  /\ call'[d].pc \in Early \cup {"new"} =>
                           <<"get_state", d>> \notin proc'[x].inbox /\ ~Answers(x, d)'
                      /\ call'[d].pc = "handshake" => call'[d].p = d
                      /\ <<"get_state", d>> \in proc'[x].inbox =>
                           /\ x = d /\ call'[d].pc \in {"handshake", "stopping", "failed"}
                           /\ call'[d].pc = "handshake" => ~Answers(x, d)' /\ ~call'[d].answered
                      /\ call'[d].pc = "handshake" /\ Answers(x, d)' =>
                           /\ x = d /\ ~call'[d].answered
                           /\ NotAfter(proc'[x].pipe, <<"response", d>>, <<"response", d>>)
    BY DEF AskInv
  <2>1. CASE d = c
    BY <1>1, <1>2, <2>1 DEF Early
  <2>2. CASE d # c
    BY <1>1, <1>2, <2>2 DEF StateInv, AskInv
  <2> QED BY <2>1, <2>2
<1>5. RunInv'
  <2>1. \A x \in Prompts : EndFollows(proc'[x].pipe, <<"response", c>>)
    BY <1>1 DEF Answers, EndFollows, Has
  <2> QED BY <1>1, <1>2, <2>1 DEF StateInv, RunInv
<1>6. BusyInv'
  BY DEF BusyInv, Sending
<1>7. AcceptedInv'
  BY DEF StateInv, AcceptedInv, Accepted, Exited
<1> QED BY <1>3, <1>4, <1>5, <1>6, <1>7 DEF StateInv

LEMMA RunningState ==
  ASSUME IInv, StateInv, NEW c \in Prompts, Running(c)
  PROVE  StateInv'
<1> DEFINE q == [call[c] EXCEPT !.pc = "asking", !.p = s.proc]
           p == s.proc
<1>1. /\ call[c].pc = "claimed" /\ p \in Prompts /\ call' = [call EXCEPT ![c] = q]
      /\ UNCHANGED <<s, loop, h>> /\ Asked(p, c, "prompt")
  BY SessionIs, AskedStep DEF Running, Nobody
<1>2. q.pc = "asking" /\ q.p = p /\ q.answered = call[c].answered
  BY SessionIs DEF Calls
<1> HIDE DEF q
<1>3. /\ call'[c].pc = "asking" /\ call'[c].p = p /\ call'[c].answered = call[c].answered
      /\ \A d \in Prompts \ {c} : call'[d] = call[d]
  BY <1>1, <1>2, SessionIs
<1>4. ~call[c].answered /\ call[p].pc # "launched"
  BY <1>1 DEF StateInv, LifeInv, Early
<1>5. \A x \in Prompts : <<"get_state", c>> \notin proc[x].inbox /\ ~Answers(x, c)
  BY <1>1 DEF StateInv, AskInv, Early
<1>6. ~h'.slipped => ProcInv' /\ RowInv'
  BY <1>1, <1>3 DEF StateInv, ProcInv, RowInv
<1> QED BY <1>1, <1>3, <1>4, <1>5, <1>6, AskedState

LEMMA HandshakeState ==
  ASSUME IInv, StateInv, NEW c \in Prompts, Handshake(c)
  PROVE  StateInv'
<1> DEFINE q == [call[c] EXCEPT !.pc = "handshake", !.p = c]
<1>1. /\ call[c].pc = "launched" /\ call' = [call EXCEPT ![c] = q] /\ s' = [s EXCEPT !.proc = c]
      /\ UNCHANGED <<loop, h>> /\ Asked(c, c, "get_state")
  BY AskedStep DEF Handshake
<1>2. q.pc = "handshake" /\ q.p = c /\ q.answered = call[c].answered
  BY SessionIs DEF Calls
<1> HIDE DEF q
<1>3. /\ call'[c].pc = "handshake" /\ call'[c].p = c /\ call'[c].answered = call[c].answered
      /\ \A d \in Prompts \ {c} : call'[d] = call[d]
  BY <1>1, <1>2, SessionIs
<1>4. ~call[c].answered
  BY <1>1 DEF StateInv, LifeInv, Early
<1>5. \A x \in Prompts : <<"get_state", c>> \notin proc[x].inbox /\ ~Answers(x, c)
  BY <1>1 DEF StateInv, AskInv, Early
<1>6. s'.turn = s.turn /\ s'.proc = c /\ s'.running = s.running /\ s'.state = s.state
  BY <1>1, SessionIs DEF Sessions
<1>7. ~h'.slipped => ProcInv' /\ RowInv'
  BY <1>1, <1>3, <1>6 DEF IInv, CleanInv, EarlyInv, Early, StateInv, ProcInv, RowInv
<1> QED BY <1>1, <1>3, <1>4, <1>5, <1>6, <1>7, AskedState

\* The handshake was answered, and that was read, before the prompt is written.
LEMMA StartedState ==
  ASSUME IInv, StateInv, NEW c \in Prompts, Started(c)
  PROVE  StateInv'
<1> DEFINE q == [call[c] EXCEPT !.pc = "asking", !.answered = FALSE]
<1>1. /\ call[c].pc = "handshake" /\ call[c].answered /\ call' = [call EXCEPT ![c] = q]
      /\ s' = [s EXCEPT !.state = "idle"]
      /\ Note(h, s.turn # c) /\ UNCHANGED loop /\ Asked(c, c, "prompt")
  BY AskedStep DEF Started
<1>2. q.pc = "asking" /\ q.p = call[c].p /\ ~q.answered
  BY SessionIs DEF Calls
<1> HIDE DEF q
<1>3. /\ call'[c].pc = "asking" /\ call'[c].p = call[c].p /\ ~call'[c].answered
      /\ \A d \in Prompts \ {c} : call'[d] = call[d]
  BY <1>1, <1>2, SessionIs
<1>4. /\ call[c].p = c
      /\ \A x \in Prompts : <<"get_state", c>> \notin proc[x].inbox /\ ~Answers(x, c)
  BY <1>1 DEF StateInv, AskInv
<1>5. s'.turn = s.turn /\ s'.proc = s.proc /\ s'.running = s.running
  BY <1>1, SessionIs DEF Sessions
<1>6. ~h'.slipped => ~h.slipped /\ s.turn = c
  BY <1>1, NoteDoes
<1>7. ~h'.slipped => ProcInv' /\ RowInv'
  BY <1>1, <1>3, <1>5, <1>6 DEF StateInv, ProcInv, RowInv
<1> QED BY <1>1, <1>3, <1>4, <1>5, <1>7, AskedState

LEMMA LaunchState ==
  ASSUME IInv, StateInv, NEW c \in Prompts, Launch(c)
  PROVE  StateInv'
<1> DEFINE q == [proc[c] EXCEPT !.alive = TRUE]
<1>1. /\ call[c].pc = "starting" /\ call'[c].pc = "launched" /\ call'[c].p = call[c].p
      /\ call'[c].answered = call[c].answered /\ \A d \in Prompts \ {c} : call'[d] = call[d]
      /\ loop'[c] = "read" /\ \A x \in Prompts \ {c} : loop'[x] = loop[x]
      /\ proc' = [proc EXCEPT ![c] = q] /\ UNCHANGED <<s, h>>
  BY CallIs, LoopIs DEF Launch
<1>2. proc[c] \in Processes /\ proc \in [Prompts -> Processes]
  BY DEF IInv, Typed, ProcessesTyped, AllGood
<1>3. q.inbox = proc[c].inbox /\ q.run = proc[c].run /\ q.open = proc[c].open
      /\ q.pipe = proc[c].pipe /\ q.alive
  BY <1>2 DEF Processes
<1> HIDE DEF q
<1>4. proc'[c] = q /\ \A x \in Prompts \ {c} : proc'[x] = proc[x]
  BY <1>1, <1>2
<1>5. /\ loop[c] = "none" /\ proc[c].inbox = {} /\ proc[c].run = None /\ proc[c].open = {}
      /\ proc[c].pipe = <<>> /\ ~call[c].answered /\ s.proc # c
  BY <1>1 DEF StateInv, LifeInv, Early
<1>6. \A x, d \in Prompts : Answers(x, d)' <=> Answers(x, d)
  BY <1>3, <1>4 DEF Answers
<1>7. LifeInv'
  <2>1. /\ proc'[c].alive /\ proc'[c].inbox = {} /\ proc'[c].run = None /\ proc'[c].open = {}
        /\ proc'[c].pipe = <<>>
    BY <1>3, <1>4, <1>5
  <2> QED BY <1>1, <1>4, <1>5, <2>1 DEF StateInv, LifeInv, Done, Early
<1>8. AskInv'
  <2> SUFFICES ASSUME NEW d \in Prompts, NEW x \in Prompts
               PROVE  /\ call'[d].pc \in Early \cup {"new"} =>
                           <<"get_state", d>> \notin proc'[x].inbox /\ ~Answers(x, d)'
                      /\ call'[d].pc = "handshake" => call'[d].p = d
                      /\ <<"get_state", d>> \in proc'[x].inbox =>
                           /\ x = d /\ call'[d].pc \in {"handshake", "stopping", "failed"}
                           /\ call'[d].pc = "handshake" => ~Answers(x, d)' /\ ~call'[d].answered
                      /\ call'[d].pc = "handshake" /\ Answers(x, d)' =>
                           /\ x = d /\ ~call'[d].answered
                           /\ NotAfter(proc'[x].pipe, <<"response", d>>, <<"response", d>>)
    BY DEF AskInv
  <2>1. proc'[x].inbox = proc[x].inbox /\ proc'[x].pipe = proc[x].pipe
    BY <1>3, <1>4
  <2> QED BY <1>1, <1>6, <2>1 DEF StateInv, AskInv, Early
<1>9. RunInv'
  <2>1. \A line : EndFollows(proc'[c].pipe, line)
    BY <1>3, <1>4, <1>5 DEF EndFollows
  <2>2. \A d \in Prompts : call'[d].pc = "asking" => d # c
    BY <1>1
  <2> QED BY <1>1, <1>4, <2>1, <2>2 DEF StateInv, RunInv
<1>10. BusyInv'
  BY <1>1, <1>4, <1>5 DEF StateInv, BusyInv, Sending, Working, Exited
<1>11. AcceptedInv'
  BY <1>1, <1>5 DEF StateInv, AcceptedInv, Accepted, Exited
<1>12. ~h'.slipped => ProcInv' /\ RowInv'
  BY <1>1 DEF StateInv, ProcInv, RowInv
<1> QED BY <1>7, <1>8, <1>9, <1>10, <1>11, <1>12 DEF StateInv

-----------------------------------------------------------------------------
(* What pi does.                                                           *)

LEMMA CountNotes ==
  ASSUME IInv, NEW x
  PROVE  LET f == [h EXCEPT !.drove = x]
             g == [h EXCEPT !.asked = x] IN
         /\ f.slipped = h.slipped /\ f.ended = h.ended /\ f.answered = h.answered
         /\ f.twice = h.twice /\ f.echo = h.echo /\ f.asked = h.asked
         /\ g.slipped = h.slipped /\ g.ended = h.ended /\ g.answered = h.answered
         /\ g.twice = h.twice /\ g.echo = h.echo /\ g.asked = x
<1>1. h = [ended |-> h.ended, answered |-> h.answered, twice |-> h.twice, echo |-> h.echo,
           asked |-> h.asked, drove |-> h.drove, slipped |-> h.slipped]
  BY DEF IInv, Typed, HistoryTyped, IsHistory
<1>2. "asked" \in DOMAIN h
  BY <1>1
<1> QED BY <1>2

\* A process that was launched goes on, or ends its run.
LEMMA SpokeState ==
  ASSUME IInv, StateInv, NEW p \in Prompts, NEW inbox, NEW run, NEW open, NEW lines \in Seq(Lines),
         Spoke(p, inbox, run, open, lines), UNCHANGED <<s, call, loop>>, call[p].pc # "launched",
         proc[p].run # None => run # None \/ Ends(lines),
         AskInv', RunInv', ~h'.slipped => ~h.slipped
  PROVE  StateInv'
<1>1. /\ proc[p].alive /\ proc'[p].alive /\ proc'[p].run = run /\ proc'[p].pipe = proc[p].pipe \o lines
      /\ \A x \in Prompts \ {p} : proc'[x] = proc[x]
  BY DEF Spoke
<1>2. loop[p] \notin {"none"} \cup Done
  BY <1>1 DEF IInv, DeadInv, StateInv, LifeInv
<1>3. LifeInv'
  BY <1>1, <1>2 DEF StateInv, LifeInv
<1>4. \A x \in Prompts : Working(x) => Working(x)'
  <2> SUFFICES ASSUME Working(p) PROVE Working(p)'
    BY <1>1 DEF Working, Exited
  <2>1. Ends(proc[p].pipe) \/ Ends(lines) => Ends(proc'[p].pipe)
    BY <1>1, GoodProcess, EndsAppended DEF Processes
  <2> QED BY <1>1, <2>1 DEF Working, Runs, Exited
<1> QED BY <1>3, <1>4, StillState, SessionIs DEF Exited

\* Nothing is said of a prompt that was asked.
LEMMA SpokeAsk ==
  ASSUME IInv, AskInv, NEW p \in Prompts, NEW inbox, NEW run, NEW open, NEW lines \in Seq(Lines),
         Spoke(p, inbox, run, open, lines), UNCHANGED call, inbox \subseteq proc[p].inbox,
         NEW c \in Prompts, ~Has(lines, Verdict(c)), NEW x \in Prompts
  PROVE  /\ call'[c].pc \in Early \cup {"new"} => <<"get_state", c>> \notin proc'[x].inbox /\ ~Answers(x, c)'
         /\ call'[c].pc = "handshake" => call'[c].p = c
         /\ <<"get_state", c>> \in proc'[x].inbox =>
              /\ x = c /\ call'[c].pc \in {"handshake", "stopping", "failed"}
              /\ call'[c].pc = "handshake" => ~Answers(x, c)' /\ ~call'[c].answered
         /\ call'[c].pc = "handshake" /\ Answers(x, c)' =>
              /\ x = c /\ ~call'[c].answered
              /\ NotAfter(proc'[x].pipe, <<"response", c>>, <<"response", c>>)
<1>1. CASE x = p
  <2>1. /\ proc[p].pipe \in Seq(Lines) /\ proc'[p].pipe = proc[p].pipe \o lines
        /\ proc'[p].inbox \subseteq proc[p].inbox
    BY GoodProcess DEF Spoke, Processes
  <2>2. Answers(p, c)' <=> Answers(p, c)
    BY <2>1, HasAppended DEF Answers, Verdict
  <2>3. NotAfter(lines, <<"response", c>>, <<"response", c>>)
    BY DEF Has, NotAfter, Verdict
  <2>4. NotAfter(proc[p].pipe, <<"response", c>>, <<"response", c>>) =>
          NotAfter(proc'[p].pipe, <<"response", c>>, <<"response", c>>)
    BY <2>1, <2>3, NotAfterAppended DEF Verdict
  <2> QED BY <1>1, <2>1, <2>2, <2>4 DEF AskInv
<1>2. CASE x # p
  BY <1>2 DEF Spoke, AskInv, Answers
<1> QED BY <1>1, <1>2

LEMMA SpokeOfNoPrompt ==
  ASSUME IInv, AskInv, NEW p \in Prompts, NEW inbox, NEW run, NEW open, NEW lines \in Seq(Lines),
         Spoke(p, inbox, run, open, lines), UNCHANGED call, inbox \subseteq proc[p].inbox,
         \A c \in Prompts : ~Has(lines, Verdict(c))
  PROVE  AskInv'
BY SpokeAsk DEF AskInv

LEMMA SpokeRuns ==
  ASSUME IInv, RunInv, NEW p \in Prompts, NEW inbox, NEW run, NEW open, NEW lines,
         Spoke(p, inbox, run, open, lines), UNCHANGED call, run # None
  PROVE  RunInv'
BY DEF Spoke, RunInv, Runs

LEMMA OneLine ==
  ASSUME NEW a \in Lines
  PROVE  /\ <<a>> \in Seq(Lines) /\ (Ends(<<a>>) <=> a[1] = "agent_settled")
         /\ \A line : Has(<<a>>, line) <=> line = a
         /\ \A x, y : NotAfter(<<a>>, x, y)
<1> DEFINE l == <<a>>
<1>1. l \in Seq(Lines) /\ DOMAIN l = 1..1 /\ l[1] = a
  OBVIOUS
<1> HIDE DEF l
<1> QED BY <1>1 DEF Ends, Has, NotAfter, l

LEMMA PiTakesState ==
  ASSUME IInv, StateInv, NEW p \in Prompts, NEW m \in proc[p].inbox, PiTakes(p, m)
  PROVE  StateInv'
<1> DEFINE c == m[2]
           inbox == proc[p].inbox \ {m}
<1>1. c \in Prompts /\ UNCHANGED <<s, call, loop, h>> /\ inbox \subseteq proc[p].inbox
  BY PiTakesIs
<1>2. proc[p].alive /\ call[p].pc # "launched"
  BY DEF StateInv, LifeInv
<1>3. proc[p].pipe \in Seq(Lines) /\ Verdict(c) \in Lines
  BY <1>1, GoodProcess DEF Processes, Lines, Verdict
<1>4. \A d \in Prompts : Verdict(c) = Verdict(d) => c = d
  BY DEF Verdict
<1>5. ASSUME m = <<"get_state", c>>, Spoke(p, inbox, proc[p].run, proc[p].open, <<Verdict(c)>>)
      PROVE  StateInv'
  <2> DEFINE lines == <<Verdict(c)>>
  <2>1. /\ lines \in Seq(Lines) /\ (\A line : Has(lines, line) <=> line = Verdict(c))
        /\ \A x, y : NotAfter(lines, x, y)
    BY <1>3, OneLine
  <2> HIDE DEF lines
  <2>2. Spoke(p, inbox, proc[p].run, proc[p].open, lines)
    BY <1>5 DEF lines
  <2>3. /\ p = c /\ call[c].pc \in {"handshake", "stopping", "failed"}
        /\ call[c].pc = "handshake" => ~Answers(p, c) /\ ~call[c].answered
    BY <1>1, <1>5 DEF StateInv, AskInv
  <2>4. AskInv'
    <3> SUFFICES ASSUME NEW d \in Prompts, NEW x \in Prompts
                 PROVE  /\ call'[d].pc \in Early \cup {"new"} =>
                             <<"get_state", d>> \notin proc'[x].inbox /\ ~Answers(x, d)'
                        /\ call'[d].pc = "handshake" => call'[d].p = d
                        /\ <<"get_state", d>> \in proc'[x].inbox =>
                             /\ x = d /\ call'[d].pc \in {"handshake", "stopping", "failed"}
                             /\ call'[d].pc = "handshake" => ~Answers(x, d)' /\ ~call'[d].answered
                        /\ call'[d].pc = "handshake" /\ Answers(x, d)' =>
                             /\ x = d /\ ~call'[d].answered
                             /\ NotAfter(proc'[x].pipe, <<"response", d>>, <<"response", d>>)
      BY DEF AskInv
    <3>1. CASE d # c
      BY <1>1, <1>4, <2>1, <2>2, <3>1, SpokeAsk DEF StateInv
    <3>2. CASE d = c /\ x # p
      BY <1>1, <2>2, <2>3, <3>2 DEF StateInv, AskInv, Spoke, Answers, Early
    <3>3. CASE d = c /\ x = p
      <4>1. proc'[p].inbox = inbox /\ proc'[p].pipe = proc[p].pipe \o lines
        BY <2>2 DEF Spoke
      <4>2. <<"get_state", c>> \notin proc'[p].inbox
        BY <1>5, <4>1
      <4>3. call[c].pc = "handshake" => NotAfter(proc'[p].pipe, Verdict(c), Verdict(c))
        <5> SUFFICES ASSUME call[c].pc = "handshake" PROVE NotAfter(proc'[p].pipe, Verdict(c), Verdict(c))
          OBVIOUS
        <5>1. ~Has(proc[p].pipe, Verdict(c))
          BY <2>3 DEF Answers, Verdict
        <5>2. NotAfter(proc[p].pipe, Verdict(c), Verdict(c))
          BY <5>1 DEF NotAfter, Has
        <5> QED BY <1>3, <2>1, <4>1, <5>1, <5>2, NotAfterAppended
      <4> QED BY <1>1, <2>3, <3>3, <4>2, <4>3 DEF StateInv, AskInv, Verdict, Early
    <3> QED BY <3>1, <3>2, <3>3
  <2>5. RunInv'
    <3>1. CASE proc[p].run # None
      BY <1>1, <2>2, <3>1, SpokeRuns DEF StateInv
    <3>2. CASE proc[p].run = None
      <4>1. proc'[p].pipe = proc[p].pipe \o lines /\ proc'[p].run = None /\ proc[p].alive
        BY <2>2, <3>2 DEF Spoke
      <4>2. EndFollows(proc[p].pipe, <<"agent_start">>)
        BY <1>2, <3>2 DEF StateInv, RunInv, Runs
      <4>3. EndFollows(proc'[p].pipe, <<"agent_start">>)
        <5>1. ~Has(lines, <<"agent_start">>)
          BY <2>1 DEF Verdict
        <5> QED BY <1>3, <2>1, <4>1, <4>2, <5>1, EndFollowsAppended
      <4>4. ASSUME NEW d \in Prompts, call[d].pc = "asking", call[d].p = p
            PROVE  EndFollows(proc'[p].pipe, <<"response", d>>)
        <5>1. EndFollows(proc[p].pipe, <<"response", d>>) /\ ~Has(lines, <<"response", d>>)
          BY <1>2, <2>1, <2>3, <3>2, <4>4 DEF StateInv, RunInv, Runs, Verdict
        <5> QED BY <1>3, <2>1, <4>1, <5>1, EndFollowsAppended
      <4> QED BY <1>1, <2>2, <4>3, <4>4 DEF StateInv, RunInv, Spoke
    <3> QED BY <3>1, <3>2
  <2> QED BY <1>1, <1>2, <2>1, <2>2, <2>4, <2>5, SpokeState
<1>6. ASSUME m = <<"prompt", c>>, NEW lines, Begins(c, lines),
             Spoke(p, inbox, c, proc[p].open, lines)
      PROVE  StateInv'
  <2>1. lines \in Seq(Lines)
        /\ \A line : Has(lines, line) <=> line \in {Verdict(c), <<"agent_start">>, User(c)}
    BY <1>1, <1>6, BeginLines
  <2>2. call[c].pc \notin Unsent
    BY <1>1, <1>6 DEF IInv, SentInv, Knows
  <2>3. AskInv'
    <3> SUFFICES ASSUME NEW d \in Prompts, NEW x \in Prompts
                 PROVE  /\ call'[d].pc \in Early \cup {"new"} =>
                             <<"get_state", d>> \notin proc'[x].inbox /\ ~Answers(x, d)'
                        /\ call'[d].pc = "handshake" => call'[d].p = d
                        /\ <<"get_state", d>> \in proc'[x].inbox =>
                             /\ x = d /\ call'[d].pc \in {"handshake", "stopping", "failed"}
                             /\ call'[d].pc = "handshake" => ~Answers(x, d)' /\ ~call'[d].answered
                        /\ call'[d].pc = "handshake" /\ Answers(x, d)' =>
                             /\ x = d /\ ~call'[d].answered
                             /\ NotAfter(proc'[x].pipe, <<"response", d>>, <<"response", d>>)
      BY DEF AskInv
    <3>1. CASE d # c
      <4>1. ~Has(lines, Verdict(d))
        BY <1>4, <2>1, <3>1 DEF Verdict, User
      <4> QED BY <1>1, <1>6, <2>1, <4>1, SpokeAsk DEF StateInv
    <3>2. CASE d = c
      <4>1. proc'[x].inbox \subseteq proc[x].inbox
        BY <1>1, <1>6 DEF Spoke
      <4> QED BY <1>1, <2>2, <3>2, <4>1 DEF StateInv, AskInv, Early, Unsent
    <3> QED BY <3>1, <3>2
  <2>4. RunInv'
    BY <1>1, <1>6, NoneIsNoPrompt, SpokeRuns DEF StateInv
  <2> QED BY <1>1, <1>2, <1>6, <2>1, <2>3, <2>4, NoneIsNoPrompt, SpokeState
<1> QED BY <1>5, <1>6, PiTakesIs

LEMMA PiDrivesState ==
  ASSUME IInv, StateInv, NEW p \in Prompts, PiDrives(p)
  PROVE  StateInv'
<1> DEFINE g == [h EXCEPT !.drove = h.drove + 1]
           line == <<"agent_start">>
           lines == <<line>>
<1>1. /\ proc[p].run = None /\ call[p].pc # "launched" /\ UNCHANGED <<s, call, loop>>
      /\ Note(g, FALSE) /\ Spoke(p, proc[p].inbox, Extension, proc[p].open, lines)
  BY PiDrivesIs
<1>2. line \in Lines /\ \A c \in Prompts : line # Verdict(c)
  BY DEF Lines, Verdict
<1> HIDE DEF line
<1>3. lines \in Seq(Lines) /\ \A c \in Prompts : ~Has(lines, Verdict(c))
  BY <1>2, OneLine
<1> HIDE DEF lines
<1>4. AskInv' /\ RunInv'
  BY <1>1, <1>3, NoneIsNoPrompt, SpokeOfNoPrompt, SpokeRuns DEF StateInv
<1>5. ~h'.slipped => ~h.slipped
  BY <1>1, CountNotes, NoteDoes
<1> QED BY <1>1, <1>3, <1>4, <1>5, NoneIsNoPrompt, SpokeState

LEMMA SteerState ==
  ASSUME IInv, StateInv, NEW p \in Prompts, Steer(p)
  PROVE  StateInv'
<1> DEFINE g == [h EXCEPT !.drove = h.drove + 1]
           run == proc[p].run
           line == <<"steer", run>>
           lines == <<line>>
<1>1. /\ s.proc = p /\ run \in Prompts \cup {Extension} /\ UNCHANGED <<s, call, loop>>
      /\ Note(g, FALSE) /\ Spoke(p, proc[p].inbox, run, proc[p].open, lines)
  BY SteerIs
<1>2. line \in Lines /\ \A c \in Prompts : line # Verdict(c)
  BY <1>1 DEF Lines, Verdict
<1> HIDE DEF line
<1>3. lines \in Seq(Lines) /\ \A c \in Prompts : ~Has(lines, Verdict(c))
  BY <1>2, OneLine
<1> HIDE DEF lines
<1>4. run # None
  BY <1>1, NoneIsNoPrompt
<1>5. AskInv' /\ RunInv'
  BY <1>1, <1>3, <1>4, SpokeOfNoPrompt, SpokeRuns DEF StateInv
<1>6. ~h'.slipped => ~h.slipped
  BY <1>1, CountNotes, NoteDoes
<1>7. call[p].pc # "launched"
  BY <1>1 DEF StateInv, LifeInv, Early
<1> QED BY <1>1, <1>3, <1>4, <1>5, <1>6, <1>7, SpokeState

LEMMA PiAsksState ==
  ASSUME IInv, StateInv, NEW p \in Prompts, PiAsks(p)
  PROVE  StateInv'
<1> DEFINE n == h.asked + 1
           g == [h EXCEPT !.asked = n]
           open == proc[p].open \cup {n}
           line == <<"extension_ui_request", n>>
           lines == <<line>>
<1>1. /\ proc[p].run # None /\ n \in Asks /\ UNCHANGED <<s, call, loop>>
      /\ Note(g, FALSE) /\ Spoke(p, proc[p].inbox, proc[p].run, open, lines)
  BY PiAsksIs
<1>2. line \in Lines /\ \A c \in Prompts : line # Verdict(c)
  BY <1>1 DEF Lines, Verdict
<1> HIDE DEF line, n, open
<1>3. lines \in Seq(Lines) /\ \A c \in Prompts : ~Has(lines, Verdict(c))
  BY <1>2, OneLine
<1> HIDE DEF lines
<1>4. AskInv' /\ RunInv'
  BY <1>1, <1>3, SpokeOfNoPrompt, SpokeRuns DEF StateInv
<1>5. ~h'.slipped => ~h.slipped
  BY <1>1, CountNotes, NoteDoes
<1>6. call[p].pc # "launched"
  BY <1>1 DEF StateInv, LifeInv
<1> QED BY <1>1, <1>3, <1>4, <1>5, <1>6, SpokeState

LEMMA PiSettlesState ==
  ASSUME IInv, StateInv, NEW p \in Prompts, PiSettles(p)
  PROVE  StateInv'
<1> DEFINE end == <<"agent_settled", proc[p].run>>
           lines == <<end>>
<1>1. /\ proc[p].run \in Prompts \cup {Extension} /\ UNCHANGED <<s, call, loop, h>>
      /\ Spoke(p, proc[p].inbox, None, proc[p].open, lines)
  BY PiSettlesIs
<1>2. end \in Lines /\ end[1] = "agent_settled" /\ \A c \in Prompts : end # Verdict(c)
  BY <1>1 DEF Lines, Verdict
<1> HIDE DEF end
<1>3. lines \in Seq(Lines) /\ Ends(lines) /\ \A c \in Prompts : ~Has(lines, Verdict(c))
  BY <1>2, OneLine
<1>4. proc[p].pipe \in Seq(Lines)
  BY GoodProcess DEF Processes
<1>5. \A line : line[1] # "agent_settled" => EndFollows(proc[p].pipe \o lines, line)
  BY <1>2, <1>4, EndFollowsEnd
<1> HIDE DEF lines
<1>6. RunInv'
  <2>1. EndFollows(proc'[p].pipe, <<"agent_start">>)
        /\ \A c \in Prompts : EndFollows(proc'[p].pipe, <<"response", c>>)
    BY <1>1, <1>5 DEF Spoke
  <2> QED BY <1>1, <2>1 DEF StateInv, RunInv, Spoke
<1>7. AskInv'
  BY <1>1, <1>3, SpokeOfNoPrompt DEF StateInv
<1>8. call[p].pc # "launched"
  BY <1>1, NoneIsNoPrompt DEF StateInv, LifeInv
<1> QED BY <1>1, <1>3, <1>6, <1>7, <1>8, SpokeState

LEMMA PiDiesState ==
  ASSUME IInv, StateInv, NEW p \in Prompts, PiDies(p)
  PROVE  StateInv'
<1>1. /\ proc[p].alive /\ UNCHANGED <<s, call, loop, h>>
      /\ ~proc'[p].alive /\ proc'[p].inbox = {} /\ proc'[p].run = None
      /\ proc'[p].open = {} /\ proc'[p].pipe = proc[p].pipe
      /\ \A x \in Prompts \ {p} : proc'[x] = proc[x]
  BY PiDiesIs
<1>2. LifeInv'
  BY <1>1 DEF StateInv, LifeInv
<1>3. \A x, c \in Prompts : Answers(x, c)' <=> Answers(x, c)
  BY <1>1 DEF Answers
<1>4. AskInv'
  <2> SUFFICES ASSUME NEW c \in Prompts, NEW x \in Prompts
               PROVE  /\ call'[c].pc \in Early \cup {"new"} =>
                           <<"get_state", c>> \notin proc'[x].inbox /\ ~Answers(x, c)'
                      /\ call'[c].pc = "handshake" => call'[c].p = c
                      /\ <<"get_state", c>> \in proc'[x].inbox =>
                           /\ x = c /\ call'[c].pc \in {"handshake", "stopping", "failed"}
                           /\ call'[c].pc = "handshake" => ~Answers(x, c)' /\ ~call'[c].answered
                      /\ call'[c].pc = "handshake" /\ Answers(x, c)' =>
                           /\ x = c /\ ~call'[c].answered
                           /\ NotAfter(proc'[x].pipe, <<"response", c>>, <<"response", c>>)
    BY DEF AskInv
  <2>1. proc'[x].inbox \subseteq proc[x].inbox /\ proc'[x].pipe = proc[x].pipe
    BY <1>1
  <2> QED BY <1>1, <1>3, <2>1 DEF StateInv, AskInv
<1>5. RunInv'
  BY <1>1 DEF StateInv, RunInv, Runs
<1>6. \A x \in Prompts : Working(x) => Working(x)'
  BY <1>1 DEF Working, Runs, Exited
<1> QED BY <1>1, <1>2, <1>4, <1>5, <1>6, StillState, SessionIs DEF Exited

-----------------------------------------------------------------------------
(* The read loop, line by line.                                            *)

LEMMA TookLife ==
  ASSUME IInv, StateInv, NEW p \in Prompts, Took(p),
         \A c \in Prompts : /\ call'[c].pc = call[c].pc
                            /\ call'[c].answered # call[c].answered => call[c].pc \in {"handshake", "asking"},
         loop'[p] \in {"read", "asked", "settled"}, \A x \in Prompts \ {p} : loop'[x] = loop[x],
         s'.proc = s.proc, s'.turn \in {s.turn, None}
  PROVE  LifeInv'
<1> SUFFICES ASSUME NEW x \in Prompts
             PROVE  /\ ~proc'[x].alive => proc'[x].inbox = {} /\ proc'[x].run = None /\ proc'[x].open = {}
                    /\ loop'[x] = "none" => ~proc'[x].alive
                    /\ loop'[x] \in {"none"} \cup Done => proc'[x].pipe = <<>>
                    /\ call'[x].pc \in {"new", "claimed", "starting"} => loop'[x] = "none"
                    /\ call'[x].pc = "launched" =>
                         proc'[x].inbox = {} /\ proc'[x].pipe = <<>> /\ proc'[x].run = None
                         /\ proc'[x].open = {}
                    /\ call'[x].pc \in Early \cup {"new"} => s'.proc # x /\ ~call'[x].answered
                    /\ s'.turn = x => call'[x].pc \notin {"new", "failed"}
  BY DEF LifeInv
<1>1. /\ loop[p] = "read" /\ proc[p].pipe # <<>>
      /\ Keeps(proc'[x], proc[x]) /\ (x # p => proc'[x].pipe = proc[x].pipe)
  BY DEF Took
<1>2. ~proc'[x].alive => proc'[x].inbox = {} /\ proc'[x].run = None /\ proc'[x].open = {}
  BY <1>1 DEF StateInv, LifeInv, Keeps
<1>3. /\ loop'[x] = "none" => ~proc'[x].alive
      /\ loop'[x] \in {"none"} \cup Done => proc'[x].pipe = <<>>
      /\ call'[x].pc \in {"new", "claimed", "starting"} => loop'[x] = "none"
  BY <1>1 DEF StateInv, LifeInv, Keeps, Done
<1>4. call'[x].pc = "launched" =>
        proc'[x].inbox = {} /\ proc'[x].pipe = <<>> /\ proc'[x].run = None /\ proc'[x].open = {}
  BY <1>1 DEF StateInv, LifeInv, Keeps
<1>5. call'[x].pc \in Early \cup {"new"} => s'.proc # x /\ ~call'[x].answered
  BY DEF StateInv, LifeInv, Early
<1>6. s'.turn = x => call'[x].pc \notin {"new", "failed"}
  BY NoneIsNoPrompt DEF StateInv, LifeInv
<1> QED BY <1>2, <1>3, <1>4, <1>5, <1>6

\* What is left to read was there.
LEMMA TookPipe ==
  ASSUME IInv, NEW p \in Prompts, Took(p), NEW x \in Prompts
  PROVE  /\ \A line : Has(proc'[x].pipe, line) => Has(proc[x].pipe, line)
         /\ \A first, line : NotAfter(proc[x].pipe, first, line) => NotAfter(proc'[x].pipe, first, line)
         /\ \A line : EndFollows(proc[x].pipe, line) => EndFollows(proc'[x].pipe, line)
         /\ Runs(proc'[x]) <=> Runs(proc[x])
<1>1. Runs(proc'[x]) <=> Runs(proc[x])
  BY DEF Took, Keeps, Runs
<1>2. proc[x].pipe \in Seq(Lines)
  BY GoodProcess DEF Processes
<1>3. CASE x = p
  <2>1. proc[p].pipe # <<>> /\ proc'[p].pipe = Tail(proc[p].pipe)
    BY DEF Took
  <2> QED BY <1>1, <1>2, <1>3, <2>1, HasRest, NotAfterRest, EndFollowsRest
<1>4. CASE x # p
  BY <1>1, <1>4 DEF Took
<1> QED BY <1>3, <1>4

LEMMA TookLines ==
  ASSUME IInv, AskInv, RunInv, NEW p \in Prompts, Took(p), UNCHANGED call
  PROVE  AskInv' /\ RunInv'
<1>1. AskInv'
  <2> SUFFICES ASSUME NEW c \in Prompts, NEW x \in Prompts
               PROVE  /\ call'[c].pc \in Early \cup {"new"} =>
                           <<"get_state", c>> \notin proc'[x].inbox /\ ~Answers(x, c)'
                      /\ call'[c].pc = "handshake" => call'[c].p = c
                      /\ <<"get_state", c>> \in proc'[x].inbox =>
                           /\ x = c /\ call'[c].pc \in {"handshake", "stopping", "failed"}
                           /\ call'[c].pc = "handshake" => ~Answers(x, c)' /\ ~call'[c].answered
                      /\ call'[c].pc = "handshake" /\ Answers(x, c)' =>
                           /\ x = c /\ ~call'[c].answered
                           /\ NotAfter(proc'[x].pipe, <<"response", c>>, <<"response", c>>)
    BY DEF AskInv
  <2>1. proc'[x].inbox = proc[x].inbox
    BY DEF Took, Keeps
  <2>2. Answers(x, c)' => Answers(x, c)
    BY TookPipe DEF Answers
  <2>3. NotAfter(proc[x].pipe, <<"response", c>>, <<"response", c>>) =>
          NotAfter(proc'[x].pipe, <<"response", c>>, <<"response", c>>)
    BY TookPipe
  <2> QED BY <2>1, <2>2, <2>3 DEF AskInv
<1>2. RunInv'
  BY TookPipe DEF RunInv
<1> QED BY <1>1, <1>2

LEMMA TookWorks ==
  ASSUME IInv, NEW p \in Prompts, Took(p), NEW x \in Prompts, Working(x),
         loop'[p] \in {"read", "asked", "settled"}, \A y \in Prompts \ {p} : loop'[y] = loop[y],
         Line(p)[1] = "agent_settled" => loop'[p] = "settled"
  PROVE  Working(x)'
<1>1. CASE x = p
  <2>1. /\ loop[p] = "read" /\ proc[p].pipe # <<>> /\ proc'[p].pipe = Tail(proc[p].pipe)
        /\ proc[p].pipe \in Seq(Lines) /\ (Runs(proc'[p]) <=> Runs(proc[p]))
    BY GoodProcess, TookPipe DEF Took, Processes
  <2>2. CASE Line(p)[1] = "agent_settled"
    BY <1>1, <2>2 DEF Working, Exited
  <2>3. CASE Line(p)[1] # "agent_settled"
    <3>1. Ends(proc[p].pipe) => Ends(proc'[p].pipe)
      BY <2>1, <2>3, EndsRest DEF Line
    <3> QED BY <1>1, <2>1, <3>1 DEF Working, Exited
  <2> QED BY <2>2, <2>3
<1>2. CASE x # p
  BY <1>2, TookPipe DEF Working, Took, Exited
<1> QED BY <1>1, <1>2

\* A line that is read changes neither the turn nor the row.
LEMMA TookState ==
  ASSUME IInv, StateInv, NEW p \in Prompts, Took(p), UNCHANGED call,
         loop'[p] \in {"read", "asked", "settled"}, \A x \in Prompts \ {p} : loop'[x] = loop[x],
         Line(p)[1] = "agent_settled" => loop'[p] = "settled",
         s'.turn = s.turn, s'.running = s.running, s'.proc = s.proc, s'.state = s.state,
         ~h'.slipped => ~h.slipped
  PROVE  StateInv'
<1>1. LifeInv'
  BY TookLife
<1>2. AskInv' /\ RunInv'
  BY TookLines DEF StateInv
<1>3. \A x \in Prompts : Working(x) => Working(x)'
  BY TookWorks
<1>4. loop[p] = "read"
  BY DEF Took
<1> QED BY <1>1, <1>2, <1>3, <1>4, StillState DEF Exited

LEMMA resolveState ==
  ASSUME IInv, StateInv, NEW p \in Prompts, resolve(p)
  PROVE  StateInv'
<1>1. HasLine(p, "response") /\ Took(p) /\ UNCHANGED <<s, loop, h>>
  BY TookLine DEF resolve
<1>2. /\ loop[p] = "read" /\ proc[p].pipe # <<>> /\ Line(p) = Head(proc[p].pipe)
      /\ Line(p)[1] = "response" /\ proc[p].pipe \in Seq(Lines) /\ Line(p) \in Lines
      /\ proc'[p].pipe = Tail(proc[p].pipe)
  BY <1>1, LineTyped, GoodProcess DEF HasLine, Line, Processes, Took
<1>3. PICK c \in Prompts : Line(p) = <<"response", c>>
  BY <1>2 DEF Lines
<1> DEFINE q == [call[c] EXCEPT !.answered = TRUE]
<1>4. CASE ~(call[c].pc \in {"handshake", "asking"} /\ call[c].p = p)
  <2>1. UNCHANGED call
    BY <1>3, <1>4 DEF resolve
  <2> QED BY <1>1, <1>2, <2>1, TookState
<1>5. CASE call[c].pc \in {"handshake", "asking"} /\ call[c].p = p
  <2>1. call' = [call EXCEPT ![c] = q]
    BY <1>3, <1>5 DEF resolve
  <2>2. q.pc = call[c].pc /\ q.p = p /\ q.answered
    BY <1>3, <1>5, SessionIs DEF Calls
  <2> HIDE DEF q
  <2>3. /\ call'[c].pc = call[c].pc /\ call'[c].p = p /\ call'[c].answered
        /\ \A d \in Prompts \ {c} : call'[d] = call[d]
    BY <1>3, <2>1, <2>2, SessionIs
  <2>4. Answers(p, c)
    BY <1>2, <1>3, HasRest DEF Answers
  <2>5. LifeInv'
    BY <1>1, <1>2, <1>3, <1>5, <2>3, TookLife
  <2>6. AskInv'
    <3> SUFFICES ASSUME NEW d \in Prompts, NEW x \in Prompts
                 PROVE  /\ call'[d].pc \in Early \cup {"new"} =>
                             <<"get_state", d>> \notin proc'[x].inbox /\ ~Answers(x, d)'
                        /\ call'[d].pc = "handshake" => call'[d].p = d
                        /\ <<"get_state", d>> \in proc'[x].inbox =>
                             /\ x = d /\ call'[d].pc \in {"handshake", "stopping", "failed"}
                             /\ call'[d].pc = "handshake" => ~Answers(x, d)' /\ ~call'[d].answered
                        /\ call'[d].pc = "handshake" /\ Answers(x, d)' =>
                             /\ x = d /\ ~call'[d].answered
                             /\ NotAfter(proc'[x].pipe, <<"response", d>>, <<"response", d>>)
      BY DEF AskInv
    <3>1. /\ proc'[x].inbox = proc[x].inbox /\ (Answers(x, d)' => Answers(x, d))
          /\ NotAfter(proc[x].pipe, <<"response", d>>, <<"response", d>>) =>
               NotAfter(proc'[x].pipe, <<"response", d>>, <<"response", d>>)
      BY <1>1, TookPipe DEF Took, Keeps, Answers
    <3>2. CASE d # c
      BY <2>3, <3>1, <3>2 DEF StateInv, AskInv
    <3>3. CASE d = c
      <4>1. CASE call[c].pc = "handshake"
        <5>1. p = c /\ NotAfter(proc[p].pipe, <<"response", c>>, <<"response", c>>)
              /\ <<"get_state", c>> \notin proc[p].inbox
          BY <1>3, <2>4, <4>1 DEF StateInv, AskInv
        <5>2. ~Answers(p, c)'
          BY <1>2, <1>3, <5>1, NotAfterRest DEF Answers
        <5>3. x # p => ~Answers(x, c) /\ <<"get_state", c>> \notin proc[x].inbox
          BY <1>3, <4>1, <5>1 DEF StateInv, AskInv
        <5> QED BY <2>3, <3>1, <3>3, <4>1, <5>1, <5>2, <5>3 DEF Early
      <4>2. CASE call[c].pc = "asking"
        BY <1>3, <2>3, <3>1, <3>3, <4>2 DEF StateInv, AskInv, Early
      <4> QED BY <1>5, <4>1, <4>2
    <3> QED BY <3>2, <3>3
  <2>7. RunInv'
    <3>1. \A d \in Prompts : call'[d].pc = call[d].pc /\ call'[d].p = call[d].p
      BY <1>5, <2>3
    <3>2. \A x \in Prompts : /\ Runs(proc'[x]) <=> Runs(proc[x])
                             /\ \A line : EndFollows(proc[x].pipe, line) => EndFollows(proc'[x].pipe, line)
      BY <1>1, TookPipe
    <3> QED BY <3>1, <3>2 DEF StateInv, RunInv
  <2>8. BusyInv'
    <3>1. call[c].pc = "asking" => Working(p)'
      <4> SUFFICES ASSUME call[c].pc = "asking" PROVE Working(p)'
        OBVIOUS
      <4>1. Runs(proc[p]) \/ EndFollows(proc[p].pipe, <<"response", c>>)
        BY <1>3, <1>5 DEF StateInv, RunInv
      <4>2. Runs(proc'[p]) \/ Ends(proc'[p].pipe)
        BY <1>1, <1>2, <1>3, <4>1, EndFollowsRest, TookPipe
      <4> QED BY <1>1, <1>2, <4>2 DEF Working, Exited
    <3>2. CASE call[c].pc = "asking"
      BY <3>1, <3>2 DEF BusyInv
    <3>3. CASE call[c].pc = "handshake"
      BY <1>3, <2>3, <3>3 DEF BusyInv, Sending
    <3> QED BY <1>5, <3>2, <3>3
  <2>9. AcceptedInv'
    BY <1>1, <1>2, <2>3 DEF StateInv, AcceptedInv, Accepted, Exited
  <2>10. ~h'.slipped => ProcInv' /\ RowInv'
    <3>1. \A d \in Prompts : call'[d].pc = call[d].pc /\ call'[d].p = call[d].p
      BY <1>5, <2>3
    <3> QED BY <1>1, <3>1 DEF StateInv, ProcInv, RowInv
  <2> QED BY <2>5, <2>6, <2>7, <2>8, <2>9, <2>10 DEF StateInv
<1> QED BY <1>4, <1>5

\* The turn that opens is of a run, which goes on or ends in what is unread.
LEMMA openTurnState ==
  ASSUME IInv, StateInv, NEW p \in Prompts, openTurn(p)
  PROVE  StateInv'
<1>1. HasLine(p, "agent_start") /\ Took(p) /\ UNCHANGED <<call, loop, h>>
  BY TookLine DEF openTurn
<1>2. /\ loop[p] = "read" /\ proc[p].pipe # <<>> /\ Line(p) = Head(proc[p].pipe)
      /\ Line(p)[1] = "agent_start" /\ proc[p].pipe \in Seq(Lines) /\ Line(p) \in Lines
      /\ proc'[p].pipe = Tail(proc[p].pipe)
  BY <1>1, LineTyped, GoodProcess DEF HasLine, Line, Processes, Took
<1>3. CASE s.running
  BY <1>1, <1>2, <1>3, TookState DEF openTurn
<1>4. CASE ~s.running
  <2>1. s'.turn = None /\ s'.running /\ s'.proc = s.proc
    BY <1>4, SessionIs DEF openTurn, Sessions
  <2>2. LifeInv' /\ AskInv' /\ RunInv'
    BY <1>1, <1>2, <2>1, TookLife, TookLines DEF StateInv
  <2>3. BusyInv'
    <3>1. Line(p) = <<"agent_start">>
      BY <1>2 DEF Lines
    <3>2. Runs(proc[p]) \/ EndFollows(proc[p].pipe, <<"agent_start">>)
      BY DEF StateInv, RunInv
    <3>3. Runs(proc'[p]) \/ Ends(proc'[p].pipe)
      BY <1>1, <1>2, <3>1, <3>2, EndFollowsRest, TookPipe
    <3>4. Working(p)'
      BY <1>1, <1>2, <3>3 DEF Working, Exited
    <3> QED BY <3>4 DEF BusyInv
  <2>4. AcceptedInv' /\ ProcInv' /\ RowInv'
    BY <2>1, NoneIsNoPrompt DEF AcceptedInv, ProcInv, RowInv
  <2> QED BY <2>2, <2>3, <2>4 DEF StateInv
<1> QED BY <1>3, <1>4

LEMMA onMessageEndState ==
  ASSUME IInv, StateInv, NEW p \in Prompts, onMessageEnd(p)
  PROVE  StateInv'
<1> DEFINE echo == h.echo \cup {<<s.turn, Line(p)>>}
<1>1. /\ Took(p) /\ Line(p)[1] # "agent_settled" /\ loop[p] = "read"
      /\ s' = [s EXCEPT !.echoed = TRUE] /\ UNCHANGED <<call, loop>>
      /\ UNCHANGED h \/ Note([h EXCEPT !.echo = echo], FALSE)
  BY TookLine DEF onMessageEnd, UserMessage, HasLine
<1>2. Told(h, [h EXCEPT !.echo = echo])
  BY HistoryFields DEF IInv, Typed, HistoryTyped
<1> HIDE DEF echo
<1>3. ~h'.slipped => ~h.slipped
  BY <1>1, <1>2, NoteDoes DEF Told
<1> QED BY <1>1, <1>3, SessionIs, TookState DEF Sessions

LEMMA onUIRequestState ==
  ASSUME IInv, StateInv, NEW p \in Prompts, onUIRequest(p)
  PROVE  StateInv'
<1>1. /\ Took(p) /\ Line(p)[1] # "agent_settled"
      /\ s' = [s EXCEPT !.pending = s.pending \cup {Line(p)[2]}] /\ UNCHANGED <<call, h>>
      /\ loop'[p] = "asked" /\ \A x \in Prompts \ {p} : loop'[x] = loop[x]
  BY TookLine, LoopIs DEF onUIRequest, HasLine
<1> QED BY <1>1, SessionIs, TookState DEF Sessions

LEMMA onSettledState ==
  ASSUME IInv, StateInv, NEW p \in Prompts, onSettled(p)
  PROVE  StateInv'
<1> DEFINE mishap == s.turn \notin {Line(p)[2], None} \/ s.proc \notin {None, p}
<1>1. /\ Took(p) /\ s' = [s EXCEPT !.pending = {}] /\ UNCHANGED call
      /\ loop'[p] = "settled" /\ \A x \in Prompts \ {p} : loop'[x] = loop[x]
      /\ Note(Answered(s.proc, s.pending), mishap)
  BY TookLine, LoopIs, SessionIs DEF onSettled
<1> HIDE DEF mishap
<1>2. ~h'.slipped => ~h.slipped
  BY <1>1, NoteDoes, AnsweredTold DEF Told
<1> QED BY <1>1, <1>2, SessionIs, TookState DEF Sessions

-----------------------------------------------------------------------------
(* All steps.                                                              *)

LEMMA InitState == Init => StateInv
<1> SUFFICES ASSUME Init PROVE StateInv
  OBVIOUS
<1>1. /\ \A c \in Prompts : call[c].pc = "new" /\ ~call[c].answered
      /\ s.proc = None /\ s.turn = None /\ ~s.running
      /\ \A p \in Prompts : /\ loop[p] = "none" /\ ~proc[p].alive /\ proc[p].inbox = {}
                            /\ proc[p].pipe = <<>> /\ proc[p].run = None /\ proc[p].open = {}
  BY DEF Init, NoCall, NoProcess
<1>2. LifeInv
  BY <1>1, NoneIsNoPrompt DEF LifeInv
<1>3. AskInv /\ RunInv
  BY <1>1 DEF AskInv, Answers, Has, RunInv, Runs
<1>4. BusyInv /\ AcceptedInv /\ ProcInv /\ RowInv
  BY <1>1, NoneIsNoPrompt DEF BusyInv, AcceptedInv, ProcInv, RowInv
<1> QED BY <1>2, <1>3, <1>4 DEF StateInv

LEMMA StutterState ==
  ASSUME IInv, StateInv, UNCHANGED vars
  PROVE  StateInv'
BY CalmSteps, StillCalmState DEF vars

LEMMA NextState == IInv /\ StateInv /\ [Next]_vars => StateInv'
<1> SUFFICES ASSUME IInv, StateInv, [Next]_vars PROVE StateInv'
  OBVIOUS
<1>1. ASSUME NEW c \in Prompts, Busy(c) \/ Claim(c) \/ PromptStep(c) PROVE StateInv'
  BY <1>1, BusyState, ClaimState, RunningState, NotRunningState, LaunchState, HandshakeState,
     StartedState, HandshakeFailsState, abandonTurnState, PromptReturnsState DEF PromptStep
<1>2. ASSUME NEW p \in Prompts, LoopStep(p) PROVE StateInv'
  BY <1>2, resolveState, openTurnState, onMessageEndState, onUIRequestState, AskedSetsStateState,
     onSettledState, SettledClosesState, SettledSetsStateState, readLoopEndsState, onExitState,
     ExitTellsState DEF LoopStep
<1>3. CASE Interrupt \/ ReapLooks \/ ReapStops
  BY <1>3, InterruptState, ReapLooksState, ReapStopsState
<1>4. ASSUME NEW o \in Owners, Respond(o) \/ \E n \in Asks : RespondTakes(o, n) PROVE StateInv'
  BY <1>4, RespondState, RespondTakesState
<1>5. ASSUME NEW p \in Prompts, NEW m \in proc[p].inbox, PiTakes(p, m) PROVE StateInv'
  BY <1>5, PiTakesState
<1>6. ASSUME NEW p \in Prompts, PiDrives(p) \/ Steer(p) \/ PiAsks(p) \/ PiSettles(p) \/ PiDies(p)
      PROVE  StateInv'
  BY <1>6, PiDrivesState, SteerState, PiAsksState, PiSettlesState, PiDiesState
<1>7. CASE UNCHANGED vars
  BY <1>7, StutterState
<1> QED BY <1>1, <1>2, <1>3, <1>4, <1>5, <1>6, <1>7 DEF Next

LEMMA StateFollows == IInv /\ StateInv => StateIsTrue
<1> SUFFICES ASSUME IInv, StateInv PROVE StateIsTrue
  OBVIOUS
<1>1. BusyMeansWorking
  <2> SUFFICES ASSUME s.running, \A c \in Prompts : call[c].pc \in {"new", "failed", "returned"}
               PROVE  \E p \in Prompts : ~Exited(p) /\ (proc[p].run # None \/ proc[p].pipe # <<>>
                                             \/ loop[p] \in {"settled", "closed"} \/ ~proc[p].alive)
    BY DEF BusyMeansWorking
  <2>1. PICK p \in Prompts : Working(p)
    BY DEF StateInv, BusyInv, Sending
  <2>2. Ends(proc[p].pipe) => proc[p].pipe # <<>>
    BY DEF Ends
  <2> QED BY <2>1, <2>2 DEF Working, Runs
<1>2. RunningIsNotIdle
  BY DEF RunningIsNotIdle, StateInv, RowInv
<1> QED BY <1>1, <1>2 DEF StateIsTrue

\* The session refuses prompts only while a prompt is sent or a process has a run
\* or its end to tell, and the row of an accepted turn does not read idle.
THEOREM BusyOnlyWhileWorking == Spec => []StateIsTrue
<1>1. Init => IInv /\ StateInv
  BY InitIInv, InitState
<1>2. IInv /\ StateInv /\ [Next]_vars => (IInv /\ StateInv)'
  BY NextIInv, NextState
<1> QED BY <1>1, <1>2, StateFollows, PTL DEF Spec

-----------------------------------------------------------------------------
(* The turns: what is told of one is told of it, and before its end.       *)

TurnInv == HeardInv /\ SteerInv /\ (~h.slipped => EndedInv /\ ClosingInv /\ EchoInv)

\* Lines that are not about whose run it is.
Plain(line) == line[1] \in {"response", "agent_start", "extension_ui_request"}
\* Process x hears of no prompt, and says nothing of one.
Mute(x) ==
  /\ \A c \in Prompts : /\ <<"prompt", c>> \in proc'[x].inbox => <<"prompt", c>> \in proc[x].inbox
                        /\ proc'[x].run = c => proc[x].run = c
  /\ \A line : Has(proc'[x].pipe, line) => Has(proc[x].pipe, line) \/ Plain(line)
  /\ \A first, line : NotAfter(proc[x].pipe, first, line) /\ ~Plain(line) => NotAfter(proc'[x].pipe, first, line)
\* What waits to be told of a turn still does.
Follows(x) == \A c \in Prompts :
  /\ Has(proc[x].pipe, <<"user", c>>) => Has(proc'[x].pipe, <<"user", c>>)
  /\ Precedes(proc[x].pipe, <<"user", c>>, <<"steer", c>>) =>
       Precedes(proc'[x].pipe, <<"user", c>>, <<"steer", c>>)

\* A prompt goes on, short of being written.
CallGoes(c) ==
  /\ call[c].pc = "failed" => call'[c].pc = "failed"
  /\ call'[c].pc \in Unsent \cup {"stopping"} => call[c].pc \in Unsent \cup {"stopping"}
  /\ call'[c].pc \in {"asking", "returned"} =>
       call[c].pc \in {"asking", "returned"} /\ call'[c].p = call[c].p
  /\ call'[c].pc \in Early \cup {"new"} => call[c].pc \in Early \cup {"new"}

LEMMA MovesGo ==
  ASSUME NEW c \in Prompts, CallMoves(c)
  PROVE  CallGoes(c)
BY DEF CallMoves, CallGoes, Unsent, Early

LEMMA MuteCalm ==
  ASSUME IInv, Calm, NEW x \in Prompts
  PROVE  Mute(x) /\ Follows(x)
BY DEF Calm, Keeps, Mute, Follows

LEMMA MuteTook ==
  ASSUME IInv, NEW p \in Prompts, Took(p), NEW x \in Prompts
  PROVE  Mute(x) /\ (Line(p)[1] # "user" => Follows(x))
<1>1. /\ proc'[x].inbox = proc[x].inbox /\ proc'[x].run = proc[x].run
      /\ x # p => proc'[x].pipe = proc[x].pipe
  BY DEF Took, Keeps
<1>2. Mute(x)
  BY <1>1, TookPipe DEF Mute
<1>3. Line(p)[1] # "user" => Follows(x)
  <2> SUFFICES ASSUME Line(p)[1] # "user", x = p PROVE Follows(x)
    BY <1>1 DEF Follows
  <2>1. /\ proc[p].pipe \in Seq(Lines) /\ proc[p].pipe # <<>> /\ proc'[p].pipe = Tail(proc[p].pipe)
        /\ \A c : Head(proc[p].pipe) # <<"user", c>>
    BY GoodProcess DEF Took, Processes, Line
  <2> QED BY <2>1, HasRest, PrecedesRest DEF Follows
<1> QED BY <1>2, <1>3

LEMMA MuteSpoke ==
  ASSUME IInv, NEW p \in Prompts, NEW inbox, NEW run, NEW open, NEW line \in Lines, Plain(line),
         Spoke(p, inbox, run, open, <<line>>), inbox \subseteq proc[p].inbox,
         run = proc[p].run \/ run \notin Prompts, NEW x \in Prompts
  PROVE  Mute(x) /\ Follows(x)
<1> DEFINE lines == <<line>>
<1>1. /\ lines \in Seq(Lines) /\ \A l : Has(lines, l) <=> l = line
      /\ \A a, b : NotAfter(lines, a, b)
  BY OneLine
<1>2. /\ proc'[p].inbox = inbox /\ proc'[p].run = run /\ proc'[p].pipe = proc[p].pipe \o lines
      /\ \A y \in Prompts \ {p} : proc'[y] = proc[y]
  BY DEF Spoke
<1> HIDE DEF lines
<1>3. CASE x # p
  BY <1>2, <1>3 DEF Mute, Follows
<1>4. CASE x = p
  <2>1. proc[p].pipe \in Seq(Lines)
    BY GoodProcess DEF Processes
  <2>2. Mute(p)
    <3>1. \A l : Has(proc'[p].pipe, l) => Has(proc[p].pipe, l) \/ Plain(l)
      BY <1>1, <1>2, <2>1, HasAppended
    <3>2. \A f, l : NotAfter(proc[p].pipe, f, l) /\ ~Plain(l) => NotAfter(proc'[p].pipe, f, l)
      BY <1>1, <1>2, <2>1, NotAfterAppended
    <3> QED BY <1>2, <3>1, <3>2 DEF Mute
  <2>3. Follows(p)
    <3>1. \A c : Has(proc[p].pipe, <<"user", c>>) => Has(proc'[p].pipe, <<"user", c>>)
      BY <1>1, <1>2, <2>1, HasAppended
    <3>2. \A c : ~Has(lines, <<"steer", c>>)
      BY <1>1 DEF Plain
    <3>3. \A c : Precedes(proc[p].pipe, <<"user", c>>, <<"steer", c>>) =>
                   Precedes(proc'[p].pipe, <<"user", c>>, <<"steer", c>>)
      BY <1>1, <1>2, <2>1, <3>2, PrecedesAppended
    <3> QED BY <3>1, <3>3 DEF Follows
  <2> QED BY <1>4, <2>2, <2>3
<1> QED BY <1>3, <1>4

LEMMA MuteHeard ==
  ASSUME NEW x \in Prompts, Mute(x), NEW c \in Prompts
  PROVE  /\ Heard(proc'[x], c) => Heard(proc[x], c)
         /\ Orderly(proc[x], c) => Orderly(proc'[x], c)
         /\ Shows(proc'[x].pipe, c) => Shows(proc[x].pipe, c)
<1> DEFINE end == <<"agent_settled", c>>
           user == <<"user", c>>
           steer == <<"steer", c>>
<1>1. ~Plain(end) /\ ~Plain(user) /\ ~Plain(steer)
  BY DEF Plain
<1>2. /\ Has(proc'[x].pipe, end) => Has(proc[x].pipe, end)
      /\ Has(proc'[x].pipe, user) => Has(proc[x].pipe, user)
      /\ Has(proc'[x].pipe, steer) => Has(proc[x].pipe, steer)
      /\ NotAfter(proc[x].pipe, end, user) => NotAfter(proc'[x].pipe, end, user)
      /\ NotAfter(proc[x].pipe, end, steer) => NotAfter(proc'[x].pipe, end, steer)
  BY <1>1 DEF Mute
<1>3. \A q : Settles(q.pipe, c) <=> Has(q.pipe, end)
  BY DEF Settles, Has
<1>4. /\ <<"prompt", c>> \in proc'[x].inbox => <<"prompt", c>> \in proc[x].inbox
      /\ proc'[x].run = c => proc[x].run = c
  BY DEF Mute
<1> HIDE DEF end
<1>5. Shows(proc'[x].pipe, c) => Shows(proc[x].pipe, c)
  BY <1>2 DEF Shows
<1>6. Heard(proc'[x], c) => Heard(proc[x], c)
  BY <1>2, <1>3, <1>4, <1>5 DEF Heard, Knows
<1>7. Orderly(proc[x], c) => Orderly(proc'[x], c)
  BY <1>2, <1>3, <1>4, <1>5 DEF Orderly, end
<1> QED BY <1>5, <1>6, <1>7

LEMMA HeardKept ==
  ASSUME HeardInv, \A c \in Prompts : CallGoes(c),
         \A x, c \in Prompts : (Heard(proc'[x], c) => Heard(proc[x], c)) /\ Orderly(proc'[x], c)
  PROVE  HeardInv'
BY DEF HeardInv, CallGoes

QuietStays == \A c \in Prompts : Quiet(c) => Quiet(c)'

LEMMA MuteQuiet ==
  ASSUME \A x \in Prompts : Mute(x)
  PROVE  QuietStays
BY MuteHeard DEF Mute, Quiet, QuietStays

\* No turn opens or ends, and none is shown.
LEMMA TidyKept ==
  ASSUME IInv, IInv', StateInv', EndedInv, ClosingInv, EchoInv, QuietStays,
         \A c \in Prompts : CallGoes(c), s'.turn \in {s.turn, None},
         \A p \in Prompts : loop'[p] = "settled" => loop[p] = "settled",
         h'.ended = h.ended, h'.echo = h.echo
  PROVE  (EndedInv /\ ClosingInv /\ EchoInv)'
<1>1. h.ended \subseteq Prompts
  BY DEF IInv, Typed, HistoryTyped, IsHistory
<1>2. EndedInv'
  BY <1>1, NoneIsNoPrompt DEF EndedInv, CallGoes, QuietStays
<1>3. ClosingInv'
  <2> SUFFICES ASSUME NEW p \in Prompts, NEW c \in Prompts, loop'[p] = "settled", s'.turn = c
               PROVE  call'[c].pc \in {"asking", "returned"} /\ Quiet(c)'
    BY DEF ClosingInv
  <2>1. call[c].pc \in {"asking", "returned"} /\ Quiet(c)'
    BY NoneIsNoPrompt DEF ClosingInv, QuietStays
  <2>2. call'[c].pc \notin {"new", "failed"} /\ call'[c] \in Calls
    BY DEF StateInv, LifeInv, IInv, Typed, CallsTyped
  <2>3. call'[c].pc \in PromptSteps
    BY <2>2 DEF Calls
  <2> QED BY <2>1, <2>2, <2>3 DEF CallGoes, Unsent, PromptSteps
<1>4. EchoInv'
  BY DEF EchoInv, Excused, CallGoes
<1> QED BY <1>2, <1>3, <1>4

\* Every process is mute.
LEMMA MuteTurn ==
  ASSUME IInv, IInv', StateInv', TurnInv, \A x \in Prompts : Mute(x),
         \A c \in Prompts : CallGoes(c), s'.turn \in {s.turn, None},
         s'.turn # None => s'.echoed \/ (s'.echoed = s.echoed /\ \A x \in Prompts : Follows(x)),
         \A p \in Prompts : loop'[p] = "settled" => loop[p] = "settled",
         ~h'.slipped => ~h.slipped /\ h'.ended = h.ended /\ h'.echo = h.echo
  PROVE  TurnInv'
<1>1. HeardInv'
  BY MuteHeard, HeardKept DEF TurnInv, HeardInv
<1>2. SteerInv'
  BY NoneIsNoPrompt DEF TurnInv, SteerInv, Follows, Mute
<1>3. ~h'.slipped => (EndedInv /\ ClosingInv /\ EchoInv)'
  BY MuteQuiet, TidyKept DEF TurnInv
<1> QED BY <1>1, <1>2, <1>3 DEF TurnInv

-----------------------------------------------------------------------------
(* The steps that tell nothing of a turn.                                  *)

LEMMA AnsweredDoes ==
  ASSUME IInv, NEW p, NEW N, NEW mishap, Note(Answered(p, N), mishap)
  PROVE  ~h'.slipped => /\ ~h.slipped /\ ~mishap /\ h' = Answered(p, N)
                        /\ h'.ended = h.ended /\ h'.echo = h.echo
<1> DEFINE g == Answered(p, N)
<1>1. g.slipped = h.slipped /\ g.ended = h.ended /\ g.echo = h.echo /\ Note(g, mishap)
  BY AnsweredNotes
<1> HIDE DEF g
<1>2. ~h'.slipped => h' = g /\ ~mishap /\ ~h.slipped
  BY <1>1, NoteDoes
<1> QED BY <1>1, <1>2 DEF g

LEMMA CountDoes ==
  ASSUME IInv, NEW n,
         Note([h EXCEPT !.drove = n], FALSE) \/ Note([h EXCEPT !.asked = n], FALSE)
  PROVE  ~h'.slipped => ~h.slipped /\ h'.ended = h.ended /\ h'.echo = h.echo
<1> DEFINE f == [h EXCEPT !.drove = n]
           g == [h EXCEPT !.asked = n]
<1>1. /\ f.slipped = h.slipped /\ f.ended = h.ended /\ f.echo = h.echo
      /\ g.slipped = h.slipped /\ g.ended = h.ended /\ g.echo = h.echo
      /\ Note(f, FALSE) \/ Note(g, FALSE)
  BY CountNotes
<1> HIDE DEF f, g
<1>2. ~h'.slipped => ~h.slipped /\ (h' = f \/ h' = g)
  BY <1>1, NoteDoes
<1> QED BY <1>1, <1>2

\* The processes are left alone.
LEMMA CalmTurn ==
  ASSUME IInv, IInv', StateInv', TurnInv, Calm, \A c \in Prompts : CallMoves(c),
         s'.turn \in {s.turn, None}, s'.echoed = s.echoed,
         \A p \in Prompts : loop'[p] = "settled" => loop[p] = "settled",
         ~h'.slipped => ~h.slipped /\ h'.ended = h.ended /\ h'.echo = h.echo
  PROVE  TurnInv'
BY MuteCalm, MovesGo, MuteTurn

LEMMA PromptTurn ==
  ASSUME IInv, IInv', StateInv', TurnInv, NEW c \in Prompts,
         Busy(c) \/ NotRunning(c) \/ HandshakeFails(c) \/ abandonTurn(c) \/ PromptReturns(c)
  PROVE  TurnInv'
<1>1. Calm /\ UNCHANGED loop
  BY CalmSteps, SessionIs DEF Busy, NotRunning, HandshakeFails, abandonTurn, PromptReturns
<1>2. s'.turn \in {s.turn, None} /\ s'.echoed = s.echoed
  BY SessionIs DEF Sessions, Busy, NotRunning, HandshakeFails, abandonTurn, PromptReturns, Settled
<1>3. ~h'.slipped => ~h.slipped /\ h'.ended = h.ended /\ h'.echo = h.echo
  BY NoteDoes DEF Busy, NotRunning, HandshakeFails, abandonTurn, PromptReturns
<1>4. \A d \in Prompts : CallMoves(d)
  <2>1. CASE Busy(c) \/ NotRunning(c) \/ abandonTurn(c) \/ PromptReturns(c)
    BY <2>1, CallIs DEF CallMoves, Busy, NotRunning, abandonTurn, PromptFails, PromptReturns
  <2>2. CASE HandshakeFails(c)
    <3> DEFINE q == [call[c] EXCEPT !.pc = "stopping", !.p = s.proc]
    <3>1. call[c].pc = "handshake" /\ call' = [call EXCEPT ![c] = q]
      BY <2>2 DEF HandshakeFails
    <3>2. q.pc = "stopping"
      BY SessionIs DEF Calls
    <3> HIDE DEF q
    <3> QED BY <3>1, <3>2, SessionIs DEF CallMoves
  <2> QED BY <2>1, <2>2
<1> QED BY <1>1, <1>2, <1>3, <1>4, CalmTurn

LEMMA RequestTurn ==
  ASSUME IInv, IInv', StateInv', TurnInv,
         \/ Interrupt \/ ReapLooks \/ ReapStops \/ UNCHANGED vars
         \/ \E o \in Owners : Respond(o) \/ \E n \in Asks : RespondTakes(o, n)
  PROVE  TurnInv'
<1>1. CASE Interrupt
  <2>1. /\ s' = [s EXCEPT !.pending = {}] /\ UNCHANGED <<call, loop>>
        /\ Calm /\ Note(Answered(s.proc, s.pending), FALSE)
    BY <1>1, CalmSteps, SessionIs DEF Interrupt
  <2>2. ~h'.slipped => ~h.slipped /\ h'.ended = h.ended /\ h'.echo = h.echo
    BY <2>1, AnsweredDoes, NoteDoes
  <2> QED BY <2>1, <2>2, SessionIs, CalmTurn DEF Sessions, CallMoves
<1>2. CASE ReapLooks \/ UNCHANGED vars
  BY <1>2, CalmSteps, CalmTurn DEF ReapLooks, vars, CallMoves
<1>3. CASE ReapStops
  <2>1. s' = [s EXCEPT !.proc = None] /\ UNCHANGED <<call, loop, h>> /\ Calm
    BY <1>3, CalmSteps, SessionIs DEF ReapStops
  <2> QED BY <2>1, SessionIs, CalmTurn DEF Sessions, CallMoves
<1>4. ASSUME NEW o \in Owners, Respond(o) PROVE TurnInv'
  <2>1. /\ s' = [s EXCEPT !.state = "running"] \/ UNCHANGED s
        /\ UNCHANGED <<call, loop>> /\ Calm
        /\ \/ Note(Answered(respond[o][1], {respond[o][2]}), FALSE)
           \/ Note(h, respond[o][1] = None)
    BY <1>4, RespondIs
  <2>2. ~h'.slipped => ~h.slipped /\ h'.ended = h.ended /\ h'.echo = h.echo
    BY <2>1, AnsweredDoes, NoteDoes
  <2> QED BY <2>1, <2>2, SessionIs, CalmTurn DEF Sessions, CallMoves
<1>5. ASSUME NEW o \in Owners, NEW n \in Asks, RespondTakes(o, n) PROVE TurnInv'
  <2>1. s' = [s EXCEPT !.pending = s.pending \ {n}] /\ UNCHANGED <<call, loop, h>> /\ Calm
    BY <1>5, CalmSteps DEF RespondTakes
  <2> QED BY <2>1, SessionIs, CalmTurn DEF Sessions, CallMoves
<1> QED BY <1>1, <1>2, <1>3, <1>4, <1>5

LEMMA LoopTurn ==
  ASSUME IInv, IInv', StateInv', TurnInv, NEW p \in Prompts,
         AskedSetsState(p) \/ SettledSetsState(p) \/ readLoopEnds(p) \/ ExitTells(p)
  PROVE  TurnInv'
<1>1. Calm /\ UNCHANGED call
  BY CalmSteps, SessionIs DEF AskedSetsState, SettledSetsState, readLoopEnds, ExitTells
<1>2. \A x \in Prompts : loop'[x] = "settled" => loop[x] = "settled"
  BY LoopIs DEF AskedSetsState, SettledSetsState, readLoopEnds, ExitTells
<1>3. s'.turn = s.turn /\ s'.echoed = s.echoed
  BY SessionIs DEF Sessions, AskedSetsState, SettledSetsState, readLoopEnds, ExitTells
<1>4. ~h'.slipped => ~h.slipped /\ h'.ended = h.ended /\ h'.echo = h.echo
  <2>1. CASE ExitTells(p)
    <3> DEFINE mishap == \E q \in Prompts \ {p} : loop[q] \notin {"none", "gone"}
    <3>1. Note(Answered(s.proc, s.pending), mishap)
      BY <2>1 DEF ExitTells
    <3> HIDE DEF mishap
    <3> QED BY <3>1, AnsweredDoes
  <2>2. CASE ~ExitTells(p)
    BY <2>2, NoteDoes DEF AskedSetsState, SettledSetsState, readLoopEnds
  <2> QED BY <2>1, <2>2
<1> QED BY <1>1, <1>2, <1>3, <1>4, CalmTurn DEF CallMoves

LEMMA ReadTurn ==
  ASSUME IInv, IInv', StateInv', TurnInv, NEW p \in Prompts,
         resolve(p) \/ openTurn(p) \/ onUIRequest(p)
  PROVE  TurnInv'
<1>1. /\ Took(p) /\ Line(p)[1] # "user" /\ UNCHANGED h
      /\ \A x \in Prompts : loop'[x] = "settled" => loop[x] = "settled"
  <2>1. CASE resolve(p) \/ openTurn(p)
    BY <2>1, TookLine DEF resolve, openTurn, HasLine
  <2>2. CASE onUIRequest(p)
    BY <2>2, TookLine, LoopIs DEF onUIRequest, HasLine
  <2> QED BY <2>1, <2>2
<1>2. \A x \in Prompts : Mute(x) /\ Follows(x)
  BY <1>1, MuteTook
<1>3. \A d \in Prompts : CallGoes(d)
  <2>1. CASE resolve(p)
    <3> DEFINE c == Line(p)[2]
               q == [call[c] EXCEPT !.answered = TRUE]
    <3>1. c \in Prompts
      BY <1>1, <2>1, LineTyped DEF Took, resolve, HasLine
    <3>2. q.pc = call[c].pc /\ q.p = call[c].p
      BY <3>1, SessionIs DEF Calls
    <3>3. call' = [call EXCEPT ![c] = q] \/ call' = call
      BY <2>1 DEF resolve
    <3> HIDE DEF q, c
    <3>4. \A d \in Prompts : call'[d].pc = call[d].pc /\ call'[d].p = call[d].p
      BY <3>1, <3>2, <3>3, SessionIs
    <3> QED BY <3>4 DEF CallGoes
  <2>2. CASE openTurn(p) \/ onUIRequest(p)
    BY <2>2 DEF openTurn, onUIRequest, CallGoes
  <2> QED BY <2>1, <2>2
<1>4. s'.turn \in {s.turn, None} /\ (s'.turn # None => s'.echoed = s.echoed)
  BY SessionIs DEF Sessions, resolve, openTurn, onUIRequest
<1> QED BY <1>1, <1>2, <1>3, <1>4, MuteTurn

\* A process dies, comes up, or goes on with what it does.
LEMMA PiTurn ==
  ASSUME IInv, IInv', StateInv', TurnInv, NEW p \in Prompts, PiDrives(p) \/ PiAsks(p) \/ PiDies(p)
  PROVE  TurnInv'
<1>1. UNCHANGED <<s, call, loop>>
  BY PiDrivesIs, PiAsksIs, PiDiesIs
<1>2. ~h'.slipped => ~h.slipped /\ h'.ended = h.ended /\ h'.echo = h.echo
  <2>1. \/ Note([h EXCEPT !.drove = h.drove + 1], FALSE) \/ Note([h EXCEPT !.asked = h.asked + 1], FALSE)
        \/ UNCHANGED h
    BY PiDrivesIs, PiAsksIs, PiDiesIs
  <2> QED BY <2>1, CountDoes
<1>3. \A x \in Prompts : Mute(x) /\ Follows(x)
  <2>1. CASE PiDrives(p)
    <3> DEFINE line == <<"agent_start">>
    <3>1. line \in Lines /\ Plain(line)
      BY DEF Lines, Plain
    <3>2. Spoke(p, proc[p].inbox, Extension, proc[p].open, <<line>>)
      BY <2>1, PiDrivesIs
    <3> HIDE DEF line
    <3> QED BY <3>1, <3>2, NoneIsNoPrompt, MuteSpoke
  <2>2. CASE PiAsks(p)
    <3> DEFINE n == h.asked + 1
               open == proc[p].open \cup {n}
               line == <<"extension_ui_request", n>>
    <3>1. n \in Asks /\ Spoke(p, proc[p].inbox, proc[p].run, open, <<line>>)
      BY <2>2, PiAsksIs
    <3>2. line \in Lines /\ Plain(line)
      BY <3>1 DEF Lines, Plain
    <3> HIDE DEF line, open
    <3> QED BY <3>1, <3>2, MuteSpoke
  <2>3. CASE PiDies(p)
    BY <2>3, PiDiesIs, NoneIsNoPrompt DEF Mute, Follows
  <2> QED BY <2>1, <2>2, <2>3
<1> QED BY <1>1, <1>2, <1>3, MuteTurn DEF CallGoes

LEMMA LaunchTurn ==
  ASSUME IInv, IInv', StateInv', TurnInv, NEW c \in Prompts, Launch(c)
  PROVE  TurnInv'
<1>1. /\ call[c].pc = "starting" /\ call'[c].pc = "launched" /\ \A d \in Prompts \ {c} : call'[d] = call[d]
      /\ \A x \in Prompts : loop'[x] = "settled" => loop[x] = "settled"
      /\ proc' = [proc EXCEPT ![c].alive = TRUE] /\ UNCHANGED <<s, h>>
  BY CallIs, LoopIs DEF Launch
<1>2. \A x \in Prompts : /\ proc'[x].inbox = proc[x].inbox /\ proc'[x].run = proc[x].run
                         /\ proc'[x].pipe = proc[x].pipe
  BY <1>1 DEF IInv, Typed, ProcessesTyped, AllGood, Processes
<1>3. \A x \in Prompts : Mute(x) /\ Follows(x)
  BY <1>2 DEF Mute, Follows
<1>4. \A d \in Prompts : CallGoes(d)
  BY <1>1 DEF CallGoes, Unsent, Early
<1> QED BY <1>1, <1>3, <1>4, MuteTurn

LEMMA HandshakeTurn ==
  ASSUME IInv, IInv', StateInv', TurnInv, NEW c \in Prompts, Handshake(c)
  PROVE  TurnInv'
<1> DEFINE q == [call[c] EXCEPT !.pc = "handshake", !.p = c]
<1>1. /\ call[c].pc = "launched" /\ call' = [call EXCEPT ![c] = q] /\ s' = [s EXCEPT !.proc = c]
      /\ UNCHANGED <<loop, h>> /\ Asked(c, c, "get_state")
  BY AskedStep DEF Handshake
<1>2. q.pc = "handshake"
  BY SessionIs DEF Calls
<1> HIDE DEF q
<1>3. call'[c].pc = "handshake" /\ \A d \in Prompts \ {c} : call'[d] = call[d]
  BY <1>1, <1>2, SessionIs
<1>4. s'.turn = s.turn /\ s'.echoed = s.echoed
  BY <1>1, SessionIs DEF Sessions
<1>5. \A x \in Prompts : Mute(x) /\ Follows(x)
  BY <1>1 DEF Asked, Mute, Follows
<1>6. \A d \in Prompts : CallGoes(d)
  BY <1>1, <1>3 DEF CallGoes, Unsent, Early
<1> QED BY <1>1, <1>4, <1>5, <1>6, MuteTurn

-----------------------------------------------------------------------------
(* A turn is claimed, and its prompt written.                              *)

LEMMA CalmHeard ==
  ASSUME IInv, HeardInv, Calm, \A c \in Prompts : CallMoves(c)
  PROVE  HeardInv' /\ QuietStays
BY MuteCalm, MovesGo, MuteHeard, HeardKept, MuteQuiet DEF HeardInv

LEMMA ClaimTurn ==
  ASSUME IInv, TurnInv, NEW c \in Prompts, Claim(c)
  PROVE  TurnInv'
<1> DEFINE mishap == \E p \in Prompts : loop[p] = "settled"
<1>1. /\ call[c].pc = "new" /\ call'[c].pc = "claimed" /\ call'[c].p = call[c].p
      /\ call'[c].answered = call[c].answered /\ \A d \in Prompts \ {c} : call'[d] = call[d]
      /\ s' = [s EXCEPT !.turn = c, !.running = TRUE, !.echoed = FALSE]
      /\ Note(h, mishap) /\ UNCHANGED <<proc, loop>> /\ Calm
  BY CallIs, CalmSteps DEF Claim
<1>2. s'.turn = c
  BY <1>1, SessionIs DEF Sessions
<1>3. ~h'.slipped => ~h.slipped /\ h' = h /\ \A p \in Prompts : loop[p] # "settled"
  <2> HIDE DEF mishap
  <2>1. ~h'.slipped => ~h.slipped /\ h' = h /\ ~mishap
    BY <1>1, NoteDoes
  <2> QED BY <2>1 DEF mishap
<1>4. \A d \in Prompts : CallMoves(d)
  BY <1>1 DEF CallMoves
<1>5. HeardInv' /\ QuietStays
  BY <1>1, <1>4, CalmHeard DEF TurnInv
<1>6. SteerInv'
  <2>1. \A p \in Prompts : ~Heard(proc[p], c)
    BY <1>1 DEF TurnInv, HeardInv, Unsent
  <2>2. \A p \in Prompts : proc[p].run # c /\ ~Has(proc[p].pipe, <<"steer", c>>)
    BY <2>1 DEF Heard, Knows, Shows
  <2>3. \A p \in Prompts : Precedes(proc[p].pipe, <<"user", c>>, <<"steer", c>>)
    BY <2>2 DEF Precedes, Has
  <2> QED BY <1>1, <1>2, <2>2, <2>3 DEF SteerInv
<1>7. ~h'.slipped => (EndedInv /\ ClosingInv /\ EchoInv)'
  <2> SUFFICES ASSUME ~h'.slipped PROVE (EndedInv /\ ClosingInv /\ EchoInv)'
    OBVIOUS
  <2>1. EndedInv /\ EchoInv /\ h' = h /\ \A p \in Prompts : loop[p] # "settled"
    BY <1>3 DEF TurnInv
  <2>2. EndedInv'
    <3>1. h.ended \subseteq Prompts
      BY DEF IInv, Typed, HistoryTyped, IsHistory
    <3> QED BY <1>1, <1>2, <1>5, <2>1, <3>1 DEF EndedInv, QuietStays, Early
  <2>3. ClosingInv' /\ EchoInv'
    BY <1>1, <2>1 DEF ClosingInv, EchoInv, Excused
  <2> QED BY <2>2, <2>3
<1> QED BY <1>5, <1>6, <1>7 DEF TurnInv

\* A prompt that no process heard of is written to one.
LEMMA WrittenTurn ==
  ASSUME IInv, TurnInv, NEW c \in Prompts, NEW p \in Prompts, Asked(p, c, "prompt"),
         call[c].pc \in {"claimed", "handshake"}, call'[c].pc = "asking", call'[c].p = p,
         \A d \in Prompts \ {c} : call'[d] = call[d],
         s'.turn = s.turn, s'.echoed = s.echoed, UNCHANGED loop,
         ~h'.slipped => ~h.slipped /\ h' = h /\ s.turn = c
                        /\ \A x \in Prompts : loop[x] # "settled"
  PROVE  TurnInv'
<1>1. \A x \in Prompts : /\ proc'[x].run = proc[x].run /\ proc'[x].pipe = proc[x].pipe
                         /\ \A d \in Prompts : <<"prompt", d>> \in proc'[x].inbox =>
                              <<"prompt", d>> \in proc[x].inbox \/ (x = p /\ d = c)
  BY DEF Asked
<1>2. \A x \in Prompts : ~Heard(proc[x], c)
  BY DEF TurnInv, HeardInv, Unsent
<1>3. \A x, d \in Prompts : Heard(proc'[x], d) => Heard(proc[x], d) \/ (x = p /\ d = c)
  BY <1>1 DEF Heard, Knows
<1>4. \A x, d \in Prompts : Orderly(proc'[x], d)
  <2> SUFFICES ASSUME NEW x \in Prompts, NEW d \in Prompts PROVE Orderly(proc'[x], d)
    OBVIOUS
  <2>1. Orderly(proc[x], d)
    BY DEF TurnInv, HeardInv
  <2>2. CASE d # c
    BY <1>1, <2>1, <2>2 DEF Orderly
  <2>3. CASE d = c
    BY <1>1, <1>2, <2>1, <2>3 DEF Orderly, Heard, Knows
  <2> QED BY <2>2, <2>3
<1>5. HeardInv'
  BY <1>2, <1>3, <1>4 DEF TurnInv, HeardInv, Unsent
<1>6. SteerInv'
  BY <1>1 DEF TurnInv, SteerInv
<1>7. ~h'.slipped => (EndedInv /\ ClosingInv /\ EchoInv)'
  <2> SUFFICES ASSUME ~h'.slipped PROVE (EndedInv /\ ClosingInv /\ EchoInv)'
    OBVIOUS
  <2>1. EndedInv /\ EchoInv /\ h' = h /\ s.turn = c /\ \A x \in Prompts : loop[x] # "settled"
    BY DEF TurnInv
  <2>2. \A d \in Prompts : d # c /\ Quiet(d) => Quiet(d)'
    BY <1>1 DEF Quiet
  <2>3. h.ended \subseteq Prompts
    BY DEF IInv, Typed, HistoryTyped, IsHistory
  <2>4. EndedInv'
    BY <2>1, <2>2, <2>3 DEF EndedInv
  <2>5. ClosingInv' /\ EchoInv'
    BY <2>1 DEF ClosingInv, EchoInv, Excused
  <2> QED BY <2>4, <2>5
<1> QED BY <1>5, <1>6, <1>7 DEF TurnInv

LEMMA RunningTurn ==
  ASSUME IInv, TurnInv, NEW c \in Prompts, Running(c)
  PROVE  TurnInv'
<1> DEFINE q == [call[c] EXCEPT !.pc = "asking", !.p = s.proc]
           p == s.proc
<1>1. /\ call[c].pc = "claimed" /\ p \in Prompts /\ call' = [call EXCEPT ![c] = q]
      /\ UNCHANGED <<s, loop, h>> /\ Asked(p, c, "prompt")
  BY SessionIs, AskedStep DEF Running, Nobody
<1>2. q.pc = "asking" /\ q.p = p
  BY SessionIs DEF Calls
<1> HIDE DEF q
<1>3. call'[c].pc = "asking" /\ call'[c].p = p /\ \A d \in Prompts \ {c} : call'[d] = call[d]
  BY <1>1, <1>2, SessionIs
<1>4. ~h'.slipped => ~h.slipped /\ s.turn = c /\ \A x \in Prompts : loop[x] # "settled"
  BY <1>1 DEF IInv, CleanInv, EarlyInv, SettleInv, Early
<1> QED BY <1>1, <1>3, <1>4, WrittenTurn

LEMMA StartedTurn ==
  ASSUME IInv, StateInv, TurnInv, NEW c \in Prompts, Started(c)
  PROVE  TurnInv'
<1> DEFINE q == [call[c] EXCEPT !.pc = "asking", !.answered = FALSE]
<1>1. /\ call[c].pc = "handshake" /\ call' = [call EXCEPT ![c] = q]
      /\ s' = [s EXCEPT !.state = "idle"]
      /\ Note(h, s.turn # c) /\ UNCHANGED loop /\ Asked(c, c, "prompt")
  BY AskedStep DEF Started
<1>2. q.pc = "asking" /\ q.p = call[c].p
  BY SessionIs DEF Calls
<1> HIDE DEF q
<1>3. call'[c].pc = "asking" /\ call'[c].p = c /\ \A d \in Prompts \ {c} : call'[d] = call[d]
  BY <1>1, <1>2, SessionIs DEF StateInv, AskInv
<1>4. s'.turn = s.turn /\ s'.echoed = s.echoed
  BY <1>1, SessionIs DEF Sessions
<1>5. ~h'.slipped => ~h.slipped /\ h' = h /\ s.turn = c
  BY <1>1, NoteDoes
<1>6. ~h'.slipped => \A x \in Prompts : loop[x] # "settled"
  BY <1>1, <1>5 DEF TurnInv, ClosingInv
<1> QED BY <1>1, <1>3, <1>4, <1>5, <1>6, WrittenTurn

-----------------------------------------------------------------------------
(* What pi says of a run.                                                  *)

\* A process is told nothing and says nothing of a turn it did not hear of.
LEMMA SpokeTurn ==
  ASSUME IInv, IInv', StateInv', TurnInv, NEW p \in Prompts, NEW inbox, NEW run, NEW open,
         NEW lines, Spoke(p, inbox, run, open, lines), UNCHANGED <<s, call, loop>>,
         \A c \in Prompts : /\ Heard(proc'[p], c) => Heard(proc[p], c)
                            /\ Orderly(proc'[p], c)
                            /\ <<"prompt", c>> \in proc'[p].inbox \/ proc'[p].run = c
                               \/ Shows(proc'[p].pipe, c) =>
                                 <<"prompt", c>> \in proc[p].inbox \/ proc[p].run = c
                                 \/ Shows(proc[p].pipe, c)
                            /\ s.turn = c /\ ~s.echoed =>
                                 /\ proc'[p].run = c => Has(proc'[p].pipe, <<"user", c>>)
                                 /\ Precedes(proc'[p].pipe, <<"user", c>>, <<"steer", c>>),
         ~h'.slipped => ~h.slipped /\ h'.ended = h.ended /\ h'.echo = h.echo
  PROVE  TurnInv'
<1>1. \A x \in Prompts \ {p} : proc'[x] = proc[x]
  BY DEF Spoke
<1>2. \A c \in Prompts : CallGoes(c)
  BY DEF CallGoes
<1>3. HeardInv'
  <2>1. \A x, c \in Prompts : (Heard(proc'[x], c) => Heard(proc[x], c)) /\ Orderly(proc'[x], c)
    BY <1>1 DEF TurnInv, HeardInv
  <2> QED BY <1>2, <2>1, HeardKept DEF TurnInv
<1>4. SteerInv'
  BY <1>1 DEF TurnInv, SteerInv
<1>5. QuietStays
  BY <1>1 DEF QuietStays, Quiet
<1>6. ~h'.slipped => (EndedInv /\ ClosingInv /\ EchoInv)'
  BY <1>2, <1>5, TidyKept DEF TurnInv
<1> QED BY <1>3, <1>4, <1>6 DEF TurnInv

LEMMA PiTakesTurn ==
  ASSUME IInv, IInv', StateInv', TurnInv, NEW p \in Prompts, NEW m \in proc[p].inbox, PiTakes(p, m)
  PROVE  TurnInv'
<1> DEFINE inbox == proc[p].inbox \ {m}
<1>1. PICK c \in Prompts : c = m[2]
  BY PiTakesIs
<1>2. UNCHANGED <<s, call, loop, h>> /\ inbox \subseteq proc[p].inbox
  BY PiTakesIs
<1>3. proc[p].pipe \in Seq(Lines)
  BY GoodProcess DEF Processes
<1>4. CASE Spoke(p, inbox, proc[p].run, proc[p].open, <<Verdict(c)>>)
  <2>1. Verdict(c) \in Lines /\ Plain(Verdict(c))
    BY DEF Lines, Verdict, Plain
  <2>2. \A x \in Prompts : Mute(x) /\ Follows(x)
    BY <1>2, <1>4, <2>1, MuteSpoke
  <2> QED BY <1>2, <2>2, MuteTurn DEF CallGoes
<1>5. ASSUME m = <<"prompt", c>>, NEW lines, Begins(c, lines), Spoke(p, inbox, c, proc[p].open, lines)
      PROVE  TurnInv'
  <2>1. lines \in Seq(Lines)
        /\ \A line : Has(lines, line) <=> line \in {Verdict(c), <<"agent_start">>, User(c)}
    BY <1>5, BeginLines
  <2>2. /\ proc'[p].inbox = inbox /\ proc'[p].run = c /\ proc'[p].pipe = proc[p].pipe \o lines
    BY <1>5 DEF Spoke
  <2>3. \A d \in Prompts : /\ ~Has(lines, <<"agent_settled", d>>) /\ ~Has(lines, <<"steer", d>>)
                           /\ Has(lines, <<"user", d>>) <=> d = c
    BY <2>1 DEF Verdict, User
  <2>4. \A line : Has(proc'[p].pipe, line) <=> Has(proc[p].pipe, line) \/ Has(lines, line)
    BY <1>3, <2>1, <2>2, HasAppended
  <2>5. \A q, d : Settles(q.pipe, d) <=> Has(q.pipe, <<"agent_settled", d>>)
    BY DEF Settles, Has
  <2>6. /\ <<"prompt", c>> \in proc[p].inbox /\ Orderly(proc[p], c)
        /\ ~Has(proc[p].pipe, <<"agent_settled", c>>) /\ ~Shows(proc[p].pipe, c)
    BY <1>5, <2>5 DEF TurnInv, HeardInv, Orderly
  <2>7. ASSUME NEW d \in Prompts
        PROVE  /\ Heard(proc'[p], d) => Heard(proc[p], d)
               /\ Orderly(proc'[p], d)
               /\ <<"prompt", d>> \in proc'[p].inbox \/ proc'[p].run = d
                  \/ Shows(proc'[p].pipe, d) =>
                    <<"prompt", d>> \in proc[p].inbox \/ proc[p].run = d
                    \/ Shows(proc[p].pipe, d)
               /\ s.turn = d /\ ~s.echoed =>
                    /\ proc'[p].run = d => Has(proc'[p].pipe, <<"user", d>>)
                    /\ Precedes(proc'[p].pipe, <<"user", d>>, <<"steer", d>>)
    <3>1. Shows(proc'[p].pipe, d) => Shows(proc[p].pipe, d) \/ d = c
      BY <2>3, <2>4 DEF Shows
    <3>2. Settles(proc'[p].pipe, d) => Settles(proc[p].pipe, d)
      BY <2>3, <2>4, <2>5
    <3>3. Orderly(proc'[p], d)
      <4>1. Orderly(proc[p], d)
        BY DEF TurnInv, HeardInv
      <4>2. /\ NotAfter(lines, <<"agent_settled", d>>, <<"user", d>>)
            /\ NotAfter(lines, <<"agent_settled", d>>, <<"steer", d>>)
        BY <2>3 DEF NotAfter, Has
      <4>3. d = c => ~Has(proc[p].pipe, <<"agent_settled", d>>)
        BY <2>6
      <4>4. /\ NotAfter(proc'[p].pipe, <<"agent_settled", d>>, <<"user", d>>)
            /\ NotAfter(proc'[p].pipe, <<"agent_settled", d>>, <<"steer", d>>)
        BY <1>3, <2>1, <2>2, <2>3, <4>1, <4>2, <4>3, NotAfterAppended DEF Orderly
      <4>5. CASE d = c
        <5>1. ~Settles(proc'[p].pipe, c) /\ <<"prompt", c>> \notin proc'[p].inbox
          BY <1>5, <2>2, <2>5, <2>6, <3>2, <4>5
        <5> QED BY <4>4, <4>5, <5>1 DEF Orderly
      <4>6. CASE d # c
        BY <2>2, <3>1, <3>2, <4>1, <4>4, <4>6 DEF Orderly
      <4> QED BY <4>5, <4>6
    <3>4. Heard(proc'[p], d) => Heard(proc[p], d)
      BY <2>2, <2>6, <3>1, <3>2 DEF Heard, Knows
    <3>5. ASSUME Precedes(proc[p].pipe, <<"user", d>>, <<"steer", d>>)
          PROVE  Precedes(proc'[p].pipe, <<"user", d>>, <<"steer", d>>)
      <4>1. ~Has(lines, <<"steer", d>>)
        BY <2>3
      <4>2. Precedes(proc[p].pipe \o lines, <<"user", d>>, <<"steer", d>>)
        BY <1>3, <2>1, <3>5, <4>1, PrecedesAppended
      <4> QED BY <2>2, <4>2
    <3>6. s.turn = d /\ ~s.echoed => Precedes(proc'[p].pipe, <<"user", d>>, <<"steer", d>>)
      BY <3>5 DEF TurnInv, SteerInv
    <3>7. proc'[p].run = d => Has(proc'[p].pipe, <<"user", d>>)
      BY <2>2, <2>3, <2>4
    <3>8. <<"prompt", d>> \in proc'[p].inbox \/ proc'[p].run = d \/ Shows(proc'[p].pipe, d) =>
            <<"prompt", d>> \in proc[p].inbox \/ proc[p].run = d \/ Shows(proc[p].pipe, d)
      BY <2>2, <2>6, <3>1
    <3> QED BY <3>3, <3>4, <3>6, <3>7, <3>8
  <2> QED BY <1>2, <1>5, <2>7, SpokeTurn
<1> QED BY <1>1, <1>4, <1>5, PiTakesIs

\* A message the owner sends into the run follows the prompt of the run.
LEMMA SteerTurn ==
  ASSUME IInv, IInv', StateInv', TurnInv, NEW p \in Prompts, Steer(p)
  PROVE  TurnInv'
<1> DEFINE run == proc[p].run
           line == <<"steer", run>>
           lines == <<line>>
<1>1. /\ run \in Prompts \cup {Extension} /\ UNCHANGED <<s, call, loop>>
      /\ Note([h EXCEPT !.drove = h.drove + 1], FALSE)
      /\ Spoke(p, proc[p].inbox, run, proc[p].open, lines)
  BY SteerIs
<1>2. line \in Lines
  BY <1>1 DEF Lines
<1>3. /\ lines \in Seq(Lines) /\ \A l : Has(lines, l) <=> l = line
      /\ \A a, b : NotAfter(lines, a, b)
  BY <1>2, OneLine
<1>4. \A d \in Prompts : /\ ~Has(lines, <<"agent_settled", d>>) /\ ~Has(lines, <<"user", d>>)
                         /\ Has(lines, <<"steer", d>>) <=> d = run
  BY <1>3
<1> HIDE DEF line, lines
<1>5. /\ proc'[p].inbox = proc[p].inbox /\ proc'[p].run = run
      /\ proc'[p].pipe = proc[p].pipe \o lines /\ proc[p].pipe \in Seq(Lines)
  BY <1>1, GoodProcess DEF Spoke, Processes
<1>6. \A l : Has(proc'[p].pipe, l) <=> Has(proc[p].pipe, l) \/ Has(lines, l)
  BY <1>3, <1>5, HasAppended
<1>7. \A q, d : Settles(q.pipe, d) <=> Has(q.pipe, <<"agent_settled", d>>)
  BY DEF Settles, Has
<1>8. ASSUME NEW d \in Prompts
      PROVE  /\ Heard(proc'[p], d) => Heard(proc[p], d)
             /\ Orderly(proc'[p], d)
             /\ <<"prompt", d>> \in proc'[p].inbox \/ proc'[p].run = d
                \/ Shows(proc'[p].pipe, d) =>
                  <<"prompt", d>> \in proc[p].inbox \/ proc[p].run = d
                  \/ Shows(proc[p].pipe, d)
             /\ s.turn = d /\ ~s.echoed =>
                  /\ proc'[p].run = d => Has(proc'[p].pipe, <<"user", d>>)
                  /\ Precedes(proc'[p].pipe, <<"user", d>>, <<"steer", d>>)
  <2>1. Shows(proc'[p].pipe, d) => Shows(proc[p].pipe, d) \/ d = run
    BY <1>4, <1>6 DEF Shows
  <2>2. Settles(proc'[p].pipe, d) <=> Settles(proc[p].pipe, d)
    BY <1>4, <1>6, <1>7
  <2>3. Orderly(proc'[p], d)
    <3>1. Orderly(proc[p], d)
      BY DEF TurnInv, HeardInv
    <3>2. d = run => ~Has(proc[p].pipe, <<"agent_settled", d>>)
      BY <1>7, <3>1 DEF Orderly
    <3>3. /\ NotAfter(proc'[p].pipe, <<"agent_settled", d>>, <<"user", d>>)
          /\ NotAfter(proc'[p].pipe, <<"agent_settled", d>>, <<"steer", d>>)
      BY <1>3, <1>4, <1>5, <3>1, <3>2, NotAfterAppended DEF Orderly
    <3> QED BY <1>5, <2>1, <2>2, <3>1, <3>3 DEF Orderly
  <2>4. Heard(proc'[p], d) => Heard(proc[p], d)
    BY <1>5, <2>1, <2>2 DEF Heard, Knows
  <2>5. ASSUME s.turn = d, ~s.echoed
        PROVE  /\ proc'[p].run = d => Has(proc'[p].pipe, <<"user", d>>)
               /\ Precedes(proc'[p].pipe, <<"user", d>>, <<"steer", d>>)
    <3>1. /\ run = d => Has(proc[p].pipe, <<"user", d>>)
          /\ Precedes(proc[p].pipe, <<"user", d>>, <<"steer", d>>)
      BY <2>5 DEF TurnInv, SteerInv
    <3>2. Precedes(proc'[p].pipe, <<"user", d>>, <<"steer", d>>)
      BY <1>3, <1>4, <1>5, <3>1, PrecedesAppended
    <3> QED BY <1>5, <1>6, <3>1, <3>2
  <2> QED BY <1>5, <2>1, <2>3, <2>4, <2>5
<1>9. ~h'.slipped => ~h.slipped /\ h'.ended = h.ended /\ h'.echo = h.echo
  BY <1>1, CountDoes
<1> QED BY <1>1, <1>8, <1>9, SpokeTurn

LEMMA PiSettlesTurn ==
  ASSUME IInv, IInv', StateInv', TurnInv, NEW p \in Prompts, PiSettles(p)
  PROVE  TurnInv'
<1> DEFINE run == proc[p].run
           line == <<"agent_settled", run>>
           lines == <<line>>
<1>1. /\ run \in Prompts \cup {Extension} /\ UNCHANGED <<s, call, loop, h>>
      /\ Spoke(p, proc[p].inbox, None, proc[p].open, lines)
  BY PiSettlesIs
<1>2. line \in Lines
  BY <1>1 DEF Lines
<1>3. /\ lines \in Seq(Lines) /\ \A l : Has(lines, l) <=> l = line
      /\ \A a, b : NotAfter(lines, a, b)
  BY <1>2, OneLine
<1>4. \A d \in Prompts : /\ ~Has(lines, <<"user", d>>) /\ ~Has(lines, <<"steer", d>>)
                         /\ Has(lines, <<"agent_settled", d>>) <=> d = run
  BY <1>3
<1> HIDE DEF line, lines
<1>5. /\ proc'[p].inbox = proc[p].inbox /\ proc'[p].run = None
      /\ proc'[p].pipe = proc[p].pipe \o lines /\ proc[p].pipe \in Seq(Lines)
  BY <1>1, GoodProcess DEF Spoke, Processes
<1>6. \A l : Has(proc'[p].pipe, l) <=> Has(proc[p].pipe, l) \/ Has(lines, l)
  BY <1>3, <1>5, HasAppended
<1>7. \A q, d : Settles(q.pipe, d) <=> Has(q.pipe, <<"agent_settled", d>>)
  BY DEF Settles, Has
<1>8. ASSUME NEW d \in Prompts
      PROVE  /\ Heard(proc'[p], d) => Heard(proc[p], d)
             /\ Orderly(proc'[p], d)
             /\ <<"prompt", d>> \in proc'[p].inbox \/ proc'[p].run = d
                \/ Shows(proc'[p].pipe, d) =>
                  <<"prompt", d>> \in proc[p].inbox \/ proc[p].run = d
                  \/ Shows(proc[p].pipe, d)
             /\ s.turn = d /\ ~s.echoed =>
                  /\ proc'[p].run = d => Has(proc'[p].pipe, <<"user", d>>)
                  /\ Precedes(proc'[p].pipe, <<"user", d>>, <<"steer", d>>)
  <2>1. Shows(proc'[p].pipe, d) <=> Shows(proc[p].pipe, d)
    BY <1>4, <1>6 DEF Shows
  <2>2. Settles(proc'[p].pipe, d) => Settles(proc[p].pipe, d) \/ d = run
    BY <1>4, <1>6, <1>7
  <2>3. Orderly(proc'[p], d)
    <3>1. Orderly(proc[p], d)
      BY DEF TurnInv, HeardInv
    <3>2. /\ NotAfter(proc'[p].pipe, <<"agent_settled", d>>, <<"user", d>>)
          /\ NotAfter(proc'[p].pipe, <<"agent_settled", d>>, <<"steer", d>>)
      BY <1>3, <1>4, <1>5, <3>1, NotAfterAppended DEF Orderly
    <3> QED BY <1>5, <2>1, <2>2, <3>1, <3>2, NoneIsNoPrompt DEF Orderly
  <2>4. Heard(proc'[p], d) => Heard(proc[p], d)
    BY <1>5, <2>1, <2>2, NoneIsNoPrompt DEF Heard, Knows
  <2>5. Precedes(proc[p].pipe, <<"user", d>>, <<"steer", d>>) =>
          Precedes(proc'[p].pipe, <<"user", d>>, <<"steer", d>>)
    BY <1>3, <1>4, <1>5, PrecedesAppended
  <2> QED BY <1>5, <2>1, <2>3, <2>4, <2>5, NoneIsNoPrompt DEF TurnInv, SteerInv
<1> QED BY <1>1, <1>8, SpokeTurn

-----------------------------------------------------------------------------
(* A turn is shown, and ends.                                              *)

\* What is read of another prompt's run outside the mishaps: that prompt failed.
LEMMA ReadOfTheTurn ==
  ASSUME IInv, TurnInv, ~h.slipped, NEW p \in Prompts, NEW c \in Prompts,
         Shows(proc[p].pipe, c), s.turn # c
  PROVE  call[c].pc = "failed"
<1>1. call[c].pc \notin Unsent \cup {"stopping"}
  BY DEF TurnInv, HeardInv, Heard
<1>2. call[c].pc \in PromptSteps
  BY SessionIs DEF Calls
<1>3. call[c].pc \in {"asking", "returned"} => c \in h.ended
  BY DEF IInv, CleanInv, ToldInv
<1>4. c \in h.ended => call[c].pc = "failed"
  BY DEF TurnInv, EndedInv, Quiet
<1> QED BY <1>1, <1>2, <1>3, <1>4 DEF PromptSteps, Unsent

LEMMA onMessageEndTurn ==
  ASSUME IInv, IInv', StateInv', TurnInv, NEW p \in Prompts, onMessageEnd(p)
  PROVE  TurnInv'
<1> DEFINE line == Line(p)
           echo == h.echo \cup {<<s.turn, line>>}
           g == [h EXCEPT !.echo = echo]
<1>1. /\ Took(p) /\ line[1] \in {"user", "steer"} /\ line \in Lines /\ Has(proc[p].pipe, line)
      /\ line = Head(proc[p].pipe) /\ proc[p].pipe # <<>> /\ proc[p].pipe \in Seq(Lines)
      /\ s' = [s EXCEPT !.echoed = TRUE] /\ UNCHANGED <<call, loop>>
      /\ IF s.echoed \/ s.turn = None THEN UNCHANGED h ELSE Note(g, FALSE)
  <2>1. /\ HasLine(p, "user") \/ HasLine(p, "steer")
        /\ proc' = Rest(p) /\ s' = [s EXCEPT !.echoed = TRUE] /\ UNCHANGED <<call, loop>>
        /\ IF s.echoed \/ s.turn = None THEN UNCHANGED h ELSE Note(g, FALSE)
    BY DEF onMessageEnd, UserMessage
  <2>2. Took(p) /\ line[1] \in {"user", "steer"}
    BY <2>1, TookLine DEF HasLine
  <2>3. /\ line \in Lines /\ line = Head(proc[p].pipe)
        /\ proc[p].pipe # <<>> /\ proc[p].pipe \in Seq(Lines)
    BY <2>2, LineTyped DEF Took, Line
  <2>4. Has(proc[p].pipe, line)
    BY <2>3, HasRest
  <2> QED BY <2>1, <2>2, <2>3, <2>4
<1>2. s'.turn = s.turn /\ s'.echoed
  BY <1>1, SessionIs DEF Sessions
<1>3. \A x \in Prompts : Mute(x)
  BY <1>1, MuteTook
<1>4. CASE UNCHANGED h
  BY <1>1, <1>2, <1>3, <1>4, MuteTurn DEF CallGoes
<1>5. CASE ~s.echoed /\ s.turn # None
  <2>1. s.turn \in Prompts /\ Note(g, FALSE)
    BY <1>1, <1>5, SessionIs DEF Nobody
  <2>2. g.slipped = h.slipped /\ g.ended = h.ended /\ g.echo = echo
    <3>1. h = [ended |-> h.ended, answered |-> h.answered, twice |-> h.twice, echo |-> h.echo,
               asked |-> h.asked, drove |-> h.drove, slipped |-> h.slipped]
      BY DEF IInv, Typed, HistoryTyped, IsHistory
    <3>2. "echo" \in DOMAIN h
      BY <3>1
    <3> QED BY <3>2
  <2> HIDE DEF g
  <2>3. ~h'.slipped => ~h.slipped /\ h'.ended = h.ended /\ h'.echo = echo
    BY <2>1, <2>2, NoteDoes
  <2>4. HeardInv' /\ SteerInv'
    <3>1. \A c \in Prompts : CallGoes(c)
      BY <1>1 DEF CallGoes
    <3>2. HeardInv'
      BY <1>3, <3>1, MuteHeard, HeardKept DEF TurnInv, HeardInv
    <3> QED BY <1>2, <3>2 DEF SteerInv
  <2>5. ASSUME ~h'.slipped PROVE (EndedInv /\ ClosingInv /\ EchoInv)'
    <3>1. QuietStays /\ EndedInv /\ ClosingInv /\ EchoInv
      BY <1>3, <2>3, <2>5, MuteQuiet DEF TurnInv
    <3>2. IsPrompt(line, s.turn) \/ Excused(s.turn, RunOf(line))
      <4>1. CASE line[2] = s.turn
        <5>1. PICK c \in Prompts : c = s.turn
          BY <2>1
        <5>2. line = <<"user", c>> \/ line = <<"steer", c>>
          BY <1>1, <4>1, <5>1 DEF Lines
        <5>3. Precedes(proc[p].pipe, <<"user", c>>, <<"steer", c>>)
          BY <1>5, <5>1 DEF TurnInv, SteerInv
        <5>4. line = <<"user", c>>
          BY <1>1, <5>2, <5>3, PrecedesRest
        <5> QED BY <5>1, <5>4 DEF IsPrompt
      <4>2. CASE line[2] # s.turn /\ line[2] \in Prompts
        <5>1. PICK d \in Prompts : d = line[2]
          BY <4>2
        <5>2. line = <<"user", d>> \/ line = <<"steer", d>>
          BY <1>1, <5>1 DEF Lines
        <5>3. Shows(proc[p].pipe, d)
          BY <1>1, <5>2 DEF Shows
        <5>4. call[d].pc = "failed"
          BY <2>3, <2>5, <4>2, <5>1, <5>3, ReadOfTheTurn
        <5> QED BY <4>2, <5>1, <5>4 DEF Excused, RunOf
      <4>3. CASE line[2] \notin Prompts
        <5>1. line[2] = Extension
          BY <1>1, <4>3 DEF Lines
        <5> QED BY <2>1, <4>3, <5>1 DEF Excused, RunOf
      <4> QED BY <4>1, <4>2, <4>3
    <3>3. EchoInv'
      <4> SUFFICES ASSUME NEW e \in h'.echo PROVE (IsPrompt(e[2], e[1]) \/ Excused(e[1], RunOf(e[2])))'
        BY DEF EchoInv
      <4>1. e \in h.echo \/ e = <<s.turn, line>>
        BY <2>3, <2>5
      <4>2. IsPrompt(e[2], e[1]) \/ Excused(e[1], RunOf(e[2]))
        BY <3>1, <3>2, <4>1 DEF EchoInv
      <4> QED BY <1>1, <4>2 DEF IsPrompt, Excused, RunOf
    <3>4. EndedInv' /\ ClosingInv'
      <4>1. h.ended \subseteq Prompts
        BY DEF IInv, Typed, HistoryTyped, IsHistory
      <4> QED BY <1>1, <1>2, <2>3, <2>5, <3>1, <4>1 DEF EndedInv, ClosingInv, QuietStays
    <3> QED BY <3>3, <3>4
  <2> QED BY <2>4, <2>5 DEF TurnInv
<1> QED BY <1>1, <1>4, <1>5

\* Outside the mishaps the turn that is closed is of the run that settled, which
\* said all it had to say.
LEMMA onSettledTurn ==
  ASSUME IInv, IInv', StateInv, StateInv', TurnInv, NEW p \in Prompts, onSettled(p)
  PROVE  TurnInv'
<1> DEFINE mishap == s.turn \notin {Line(p)[2], None} \/ s.proc \notin {None, p}
<1>1. /\ HasLine(p, "agent_settled") /\ Took(p) /\ s' = [s EXCEPT !.pending = {}]
      /\ UNCHANGED call /\ loop'[p] = "settled" /\ \A x \in Prompts \ {p} : loop'[x] = loop[x]
      /\ Note(Answered(s.proc, s.pending), mishap)
  BY TookLine, LoopIs, SessionIs DEF onSettled
<1>2. s'.turn = s.turn /\ s'.echoed = s.echoed
  BY <1>1, SessionIs DEF Sessions
<1>3. \A x \in Prompts : Mute(x) /\ Follows(x)
  BY <1>1, MuteTook DEF HasLine
<1>4. ~h'.slipped => /\ ~h.slipped /\ h'.ended = h.ended /\ h'.echo = h.echo
                     /\ s.turn \in {Line(p)[2], None}
  <2> HIDE DEF mishap
  <2>1. ~h'.slipped => ~h.slipped /\ ~mishap /\ h'.ended = h.ended /\ h'.echo = h.echo
    BY <1>1, AnsweredDoes
  <2> QED BY <2>1 DEF mishap
<1>5. HeardInv'
  <2>1. \A c \in Prompts : CallGoes(c)
    BY <1>1 DEF CallGoes
  <2> QED BY <1>3, <2>1, MuteHeard, HeardKept DEF TurnInv, HeardInv
<1>6. SteerInv'
  BY <1>2, <1>3 DEF TurnInv, SteerInv, Follows, Mute
<1>7. ~h'.slipped => (EndedInv /\ ClosingInv /\ EchoInv)'
  <2> SUFFICES ASSUME ~h'.slipped PROVE (EndedInv /\ ClosingInv /\ EchoInv)'
    OBVIOUS
  <2>1. QuietStays /\ EndedInv /\ ClosingInv /\ EchoInv /\ h'.ended = h.ended /\ h'.echo = h.echo
    BY <1>3, <1>4, MuteQuiet DEF TurnInv
  <2>2. EndedInv' /\ EchoInv'
    <3>1. h.ended \subseteq Prompts
      BY DEF IInv, Typed, HistoryTyped, IsHistory
    <3> QED BY <1>1, <1>2, <2>1, <3>1 DEF EndedInv, EchoInv, Excused, QuietStays
  <2>3. ASSUME NEW c \in Prompts, s.turn = c
        PROVE  call[c].pc \in {"asking", "returned"} /\ Quiet(c)'
    <3>1. /\ proc[p].pipe \in Seq(Lines) /\ proc[p].pipe # <<>> /\ proc'[p].pipe = Tail(proc[p].pipe)
          /\ Head(proc[p].pipe) = <<"agent_settled", c>> /\ Settles(proc[p].pipe, c)
      <4>1. Line(p)[2] = c /\ Line(p)[1] = "agent_settled"
        BY <1>1, <1>4, <2>3, NoneIsNoPrompt DEF HasLine
      <4>2. /\ proc[p].pipe \in Seq(Lines) /\ proc[p].pipe # <<>> /\ proc'[p].pipe = Tail(proc[p].pipe)
            /\ Line(p) \in Lines /\ Line(p) = Head(proc[p].pipe) /\ Settles(proc[p].pipe, c)
        BY <1>1, <4>1, LineTyped DEF Took, Line
      <4> QED BY <4>1, <4>2 DEF Lines
    <3>2. Heard(proc[p], c) /\ Orderly(proc[p], c)
      BY <3>1 DEF Heard, Knows, TurnInv, HeardInv
    <3>3. call[c].pc \in {"asking", "returned"}
      <4>1. call[c].pc \notin Unsent \cup {"stopping"} /\ call[c].pc # "failed"
        BY <2>3, <3>2 DEF TurnInv, HeardInv, StateInv, LifeInv
      <4>2. call[c].pc \in PromptSteps
        BY SessionIs DEF Calls
      <4> QED BY <4>1, <4>2 DEF PromptSteps, Unsent
    <3>4. \A x \in Prompts \ {p} : ~Heard(proc[x], c)
      BY <3>2, <3>3 DEF TurnInv, HeardInv
    <3>5. \A x \in Prompts \ {p} : <<"prompt", c>> \notin proc'[x].inbox /\ proc'[x].run # c
                                   /\ ~Shows(proc'[x].pipe, c)
      BY <1>1, <3>4 DEF Heard, Knows, Took, Keeps
    <3>6. <<"prompt", c>> \notin proc'[p].inbox /\ proc'[p].run # c
      BY <1>1, <3>1, <3>2 DEF Orderly, Took, Keeps
    <3>7. ~Shows(proc'[p].pipe, c)
      BY <3>1, <3>2, NotAfterRest DEF Orderly, Shows
    <3> QED BY <3>3, <3>5, <3>6, <3>7 DEF Quiet
  <2>4. ClosingInv'
    BY <1>1, <1>2, <2>3 DEF ClosingInv
  <2> QED BY <2>2, <2>4
<1> QED BY <1>5, <1>6, <1>7 DEF TurnInv

\* The turn ends, by what it is told of it nothing more is to come.
LEMMA EndedTurn ==
  ASSUME IInv, TurnInv, Calm, UNCHANGED call, s'.turn = None,
         ~h'.slipped => /\ ~h.slipped /\ h'.ended = h.ended \cup ({s.turn} \ {None}) /\ h'.echo = h.echo
                        /\ \A c \in Prompts : s.turn = c => call[c].pc \notin Early \cup {"new"} /\ Quiet(c)
  PROVE  TurnInv'
<1>1. HeardInv' /\ QuietStays
  BY CalmHeard DEF TurnInv, CallMoves
<1>2. SteerInv' /\ ClosingInv'
  BY NoneIsNoPrompt DEF SteerInv, ClosingInv
<1>3. ~h'.slipped => EndedInv' /\ EchoInv'
  <2> SUFFICES ASSUME ~h'.slipped PROVE EndedInv' /\ EchoInv'
    OBVIOUS
  <2>1. h.ended \subseteq Prompts /\ s.turn \in Nobody
    BY SessionIs DEF IInv, Typed, HistoryTyped, IsHistory
  <2>2. EndedInv'
    <3> SUFFICES ASSUME NEW c \in h'.ended
                 PROVE  call[c].pc \notin Early \cup {"new"} /\ c # None
                        /\ (call[c].pc = "failed" \/ Quiet(c)')
      BY DEF EndedInv
    <3>1. CASE c \in h.ended
      BY <1>1, <2>1, <3>1, NoneIsNoPrompt DEF TurnInv, EndedInv, QuietStays
    <3>2. CASE c = s.turn /\ c # None
      BY <1>1, <2>1, <3>2 DEF Nobody, QuietStays
    <3> QED BY <3>1, <3>2
  <2>3. EchoInv'
    BY DEF TurnInv, EchoInv, Excused
  <2> QED BY <2>2, <2>3
<1> QED BY <1>1, <1>2, <1>3 DEF TurnInv

LEMMA SettledClosesTurn ==
  ASSUME IInv, TurnInv, NEW p \in Prompts, SettledCloses(p)
  PROVE  TurnInv'
<1> DEFINE ended == h.ended \cup ({s.turn} \ {None})
           g == [h EXCEPT !.ended = ended]
<1>1. /\ loop[p] = "settled" /\ Calm /\ UNCHANGED call
      /\ s' = [s EXCEPT !.turn = None, !.running = FALSE] /\ Note(g, FALSE)
  BY CalmSteps DEF SettledCloses, Settled
<1>2. s'.turn = None
  BY <1>1, SessionIs DEF Sessions
<1>3. ended \in SUBSET Prompts /\ IsHistory(h)
  BY SessionIs DEF IInv, Typed, HistoryTyped, IsHistory, Nobody
<1> HIDE DEF ended
<1>4. g.slipped = h.slipped /\ g.ended = ended /\ g.echo = h.echo
  BY <1>3, HistoryEnds
<1> HIDE DEF g
<1>5. ~h'.slipped => ~h.slipped /\ h'.ended = ended /\ h'.echo = h.echo
  BY <1>1, <1>4, NoteDoes
<1>6. ~h.slipped => \A c \in Prompts : s.turn = c => call[c].pc \notin Early \cup {"new"} /\ Quiet(c)
  BY <1>1 DEF TurnInv, ClosingInv, Early
<1> QED BY <1>1, <1>2, <1>5, <1>6, EndedTurn DEF ended

\* A process that is gone has told all of its turn, and no other process has it.
LEMMA onExitTurn ==
  ASSUME IInv, StateInv, TurnInv, NEW p \in Prompts, onExit(p)
  PROVE  TurnInv'
<1> DEFINE mishap == (s.turn # None /\ call[s.turn].p # p) \/ s.proc \notin {None, p}
           ended == h.ended \cup ({s.turn} \ {None})
           g == [h EXCEPT !.ended = ended]
<1>1. /\ loop[p] = "closed" /\ Calm /\ UNCHANGED call
      /\ s' = [s EXCEPT !.turn = None, !.running = FALSE, !.proc = None] /\ Note(g, mishap)
  BY CalmSteps DEF onExit, Settled
<1>2. s'.turn = None
  BY <1>1, SessionIs DEF Sessions
<1>3. ended \in SUBSET Prompts /\ IsHistory(h)
  BY SessionIs DEF IInv, Typed, HistoryTyped, IsHistory, Nobody
<1>4. ~h'.slipped => /\ ~h.slipped /\ h'.ended = ended /\ h'.echo = h.echo
                     /\ \A c \in Prompts : s.turn = c => call[c].p = p
  <2> HIDE DEF mishap, ended
  <2>1. g.slipped = h.slipped /\ g.ended = ended /\ g.echo = h.echo
    BY <1>3, HistoryEnds
  <2> HIDE DEF g
  <2>2. ~h'.slipped => ~h.slipped /\ h' = g /\ ~mishap
    BY <1>1, <2>1, NoteDoes
  <2> QED BY <2>1, <2>2, NoneIsNoPrompt DEF mishap
<1>5. ASSUME NEW c \in Prompts, s.turn = c, call[c].p = p
      PROVE  call[c].pc \notin Early \cup {"new"} /\ Quiet(c)
  <2>1. call[c].pc \notin Early \cup {"new", "failed"}
    BY <1>5, NoneIsNoPrompt DEF IInv, PlaceInv, StateInv, LifeInv
  <2>2. <<"prompt", c>> \notin proc[p].inbox /\ proc[p].run # c /\ ~Shows(proc[p].pipe, c)
    <3>1. ~proc[p].alive /\ proc[p].pipe = <<>>
      BY <1>1 DEF IInv, DeadInv, StateInv, LifeInv, Done
    <3>2. proc[p].inbox = {} /\ proc[p].run = None
      BY <3>1 DEF StateInv, LifeInv
    <3> QED BY <3>1, <3>2, NoneIsNoPrompt DEF Shows, Has
  <2>3. call[c].pc \in PromptSteps
    BY SessionIs DEF Calls
  <2>4. \A x \in Prompts \ {p} : ~Heard(proc[x], c)
    BY <1>5, <2>1, <2>3 DEF TurnInv, HeardInv, PromptSteps, Unsent, Early
  <2>5. \A x \in Prompts \ {p} : <<"prompt", c>> \notin proc[x].inbox /\ proc[x].run # c
                                 /\ ~Shows(proc[x].pipe, c)
    BY <2>4 DEF Heard, Knows
  <2> QED BY <2>1, <2>2, <2>5 DEF Quiet
<1> QED BY <1>1, <1>2, <1>4, <1>5, EndedTurn

-----------------------------------------------------------------------------
(* All steps.                                                              *)

LEMMA InitTurn == Init => TurnInv
<1> SUFFICES ASSUME Init PROVE TurnInv
  OBVIOUS
<1>1. /\ s.turn = None /\ h.ended = {} /\ h.echo = {} /\ \A p \in Prompts : loop[p] = "none"
      /\ \A p \in Prompts : proc[p].inbox = {} /\ proc[p].pipe = <<>> /\ proc[p].run = None
  BY DEF Init, NoProcess, NoHistory
<1>2. \A c, p \in Prompts : ~Heard(proc[p], c) /\ Orderly(proc[p], c)
  BY <1>1, NoneIsNoPrompt DEF Heard, Orderly, Knows, Shows, Has, Settles, NotAfter
<1>3. HeardInv /\ SteerInv
  BY <1>1, <1>2, NoneIsNoPrompt DEF HeardInv, SteerInv
<1>4. EndedInv /\ ClosingInv /\ EchoInv
  BY <1>1 DEF EndedInv, ClosingInv, EchoInv
<1> QED BY <1>3, <1>4 DEF TurnInv

LEMMA NextTurn == IInv /\ StateInv /\ TurnInv /\ [Next]_vars => TurnInv'
<1> SUFFICES ASSUME IInv, StateInv, TurnInv, [Next]_vars PROVE TurnInv'
  OBVIOUS
<1>1. IInv' /\ StateInv'
  BY NextIInv, NextState
<1>2. ASSUME NEW c \in Prompts, Busy(c) \/ Claim(c) \/ PromptStep(c) PROVE TurnInv'
  BY <1>1, <1>2, PromptTurn, ClaimTurn, RunningTurn, LaunchTurn, HandshakeTurn, StartedTurn DEF PromptStep
<1>3. ASSUME NEW p \in Prompts, LoopStep(p) PROVE TurnInv'
  BY <1>1, <1>3, ReadTurn, onMessageEndTurn, LoopTurn, onSettledTurn, SettledClosesTurn, onExitTurn
     DEF LoopStep
<1>4. CASE \/ Interrupt \/ ReapLooks \/ ReapStops \/ UNCHANGED vars
           \/ \E o \in Owners : Respond(o) \/ \E n \in Asks : RespondTakes(o, n)
  BY <1>1, <1>4, RequestTurn
<1>5. ASSUME NEW p \in Prompts, NEW m \in proc[p].inbox, PiTakes(p, m) PROVE TurnInv'
  BY <1>1, <1>5, PiTakesTurn
<1>6. ASSUME NEW p \in Prompts, PiDrives(p) \/ Steer(p) \/ PiAsks(p) \/ PiSettles(p) \/ PiDies(p)
      PROVE  TurnInv'
  BY <1>1, <1>6, PiTurn, SteerTurn, PiSettlesTurn
<1> QED BY <1>2, <1>3, <1>4, <1>5, <1>6 DEF Next

LEMMA TurnsFollow == IInv /\ TurnInv => TurnsTold
<1> SUFFICES ASSUME IInv, TurnInv PROVE TurnsTold
  OBVIOUS
<1>1. NoTurnIsDropped
  BY DEF IInv, CleanInv, ToldInv, NoTurnIsDropped
<1>2. EchoIsTheOwners
  BY DEF TurnInv, EchoInv, Excused, EchoIsTheOwners
<1> QED BY <1>1, <1>2 DEF TurnsTold

\* An accepted prompt ends with an event, and its turn shows the message that is
\* the owner's prompt, not a steer.
THEOREM TurnsAreTold == Spec => []TurnsTold
<1>1. Init => IInv /\ StateInv /\ TurnInv
  BY InitIInv, InitState, InitTurn
<1>2. IInv /\ StateInv /\ TurnInv /\ [Next]_vars => (IInv /\ StateInv /\ TurnInv)'
  BY NextIInv, NextState, NextTurn
<1> QED BY <1>1, <1>2, TurnsFollow, PTL DEF Spec

-----------------------------------------------------------------------------
(* The dialogs: each waits in one place, and is answered once.             *)

Ask(n) == <<"extension_ui_request", n>>

\* A dialog is new, or unread, or pending, or being answered, or answered.
Placed(n) ==
  /\ n > h.asked => n \notin s.pending \cup h.answered
  /\ n \in h.answered => n \notin s.pending
  /\ \A p \in Prompts : Unread(p, n) =>
       /\ n <= h.asked /\ n \notin s.pending \cup h.answered
       /\ NotAfter(proc[p].pipe, Ask(n), Ask(n))
       /\ \A q \in Prompts : Unread(q, n) => p = q
  /\ \A o \in Owners : Answering(o, n) =>
       /\ n <= h.asked /\ n \notin s.pending \cup h.answered
       /\ \A p \in Prompts : ~Unread(p, n)
       /\ \A x \in Owners : Answering(x, n) => x = o
AskedInv == h.asked \in Nat /\ ~h.twice /\ \A n \in Asks : Placed(n)

DialogsInv == AskedInv /\ (~h.slipped => OpenInv /\ TakenInv)

\* What the processes wait on is what they waited on, and was read as far as it was.
Waits(p) ==
  /\ proc'[p].open \subseteq proc[p].open
  /\ proc[p].stopping /\ proc'[p].open # {} => proc'[p].stopping
LinesStay == \A p \in Prompts : \A n \in Asks :
  /\ Unread(p, n)' <=> Unread(p, n)
  /\ NotAfter(proc[p].pipe, Ask(n), Ask(n)) => NotAfter(proc'[p].pipe, Ask(n), Ask(n))
\* No dialog is asked or answered.
AnswersStay ==
  /\ h'.asked = h.asked /\ (~h.twice => ~h'.twice) /\ \A n \in h'.answered : n \in h.answered
  /\ ~h'.slipped => ~h.slipped

LEMMA KeepsPlaced ==
  ASSUME NEW n \in Asks, Placed(n), h.asked \in Nat, h'.asked \in Nat, h'.asked >= h.asked,
         n \in s'.pending => n \in s.pending, n \in h'.answered => n \in h.answered,
         \A p \in Prompts : Unread(p, n)' =>
           /\ Unread(p, n)
           /\ NotAfter(proc[p].pipe, Ask(n), Ask(n)) => NotAfter(proc'[p].pipe, Ask(n), Ask(n)),
         \A o \in Owners : Answering(o, n)' => Answering(o, n)
  PROVE  Placed(n)'
<1>1. n \in Nat /\ (n > h'.asked => n > h.asked) /\ (n <= h.asked => n <= h'.asked)
  BY PiAssumption DEF Asks
<1>2. /\ n > h'.asked => n \notin s'.pending \cup h'.answered
      /\ n \in h'.answered => n \notin s'.pending
  BY <1>1 DEF Placed
<1>3. ASSUME NEW p \in Prompts, Unread(p, n)'
      PROVE  /\ n <= h'.asked /\ n \notin s'.pending \cup h'.answered
             /\ NotAfter(proc'[p].pipe, Ask(n), Ask(n))
             /\ \A q \in Prompts : Unread(q, n)' => p = q
  BY <1>1, <1>3 DEF Placed
<1>4. ASSUME NEW o \in Owners, Answering(o, n)'
      PROVE  /\ n <= h'.asked /\ n \notin s'.pending \cup h'.answered
             /\ \A p \in Prompts : ~Unread(p, n)'
             /\ \A x \in Owners : Answering(x, n)' => x = o
  BY <1>1, <1>4 DEF Placed
<1> QED BY <1>2, <1>3, <1>4 DEF Placed, Ask

\* A dialog that is over waits nowhere.
LEMMA OverIsPlaced ==
  ASSUME NEW n \in Asks, h'.asked \in Nat, n <= h'.asked, n \notin s'.pending,
         \A p \in Prompts : ~Unread(p, n)', \A o \in Owners : ~Answering(o, n)'
  PROVE  Placed(n)'
BY PiAssumption DEF Placed, Asks

\* Nothing happens to the dialogs, but that a process forgets some.
LEMMA StillDialogs ==
  ASSUME IInv, DialogsInv, UNCHANGED respond, s'.pending = s.pending, AnswersStay, LinesStay,
         \A p \in Prompts : Waits(p)
  PROVE  DialogsInv'
<1>1. \A o \in Owners, n \in Asks : Answering(o, n)' <=> Answering(o, n)
  BY DEF Answering
<1>2. ASSUME NEW n \in Asks PROVE Placed(n)'
  BY <1>1, KeepsPlaced DEF DialogsInv, AskedInv, AnswersStay, LinesStay
<1>3. AskedInv'
  BY <1>2 DEF DialogsInv, AskedInv, AnswersStay
<1>4. ~h'.slipped => OpenInv' /\ TakenInv'
  <2> SUFFICES ASSUME ~h'.slipped PROVE OpenInv' /\ TakenInv'
    OBVIOUS
  <2>1. OpenInv /\ TakenInv
    BY DEF DialogsInv, AnswersStay
  <2>2. \A p \in Prompts, n \in Asks : n \in proc'[p].open /\ ~proc'[p].stopping =>
          n \in proc[p].open /\ ~proc[p].stopping
    BY DEF Waits
  <2>3. OpenInv'
    BY <1>1, <2>1, <2>2 DEF OpenInv, LinesStay
  <2>4. TakenInv'
    BY <1>1, <2>1, <2>2 DEF TakenInv
  <2> QED BY <2>3, <2>4
<1> QED BY <1>3, <1>4 DEF DialogsInv

\* A process that waits on an open dialog is the session's.
LEMMA OpenIsActive ==
  ASSUME IInv, StateInv, ~h.slipped, NEW p \in Prompts, proc[p].open # {}, ~proc[p].stopping
  PROVE  s.proc = p
<1>1. proc[p].alive /\ call[p].pc # "launched"
  BY DEF StateInv, LifeInv
<1> QED BY <1>1 DEF IInv, CleanInv, ActiveInv, Active

-----------------------------------------------------------------------------
(* What the steps do to the history and the lines.                         *)

LEMMA NoteStays ==
  ASSUME IInv, NEW g, NEW mishap, Note(g, mishap), g.slipped = h.slipped, g.asked = h.asked,
         g.twice = h.twice, g.answered = h.answered
  PROVE  AnswersStay
BY NoteDoes DEF AnswersStay

LEMMA FieldStays ==
  ASSUME IInv, NEW x
  PROVE  /\ \A mishap : Note(h, mishap) => AnswersStay
         /\ UNCHANGED h => AnswersStay
         /\ Note([h EXCEPT !.drove = x], FALSE) => AnswersStay
         /\ \A mishap : Note([h EXCEPT !.ended = x], mishap) => AnswersStay
         /\ Note([h EXCEPT !.echo = x], FALSE) => AnswersStay
<1>1. h = [ended |-> h.ended, answered |-> h.answered, twice |-> h.twice, echo |-> h.echo,
           asked |-> h.asked, drove |-> h.drove, slipped |-> h.slipped]
  BY DEF IInv, Typed, HistoryTyped, IsHistory
<1> DEFINE f == [h EXCEPT !.drove = x]
           g == [h EXCEPT !.ended = x]
           k == [h EXCEPT !.echo = x]
<1>2. /\ f.slipped = h.slipped /\ f.asked = h.asked /\ f.twice = h.twice /\ f.answered = h.answered
      /\ g.slipped = h.slipped /\ g.asked = h.asked /\ g.twice = h.twice /\ g.answered = h.answered
      /\ k.slipped = h.slipped /\ k.asked = h.asked /\ k.twice = h.twice /\ k.answered = h.answered
  BY <1>1
<1> HIDE DEF f, g, k
<1>3. UNCHANGED h => AnswersStay
  BY DEF AnswersStay
<1>4. \A mishap : Note(h, mishap) \/ Note(f, mishap) \/ Note(g, mishap) \/ Note(k, mishap) => AnswersStay
  BY <1>2, NoteStays
<1> QED BY <1>3, <1>4 DEF f, g, k

LEMMA CalmWaits ==
  ASSUME IInv, Calm
  PROVE  LinesStay /\ \A p \in Prompts : Waits(p)
BY DEF Calm, Keeps, LinesStay, Waits, Unread

LEMMA AskedWaits ==
  ASSUME IInv, NEW p, NEW c, NEW what, Asked(p, c, what)
  PROVE  LinesStay /\ \A x \in Prompts : Waits(x)
BY DEF Asked, LinesStay, Waits, Unread

LEMMA TookWaits ==
  ASSUME IInv, NEW p \in Prompts, Took(p)
  PROVE  /\ \A x \in Prompts : Waits(x)
         /\ \A x \in Prompts : \A n \in Asks :
              /\ Unread(x, n)' => Unread(x, n)
              /\ Unread(x, n) => Unread(x, n)' \/ (x = p /\ Line(p) = Ask(n))
              /\ NotAfter(proc[x].pipe, Ask(n), Ask(n)) =>
                   /\ NotAfter(proc'[x].pipe, Ask(n), Ask(n))
                   /\ x = p /\ Line(p) = Ask(n) => ~Unread(p, n)'
<1>1. \A x \in Prompts : Waits(x)
  BY DEF Took, Keeps, Waits
<1>2. /\ proc[p].pipe \in Seq(Lines) /\ proc[p].pipe # <<>> /\ proc'[p].pipe = Tail(proc[p].pipe)
      /\ \A x \in Prompts : x # p => proc'[x].pipe = proc[x].pipe
  BY GoodProcess DEF Took, Processes
<1>3. \A n \in Asks : /\ Unread(p, n)' => Unread(p, n)
                      /\ Unread(p, n) => Unread(p, n)' \/ Line(p) = Ask(n)
  BY <1>2, HasRest DEF Unread, Line, Ask
<1>4. \A n \in Asks : NotAfter(proc[p].pipe, Ask(n), Ask(n)) =>
        NotAfter(proc'[p].pipe, Ask(n), Ask(n)) /\ (Line(p) = Ask(n) => ~Unread(p, n)')
  BY <1>2, NotAfterRest DEF Unread, Line, Ask
<1>5. \A x \in Prompts : x # p => \A n \in Asks : Unread(x, n)' <=> Unread(x, n)
  BY <1>2 DEF Unread
<1> QED BY <1>1, <1>2, <1>3, <1>4, <1>5

LEMMA OtherLineWaits ==
  ASSUME IInv, NEW p \in Prompts, Took(p), Line(p)[1] # "extension_ui_request"
  PROVE  LinesStay /\ \A x \in Prompts : Waits(x)
<1>1. \A n \in Asks : Line(p) # Ask(n)
  BY DEF Ask
<1> QED BY <1>1, TookWaits DEF LinesStay

LEMMA SpokeWaits ==
  ASSUME IInv, NEW p \in Prompts, NEW inbox, NEW run, NEW open, NEW lines \in Seq(Lines),
         Spoke(p, inbox, run, open, lines), open = proc[p].open, \A n \in Asks : ~Has(lines, Ask(n))
  PROVE  LinesStay /\ \A x \in Prompts : Waits(x)
<1>1. /\ proc[p].pipe \in Seq(Lines) /\ proc'[p].pipe = proc[p].pipe \o lines
      /\ \A x \in Prompts \ {p} : proc'[x] = proc[x]
  BY GoodProcess DEF Spoke, Processes
<1>2. \A x \in Prompts : Waits(x)
  BY <1>1 DEF Spoke, Waits
<1>3. ASSUME NEW n \in Asks PROVE Unread(p, n)' <=> Unread(p, n)
  <2>1. Has(proc[p].pipe \o lines, Ask(n)) <=> Has(proc[p].pipe, Ask(n)) \/ Has(lines, Ask(n))
    BY <1>1, HasAppended
  <2> QED BY <1>1, <2>1 DEF Unread, Ask
<1>4. ASSUME NEW n \in Asks, NotAfter(proc[p].pipe, Ask(n), Ask(n))
      PROVE  NotAfter(proc'[p].pipe, Ask(n), Ask(n))
  <2>1. NotAfter(lines, Ask(n), Ask(n)) /\ ~Has(lines, Ask(n))
    BY DEF Has, NotAfter
  <2>2. NotAfter(proc[p].pipe \o lines, Ask(n), Ask(n))
    BY <1>1, <1>4, <2>1, NotAfterAppended
  <2> QED BY <1>1, <2>2
<1>5. LinesStay
  BY <1>1, <1>3, <1>4 DEF LinesStay, Unread
<1> QED BY <1>2, <1>5

-----------------------------------------------------------------------------
(* The dialogs, step by step.                                              *)

LEMMA PromptDialogs ==
  ASSUME IInv, DialogsInv, NEW c \in Prompts, Busy(c) \/ Claim(c) \/ PromptStep(c)
  PROVE  DialogsInv'
<1>1. UNCHANGED respond /\ s'.pending = s.pending
  BY SessionIs DEF Sessions, Busy, Claim, PromptStep, Running, NotRunning, Launch, Handshake, Started,
     HandshakeFails, abandonTurn, PromptReturns, Settled
<1>2. AnswersStay
  BY FieldStays DEF Busy, Claim, PromptStep, Running, NotRunning, Launch, Handshake, Started,
     HandshakeFails, abandonTurn, PromptReturns
<1>3. LinesStay /\ \A p \in Prompts : Waits(p)
  <2>1. CASE Busy(c) \/ Claim(c) \/ NotRunning(c) \/ HandshakeFails(c) \/ abandonTurn(c) \/ PromptReturns(c)
    <3>1. Calm
      BY <2>1, CalmSteps, SessionIs DEF Busy, Claim, NotRunning, HandshakeFails, abandonTurn, PromptReturns
    <3> QED BY <3>1, CalmWaits
  <2>2. CASE Running(c)
    <3>1. s.proc \in Prompts /\ Request(s.proc, c, "prompt")
      BY <2>2, SessionIs DEF Running, Nobody
    <3> QED BY <3>1, AskedStep, AskedWaits
  <2>3. CASE Handshake(c) \/ Started(c)
    BY <2>3, AskedStep, AskedWaits DEF Handshake, Started
  <2>4. CASE Launch(c)
    <3>1. \A p \in Prompts : /\ proc'[p].pipe = proc[p].pipe /\ proc'[p].open = proc[p].open
                             /\ proc'[p].stopping = proc[p].stopping
      BY <2>4 DEF Launch, IInv, Typed, ProcessesTyped, AllGood, Processes
    <3> QED BY <3>1 DEF LinesStay, Waits, Unread
  <2> QED BY <2>1, <2>2, <2>3, <2>4 DEF PromptStep
<1> QED BY <1>1, <1>2, <1>3, StillDialogs

LEMMA PiDialogs ==
  ASSUME IInv, DialogsInv, NEW p \in Prompts, PiDrives(p) \/ Steer(p) \/ PiSettles(p) \/ PiDies(p)
                                              \/ \E m \in proc[p].inbox : PiTakes(p, m)
  PROVE  DialogsInv'
<1>1. UNCHANGED <<s, respond>>
  BY PiDrivesIs, SteerIs, PiSettlesIs, PiDiesIs, PiTakesIs
<1>2. AnswersStay
  BY PiDrivesIs, SteerIs, PiSettlesIs, PiDiesIs, PiTakesIs, FieldStays
<1>3. LinesStay /\ \A x \in Prompts : Waits(x)
  <2>1. CASE PiDies(p)
    BY <2>1, PiDiesIs DEF LinesStay, Waits, Unread
  <2>2. CASE ~PiDies(p)
    <3>1. PICK inbox, run, lines :
            /\ Spoke(p, inbox, run, proc[p].open, lines)
            /\ \/ \E c \in Prompts : Begins(c, lines)
               \/ \E line \in Lines : lines = <<line>> /\ line[1] # "extension_ui_request"
      <4>1. ASSUME PiDrives(p)
            PROVE  LET line == <<"agent_start">>
                   IN  /\ Spoke(p, proc[p].inbox, Extension, proc[p].open, <<line>>)
                       /\ line \in Lines /\ line[1] # "extension_ui_request"
        BY <4>1, PiDrivesIs DEF Lines
      <4>2. ASSUME Steer(p)
            PROVE  LET line == <<"steer", proc[p].run>>
                   IN  /\ Spoke(p, proc[p].inbox, proc[p].run, proc[p].open, <<line>>)
                       /\ line \in Lines /\ line[1] # "extension_ui_request"
        BY <4>2, SteerIs DEF Lines
      <4>3. ASSUME PiSettles(p)
            PROVE  LET line == <<"agent_settled", proc[p].run>>
                   IN  /\ Spoke(p, proc[p].inbox, None, proc[p].open, <<line>>)
                       /\ line \in Lines /\ line[1] # "extension_ui_request"
        BY <4>3, PiSettlesIs DEF Lines
      <4>4. ASSUME NEW m \in proc[p].inbox, PiTakes(p, m)
            PROVE  /\ m[2] \in Prompts /\ Verdict(m[2]) \in Lines
                   /\ Verdict(m[2])[1] # "extension_ui_request"
                   /\ \/ Spoke(p, proc[p].inbox \ {m}, proc[p].run, proc[p].open, <<Verdict(m[2])>>)
                      \/ \E lines : /\ Begins(m[2], lines)
                                    /\ Spoke(p, proc[p].inbox \ {m}, m[2], proc[p].open, lines)
        BY <4>4, PiTakesIs DEF Lines, Verdict
      <4> QED BY <2>2, <4>1, <4>2, <4>3, <4>4
    <3>2. lines \in Seq(Lines) /\ \A n \in Asks : ~Has(lines, Ask(n))
      <4>1. ASSUME NEW c \in Prompts, Begins(c, lines)
            PROVE  lines \in Seq(Lines) /\ \A n \in Asks : ~Has(lines, Ask(n))
        BY <4>1, BeginLines DEF Verdict, User, Ask
      <4>2. ASSUME NEW line \in Lines, lines = <<line>>, line[1] # "extension_ui_request"
            PROVE  lines \in Seq(Lines) /\ \A n \in Asks : ~Has(lines, Ask(n))
        BY <4>2, OneLine DEF Ask
      <4> QED BY <3>1, <4>1, <4>2
    <3> QED BY <3>1, <3>2, SpokeWaits
  <2> QED BY <2>1, <2>2
<1> QED BY <1>1, <1>2, <1>3, StillDialogs

LEMMA LoopDialogs ==
  ASSUME IInv, DialogsInv, NEW p \in Prompts,
         \/ resolve(p) \/ openTurn(p) \/ onMessageEnd(p) \/ AskedSetsState(p)
         \/ SettledCloses(p) \/ SettledSetsState(p) \/ readLoopEnds(p) \/ onExit(p)
  PROVE  DialogsInv'
<1>1. UNCHANGED respond /\ s'.pending = s.pending
  BY SessionIs DEF Sessions, resolve, openTurn, onMessageEnd, AskedSetsState, SettledCloses,
     SettledSetsState, readLoopEnds, onExit, Settled
<1>2. AnswersStay
  BY FieldStays DEF resolve, openTurn, onMessageEnd, AskedSetsState, SettledCloses,
     SettledSetsState, readLoopEnds, onExit
<1>3. LinesStay /\ \A x \in Prompts : Waits(x)
  <2>1. CASE resolve(p) \/ openTurn(p) \/ onMessageEnd(p)
    <3>1. Took(p) /\ Line(p)[1] # "extension_ui_request"
      BY <2>1, TookLine DEF resolve, openTurn, onMessageEnd, UserMessage, HasLine
    <3> QED BY <3>1, OtherLineWaits
  <2>2. CASE AskedSetsState(p) \/ SettledCloses(p) \/ SettledSetsState(p) \/ readLoopEnds(p) \/ onExit(p)
    <3>1. UNCHANGED proc
      BY <2>2 DEF AskedSetsState, SettledCloses, SettledSetsState, readLoopEnds, onExit
    <3> QED BY <3>1, CalmSteps, CalmWaits
  <2> QED BY <2>1, <2>2
<1> QED BY <1>1, <1>2, <1>3, StillDialogs

LEMMA StillnessDialogs ==
  ASSUME IInv, DialogsInv, ReapLooks \/ ReapStops \/ UNCHANGED vars
  PROVE  DialogsInv'
<1>1. UNCHANGED <<respond, h>> /\ s'.pending = s.pending /\ Calm
  BY CalmSteps, SessionIs DEF Sessions, ReapLooks, ReapStops, vars
<1> QED BY <1>1, FieldStays, CalmWaits, StillDialogs

-----------------------------------------------------------------------------
(* A dialog is asked, read, taken, answered.                               *)

LEMMA PiAsksDialogs ==
  ASSUME IInv, DialogsInv, NEW p \in Prompts, PiAsks(p)
  PROVE  DialogsInv'
<1>0. PICK n \in Asks : n = h.asked + 1
  BY PiAsksIs
<1> DEFINE open == proc[p].open \cup {n}
           lines == <<Ask(n)>>
           g == [h EXCEPT !.asked = n]
<1>1. /\ n \in Asks /\ UNCHANGED <<s, respond>> /\ Note(g, FALSE)
      /\ Spoke(p, proc[p].inbox, proc[p].run, open, lines)
  BY <1>0, PiAsksIs DEF Ask
<1>2. /\ g.asked = n /\ g.slipped = h.slipped /\ g.twice = h.twice /\ g.answered = h.answered
      /\ h.asked \in Nat /\ n \in Nat /\ n > h.asked
  BY <1>0, CountNotes DEF DialogsInv, AskedInv
<1>3. Ask(n) \in Lines
  BY <1>1 DEF Lines, Ask
<1>4. lines \in Seq(Lines) /\ (\A line : Has(lines, line) <=> line = Ask(n)) /\ NotAfter(lines, Ask(n), Ask(n))
  BY <1>3, OneLine
<1> HIDE DEF g, lines
<1>5. /\ h'.asked = n /\ (~h.twice => ~h'.twice) /\ (\A k \in h'.answered : k \in h.answered)
      /\ (~h'.slipped => ~h.slipped)
  BY <1>1, <1>2, NoteDoes
<1>6. /\ proc[p].pipe \in Seq(Lines) /\ proc'[p].pipe = proc[p].pipe \o lines
      /\ proc'[p].open = open /\ proc'[p].stopping = proc[p].stopping
      /\ \A x \in Prompts \ {p} : proc'[x] = proc[x]
  BY <1>1, GoodProcess DEF Spoke, Processes
<1>7. /\ n \notin s.pending \cup h.answered /\ \A x \in Prompts : ~Unread(x, n)
      /\ \A o \in Owners : ~Answering(o, n)
  <2>1. Placed(n) /\ ~(n <= h.asked)
    BY <1>1, <1>2 DEF DialogsInv, AskedInv
  <2> QED BY <1>2, <2>1 DEF Placed
<1>8. /\ \A line : Has(proc'[p].pipe, line) <=> Has(proc[p].pipe, line) \/ line = Ask(n)
      /\ \A o \in Owners, k \in Asks : Answering(o, k)' <=> Answering(o, k)
  BY <1>1, <1>4, <1>6, HasAppended DEF Answering
<1>9. Placed(n)'
  <2>1. NotAfter(proc[p].pipe, Ask(n), Ask(n)) /\ ~Has(proc[p].pipe, Ask(n))
    BY <1>7 DEF Unread, Ask, NotAfter, Has
  <2>2. NotAfter(proc'[p].pipe, Ask(n), Ask(n))
    BY <1>4, <1>6, <2>1, NotAfterAppended
  <2>3. \A x \in Prompts : Unread(x, n)' => x = p
    BY <1>6, <1>7 DEF Unread
  <2>4. ~(n > h'.asked) /\ n <= h'.asked
    BY <1>2, <1>5
  <2>5. n \notin s'.pending \cup h'.answered /\ \A o \in Owners : ~Answering(o, n)'
    BY <1>1, <1>5, <1>7, <1>8
  <2> QED BY <1>1, <2>2, <2>3, <2>4, <2>5 DEF Placed
<1>10. ASSUME NEW k \in Asks, k # n PROVE Placed(k)'
  <2>1. Ask(k) # Ask(n)
    BY <1>10 DEF Ask
  <2>2. \A x \in Prompts : Unread(x, k)' <=> Unread(x, k)
    BY <1>6, <1>8, <2>1 DEF Unread, Ask
  <2>3. \A x \in Prompts : NotAfter(proc[x].pipe, Ask(k), Ask(k)) => NotAfter(proc'[x].pipe, Ask(k), Ask(k))
    <3>1. NotAfter(lines, Ask(k), Ask(k)) /\ ~Has(lines, Ask(k))
      BY <1>4, <2>1 DEF Has, NotAfter
    <3>2. NotAfter(proc[p].pipe, Ask(k), Ask(k)) => NotAfter(proc[p].pipe \o lines, Ask(k), Ask(k))
      BY <1>4, <1>6, <3>1, NotAfterAppended
    <3> QED BY <1>6, <3>2
  <2>4. Placed(k)
    BY DEF DialogsInv, AskedInv
  <2>5. h'.asked \in Nat /\ h'.asked >= h.asked
    BY <1>2, <1>5
  <2> QED BY <1>1, <1>2, <1>5, <1>8, <2>2, <2>3, <2>4, <2>5, KeepsPlaced
<1>11. AskedInv'
  BY <1>2, <1>5, <1>9, <1>10 DEF DialogsInv, AskedInv
<1>12. ~h'.slipped => OpenInv' /\ TakenInv'
  <2> SUFFICES ASSUME ~h'.slipped PROVE OpenInv' /\ TakenInv'
    OBVIOUS
  <2>1. OpenInv /\ TakenInv
    BY <1>5 DEF DialogsInv
  <2>2. \A x \in Prompts, k \in Asks : Unread(x, k) => Unread(x, k)'
    BY <1>6, <1>8 DEF Unread
  <2>3. Unread(p, n)'
    BY <1>8 DEF Unread, Ask
  <2>4. \A x \in Prompts, k \in Asks : k \in proc'[x].open /\ ~proc'[x].stopping =>
          (k \in proc[x].open /\ ~proc[x].stopping) \/ (x = p /\ k = n)
    BY <1>6
  <2>5. OpenInv'
    BY <1>1, <1>8, <2>1, <2>2, <2>3, <2>4 DEF OpenInv
  <2>6. TakenInv'
    BY <1>1, <1>7, <1>8, <2>1, <2>4 DEF TakenInv
  <2> QED BY <2>5, <2>6
<1> QED BY <1>11, <1>12 DEF DialogsInv

LEMMA onUIRequestDialogs ==
  ASSUME IInv, DialogsInv, NEW p \in Prompts, onUIRequest(p)
  PROVE  DialogsInv'
<1>0. PICK n : n = Line(p)[2]
  OBVIOUS
<1>1. /\ Took(p) /\ s' = [s EXCEPT !.pending = s.pending \cup {n}] /\ UNCHANGED <<respond, h>>
      /\ Line(p)[1] = "extension_ui_request"
  BY <1>0, TookLine DEF onUIRequest, HasLine
<1>2. n \in Asks /\ Line(p) = Ask(n) /\ Unread(p, n)
  <2>1. Line(p) \in Lines /\ proc[p].pipe \in Seq(Lines) /\ proc[p].pipe # <<>> /\ Line(p) = Head(proc[p].pipe)
    BY <1>1, LineTyped, GoodProcess DEF Took, Line, Processes
  <2>2. n \in Asks /\ Line(p) = Ask(n)
    BY <1>0, <1>1, <2>1 DEF Lines, Ask
  <2>3. Has(proc[p].pipe, Ask(n))
    BY <2>1, <2>2, HasRest
  <2> QED BY <2>2, <2>3 DEF Unread, Ask
<1>3. s'.pending = s.pending \cup {n}
  BY <1>1, SessionIs DEF Sessions
<1>4. \A x \in Prompts : Waits(x)
  BY <1>1, TookWaits
<1>5. \A o \in Owners, k \in Asks : Answering(o, k)' <=> Answering(o, k)
  BY <1>1 DEF Answering
<1>6. Placed(n)'
  <2>1. Placed(n) /\ h.asked \in Nat
    BY <1>2 DEF DialogsInv, AskedInv
  <2>2. /\ n <= h.asked /\ n \notin s.pending \cup h.answered
        /\ NotAfter(proc[p].pipe, Ask(n), Ask(n))
        /\ \A x \in Prompts : Unread(x, n) => p = x
        /\ \A o \in Owners : ~Answering(o, n)
    BY <1>2, <2>1 DEF Placed
  <2>3. \A x \in Prompts : ~Unread(x, n)'
    BY <1>1, <1>2, <2>2, TookWaits
  <2>4. ~(n > h.asked)
    BY <1>2, <2>1, <2>2, PiAssumption DEF Asks
  <2> QED BY <1>1, <1>2, <1>5, <2>2, <2>3, <2>4 DEF Placed
<1>7. ASSUME NEW k \in Asks, k # n PROVE Placed(k)'
  <2>1. Placed(k) /\ h.asked \in Nat
    BY DEF DialogsInv, AskedInv
  <2>2. k \in s'.pending => k \in s.pending
    BY <1>3, <1>7
  <2>3. h'.asked \in Nat /\ h'.asked >= h.asked
    BY <1>1, <2>1
  <2> QED BY <1>1, <1>5, <2>1, <2>2, <2>3, TookWaits, KeepsPlaced
<1>8. AskedInv'
  BY <1>1, <1>6, <1>7 DEF DialogsInv, AskedInv
<1>9. ~h'.slipped => OpenInv' /\ TakenInv'
  <2> SUFFICES ASSUME ~h'.slipped PROVE OpenInv' /\ TakenInv'
    OBVIOUS
  <2>1. OpenInv /\ TakenInv
    BY <1>1 DEF DialogsInv
  <2>2. \A x \in Prompts, k \in Asks : k \in proc'[x].open /\ ~proc'[x].stopping =>
          k \in proc[x].open /\ ~proc[x].stopping
    BY <1>4 DEF Waits
  <2>3. \A x \in Prompts, k \in Asks : Unread(x, k) => Unread(x, k)' \/ k = n
    <3>1. \A k \in Asks : Line(p) = Ask(k) => k = n
      BY <1>2 DEF Ask
    <3> QED BY <1>1, <3>1, TookWaits
  <2>4. OpenInv'
    BY <1>3, <1>5, <2>1, <2>2, <2>3 DEF OpenInv
  <2>5. TakenInv'
    BY <1>1, <1>5, <2>1, <2>2 DEF TakenInv
  <2> QED BY <2>4, <2>5
<1> QED BY <1>8, <1>9 DEF DialogsInv

LEMMA RespondTakesDialogs ==
  ASSUME IInv, StateInv, DialogsInv, NEW o \in Owners, NEW n \in Asks, RespondTakes(o, n)
  PROVE  DialogsInv'
<1>1. /\ respond[o] = <<>> /\ n \in s.pending /\ s'.pending = s.pending \ {n} /\ UNCHANGED <<proc, h>>
      /\ respond' = [respond EXCEPT ![o] = <<s.proc, n, s.running>>]
  BY SessionIs DEF RespondTakes, Sessions
<1>2. /\ respond'[o] = <<s.proc, n, s.running>> /\ \A x \in Owners \ {o} : respond'[x] = respond[x]
  BY <1>1 DEF IInv, Typed, RespondTyped
<1>3. /\ \A k \in Asks : Answering(o, k)' <=> k = n
      /\ \A k \in Asks : ~Answering(o, k)
      /\ \A x \in Owners \ {o} : \A k \in Asks : Answering(x, k)' <=> Answering(x, k)
  BY <1>1, <1>2 DEF Answering
<1>4. \A x \in Prompts, k \in Asks : Unread(x, k)' <=> Unread(x, k)
  BY <1>1 DEF Unread
<1>5. Placed(n)'
  <2>1. Placed(n) /\ h.asked \in Nat
    BY DEF DialogsInv, AskedInv
  <2>2. ~(n > h.asked) /\ n <= h.asked /\ n \notin h.answered /\ \A x \in Prompts : ~Unread(x, n)
    BY <1>1, <2>1, PiAssumption DEF Placed, Asks
  <2>3. \A x \in Owners : ~Answering(x, n)
    BY <1>1, <2>1 DEF Placed
  <2> QED BY <1>1, <1>3, <1>4, <2>2, <2>3 DEF Placed
<1>6. ASSUME NEW k \in Asks, k # n PROVE Placed(k)'
  <2>1. Placed(k) /\ h.asked \in Nat
    BY DEF DialogsInv, AskedInv
  <2>2. \A x \in Owners : Answering(x, k)' => Answering(x, k)
    BY <1>3, <1>6
  <2>3. h'.asked \in Nat /\ h'.asked >= h.asked
    BY <1>1, <2>1
  <2> QED BY <1>1, <1>4, <2>1, <2>2, <2>3, KeepsPlaced
<1>7. AskedInv'
  BY <1>1, <1>5, <1>6 DEF DialogsInv, AskedInv
<1>8. ~h'.slipped => OpenInv' /\ TakenInv'
  <2> SUFFICES ASSUME ~h'.slipped PROVE OpenInv' /\ TakenInv'
    OBVIOUS
  <2>1. ~h.slipped /\ OpenInv /\ TakenInv
    BY <1>1 DEF DialogsInv
  <2>2. OpenInv'
    BY <1>1, <1>3, <1>4, <2>1 DEF OpenInv
  <2>3. \A x \in Prompts : n \in proc[x].open /\ ~proc[x].stopping => s.proc = x
    BY <2>1, OpenIsActive
  <2>4. TakenInv'
    BY <1>1, <1>2, <1>3, <2>1, <2>3 DEF TakenInv
  <2> QED BY <2>2, <2>4
<1> QED BY <1>7, <1>8 DEF DialogsInv

\* What answers with dialogs N: they are answered, once, and no other is.
LEMMA AnsweredOnce ==
  ASSUME IInv, DialogsInv, NEW p, NEW N \in SUBSET Asks, \A n \in N : n \notin h.answered,
         NEW mishap, Note(Answered(p, N), mishap)
  PROVE  /\ h'.asked = h.asked /\ ~h'.twice /\ \A n \in h'.answered : n \in h.answered \/ n \in N
         /\ ~h'.slipped => ~h.slipped
<1> DEFINE sent == IF p = None THEN {} ELSE {n \in N : n \in proc[p].open \cup h.answered}
           twice == h.twice \/ sent \cap h.answered # {}
           answered == h.answered \cup sent
           g == [h EXCEPT !.twice = twice, !.answered = answered]
<1>1. h = [ended |-> h.ended, answered |-> h.answered, twice |-> h.twice, echo |-> h.echo,
           asked |-> h.asked, drove |-> h.drove, slipped |-> h.slipped]
  BY DEF IInv, Typed, HistoryTyped, IsHistory
<1>2. sent \subseteq N /\ ~twice
  BY DEF DialogsInv, AskedInv
<1>3. Answered(p, N) = g
  BY DEF Answered
<1>4. \A n \in answered : n \in h.answered \/ n \in N
  BY <1>2
<1> HIDE DEF sent, twice, answered
<1>5. /\ g.slipped = h.slipped /\ g.asked = h.asked /\ g.twice = twice /\ g.answered = answered
  BY <1>1
<1> HIDE DEF g
<1> QED BY <1>2, <1>3, <1>4, <1>5, NoteDoes

\* The dialogs the session has are cancelled.
LEMMA CancelDialogs ==
  ASSUME IInv, StateInv, DialogsInv, UNCHANGED respond, s'.pending = {}, LinesStay,
         \A p \in Prompts : Waits(p), s.proc # None => proc'[s.proc].open = proc[s.proc].open \ s.pending,
         NEW mishap, Note(Answered(s.proc, s.pending), mishap)
  PROVE  DialogsInv'
<1>1. s.pending \in SUBSET Asks /\ s.proc \in Nobody /\ h.asked \in Nat /\ \A n \in Asks : Placed(n)
  BY SessionIs DEF Sessions, DialogsInv, AskedInv
<1>2. \A n \in s.pending : n \notin h.answered
  BY <1>1 DEF Placed
<1>3. /\ h'.asked = h.asked /\ ~h'.twice /\ \A n \in h'.answered : n \in h.answered \/ n \in s.pending
      /\ ~h'.slipped => ~h.slipped
  BY <1>1, <1>2, AnsweredOnce
<1>4. \A o \in Owners, n \in Asks : Answering(o, n)' <=> Answering(o, n)
  BY DEF Answering
<1>5. ASSUME NEW n \in Asks, n \in s.pending PROVE Placed(n)'
  <2>1. Placed(n) /\ h'.asked \in Nat
    BY <1>1, <1>3
  <2>2. n <= h'.asked
    BY <1>1, <1>3, <1>5, <2>1, PiAssumption DEF Placed, Asks
  <2>3. (\A p \in Prompts : ~Unread(p, n)) /\ \A o \in Owners : ~Answering(o, n)
    BY <1>5, <2>1 DEF Placed
  <2> QED BY <1>4, <2>1, <2>2, <2>3, OverIsPlaced DEF LinesStay
<1>6. ASSUME NEW n \in Asks, n \notin s.pending PROVE Placed(n)'
  <2>1. h'.asked \in Nat /\ h'.asked >= h.asked
    BY <1>1, <1>3
  <2> QED BY <1>1, <1>3, <1>4, <1>6, <2>1, KeepsPlaced DEF LinesStay
<1>7. AskedInv'
  BY <1>1, <1>3, <1>5, <1>6 DEF AskedInv
<1>8. ~h'.slipped => OpenInv' /\ TakenInv'
  <2> SUFFICES ASSUME ~h'.slipped PROVE OpenInv' /\ TakenInv'
    OBVIOUS
  <2>1. ~h.slipped /\ OpenInv /\ TakenInv
    BY <1>3 DEF DialogsInv
  <2>2. \A p \in Prompts, n \in Asks : n \in proc'[p].open /\ ~proc'[p].stopping =>
          n \in proc[p].open /\ ~proc[p].stopping
    BY DEF Waits
  <2>3. \A p \in Prompts, n \in Asks : n \in proc'[p].open /\ ~proc'[p].stopping => n \notin s.pending
    <3> SUFFICES ASSUME NEW p \in Prompts, NEW n \in Asks, n \in proc'[p].open, ~proc'[p].stopping
                 PROVE  n \notin s.pending
      OBVIOUS
    <3>1. s.proc = p
      BY <2>1, <2>2, OpenIsActive
    <3> QED BY <3>1, NoneIsNoPrompt
  <2>4. OpenInv'
    BY <1>4, <2>1, <2>2, <2>3 DEF OpenInv, LinesStay
  <2>5. TakenInv'
    BY <1>4, <2>1, <2>2 DEF TakenInv
  <2> QED BY <2>4, <2>5
<1> QED BY <1>7, <1>8 DEF DialogsInv

LEMMA InterruptDialogs ==
  ASSUME IInv, StateInv, DialogsInv, Interrupt
  PROVE  DialogsInv'
<1>1. /\ s' = [s EXCEPT !.pending = {}] /\ UNCHANGED respond /\ Note(Answered(s.proc, s.pending), FALSE)
      /\ Calm /\ (s.proc # None => proc'[s.proc].open = proc[s.proc].open \ s.pending)
  BY CalmSteps, SessionIs DEF Interrupt
<1>2. s'.pending = {}
  BY <1>1, SessionIs DEF Sessions
<1> QED BY <1>1, <1>2, CalmWaits, CancelDialogs

LEMMA onSettledDialogs ==
  ASSUME IInv, StateInv, DialogsInv, NEW p \in Prompts, onSettled(p)
  PROVE  DialogsInv'
<1> DEFINE mishap == s.turn \notin {Line(p)[2], None} \/ s.proc \notin {None, p}
<1>1. /\ s' = [s EXCEPT !.pending = {}] /\ UNCHANGED respond /\ Note(Answered(s.proc, s.pending), mishap)
      /\ HasLine(p, "agent_settled") /\ proc' = Answer(Rest(p), s.proc, s.pending)
  BY DEF onSettled
<1>2. Took(p) /\ (s.proc # None => proc'[s.proc].open = proc[s.proc].open \ s.pending)
  BY <1>1, TookLine, SessionIs
<1>3. s'.pending = {} /\ Line(p)[1] # "extension_ui_request"
  BY <1>1, SessionIs DEF Sessions, HasLine
<1> HIDE DEF mishap
<1> QED BY <1>1, <1>2, <1>3, OtherLineWaits, CancelDialogs

LEMMA ExitTellsDialogs ==
  ASSUME IInv, StateInv, DialogsInv, NEW p \in Prompts, ExitTells(p)
  PROVE  DialogsInv'
<1> DEFINE mishap == \E q \in Prompts \ {p} : loop[q] \notin {"none", "gone"}
<1>1. /\ s' = [s EXCEPT !.pending = {}, !.state = "idle"] /\ UNCHANGED respond
      /\ Note(Answered(s.proc, s.pending), mishap)
      /\ Calm /\ (s.proc # None => proc'[s.proc].open = proc[s.proc].open \ s.pending)
  BY CalmSteps, SessionIs DEF ExitTells
<1>2. s'.pending = {}
  BY <1>1, SessionIs DEF Sessions
<1> HIDE DEF mishap
<1> QED BY <1>1, <1>2, CalmWaits, CancelDialogs

LEMMA RespondDialogs ==
  ASSUME IInv, StateInv, DialogsInv, NEW o \in Owners, Respond(o)
  PROVE  DialogsInv'
<1>0. PICK p, n : p = respond[o][1] /\ n = respond[o][2]
  OBVIOUS
<1>1. /\ respond[o] # <<>> /\ p \in Nobody /\ n \in Asks /\ respond' = [respond EXCEPT ![o] = <<>>]
      /\ s' = [s EXCEPT !.state = "running"] \/ UNCHANGED s
      /\ Calm
      /\ \/ /\ p \in Prompts /\ proc[p].alive /\ proc'[p].open = proc[p].open \ {n}
            /\ Note(Answered(p, {n}), FALSE)
         \/ (p = None \/ ~proc[p].alive) /\ UNCHANGED proc /\ Note(h, p = None)
  BY <1>0, RespondIs
<1>2. s'.pending = s.pending
  BY <1>1, SessionIs DEF Sessions
<1>3. Placed(n) /\ h.asked \in Nat /\ Answering(o, n)
  BY <1>0, <1>1 DEF DialogsInv, AskedInv, Answering
<1>4. /\ n <= h.asked /\ n \notin s.pending \cup h.answered /\ \A x \in Prompts : ~Unread(x, n)
      /\ \A x \in Owners : Answering(x, n) => x = o
  BY <1>3 DEF Placed
<1>5. /\ \A k \in Asks : ~Answering(o, k)'
      /\ \A x \in Owners \ {o} : \A k \in Asks : Answering(x, k)' <=> Answering(x, k)
  BY <1>1 DEF Answering, IInv, Typed, RespondTyped
<1>6. LinesStay /\ \A x \in Prompts : Waits(x)
  BY <1>1, CalmWaits
<1>7. /\ h'.asked = h.asked /\ ~h'.twice /\ \A k \in h'.answered : k \in h.answered \/ k = n
      /\ ~h'.slipped => ~h.slipped
  <2>1. CASE Note(Answered(p, {n}), FALSE)
    BY <1>1, <1>4, <2>1, AnsweredOnce
  <2>2. CASE Note(h, p = None)
    BY <2>2, FieldStays DEF AnswersStay, DialogsInv, AskedInv
  <2> QED BY <1>1, <2>1, <2>2
<1>8. Placed(n)'
  BY <1>1, <1>2, <1>3, <1>4, <1>5, <1>6, <1>7, OverIsPlaced DEF LinesStay
<1>9. ASSUME NEW k \in Asks, k # n PROVE Placed(k)'
  <2>1. Placed(k) /\ h'.asked \in Nat /\ h'.asked >= h.asked
    BY <1>3, <1>7 DEF DialogsInv, AskedInv
  <2>2. k \in h'.answered => k \in h.answered
    BY <1>7, <1>9
  <2>3. \A x \in Owners : Answering(x, k)' => Answering(x, k)
    BY <1>5
  <2> QED BY <1>2, <1>3, <1>6, <2>1, <2>2, <2>3, KeepsPlaced DEF LinesStay
<1>10. AskedInv'
  BY <1>3, <1>7, <1>8, <1>9 DEF AskedInv
<1>11. ~h'.slipped => OpenInv' /\ TakenInv'
  <2> SUFFICES ASSUME ~h'.slipped PROVE OpenInv' /\ TakenInv'
    OBVIOUS
  <2>1. ~h.slipped /\ OpenInv /\ TakenInv
    BY <1>7 DEF DialogsInv
  <2>2. \A x \in Prompts, k \in Asks : k \in proc'[x].open /\ ~proc'[x].stopping =>
          k \in proc[x].open /\ ~proc[x].stopping
    BY <1>6 DEF Waits
  <2>3. \A x \in Prompts : n \in proc'[x].open => proc'[x].stopping
    <3> SUFFICES ASSUME NEW x \in Prompts, n \in proc'[x].open, ~proc'[x].stopping PROVE FALSE
      OBVIOUS
    <3>1. x = p /\ n \in proc[p].open
      BY <1>0, <1>1, <1>3, <2>1, <2>2 DEF TakenInv
    <3>2. proc[p].alive /\ p # None
      BY <3>1, NoneIsNoPrompt DEF StateInv, LifeInv
    <3> QED BY <1>1, <3>1, <3>2
  <2>4. \A x \in Owners, k \in Asks : Answering(x, k) /\ k # n => Answering(x, k)' /\ respond'[x] = respond[x]
    BY <1>0, <1>1 DEF Answering, IInv, Typed, RespondTyped
  <2>5. OpenInv'
    BY <1>2, <1>6, <2>1, <2>2, <2>3, <2>4 DEF OpenInv, LinesStay
  <2>6. TakenInv'
    BY <1>1, <1>5, <2>1, <2>2, <2>3, <2>4 DEF TakenInv
  <2> QED BY <2>5, <2>6
<1> QED BY <1>10, <1>11 DEF DialogsInv

-----------------------------------------------------------------------------
(* All steps.                                                              *)

LEMMA InitDialogs == Init => DialogsInv
<1> SUFFICES ASSUME Init PROVE DialogsInv
  OBVIOUS
<1>1. /\ s.pending = {} /\ h.asked = 0 /\ h.answered = {} /\ ~h.twice
      /\ \A o \in Owners : respond[o] = <<>>
      /\ \A p \in Prompts : proc[p].pipe = <<>> /\ proc[p].open = {}
  BY DEF Init, NoProcess, NoHistory
<1>2. \A n \in Asks : (\A p \in Prompts : ~Unread(p, n)) /\ \A o \in Owners : ~Answering(o, n)
  BY <1>1 DEF Unread, Has, Answering
<1> QED BY <1>1, <1>2 DEF DialogsInv, AskedInv, Placed, OpenInv, TakenInv

LEMMA NextDialogs == IInv /\ StateInv /\ DialogsInv /\ [Next]_vars => DialogsInv'
<1> SUFFICES ASSUME IInv, StateInv, DialogsInv, [Next]_vars PROVE DialogsInv'
  OBVIOUS
<1>1. ASSUME NEW c \in Prompts, Busy(c) \/ Claim(c) \/ PromptStep(c) PROVE DialogsInv'
  BY <1>1, PromptDialogs
<1>2. ASSUME NEW p \in Prompts, LoopStep(p) PROVE DialogsInv'
  BY <1>2, LoopDialogs, onUIRequestDialogs, onSettledDialogs, ExitTellsDialogs DEF LoopStep
<1>3. CASE Interrupt \/ ReapLooks \/ ReapStops \/ UNCHANGED vars
  BY <1>3, InterruptDialogs, StillnessDialogs
<1>4. ASSUME NEW o \in Owners, Respond(o) \/ \E n \in Asks : RespondTakes(o, n) PROVE DialogsInv'
  BY <1>4, RespondDialogs, RespondTakesDialogs
<1>5. ASSUME NEW p \in Prompts, PiDrives(p) \/ Steer(p) \/ PiAsks(p) \/ PiSettles(p) \/ PiDies(p)
                                \/ \E m \in proc[p].inbox : PiTakes(p, m)
      PROVE  DialogsInv'
  BY <1>5, PiDialogs, PiAsksDialogs
<1> QED BY <1>1, <1>2, <1>3, <1>4, <1>5 DEF Next

LEMMA DialogsFollow == IInv /\ DialogsInv => DialogsSound
<1> SUFFICES ASSUME IInv, DialogsInv PROVE DialogsSound
  OBVIOUS
<1>1. OneAnswerEach
  BY DEF DialogsInv, AskedInv, OneAnswerEach
<1>2. NoDialogForgotten
  <2> SUFFICES ASSUME ~h.slipped, NEW p \in Prompts, NEW n \in proc[p].open
               PROVE  Unread(p, n) \/ n \in s.pending \/ (\E o \in Owners : Answering(o, n)) \/ proc[p].stopping
    BY DEF NoDialogForgotten, Unread, Has, Answering
  <2>1. n \in Asks
    BY GoodProcess DEF Processes
  <2> QED BY <2>1 DEF DialogsInv, OpenInv
<1> QED BY <1>1, <1>2 DEF DialogsSound

\* A dialog an extension waits on can be read, answered or is being answered, and
\* none is answered twice.
THEOREM DialogsAreSound == Spec => []DialogsSound
<1>1. Init => IInv /\ StateInv /\ DialogsInv
  BY InitIInv, InitState, InitDialogs
<1>2. IInv /\ StateInv /\ DialogsInv /\ [Next]_vars => (IInv /\ StateInv /\ DialogsInv)'
  BY NextIInv, NextState, NextDialogs
<1> QED BY <1>1, <1>2, DialogsFollow, PTL DEF Spec

==============================================================================
