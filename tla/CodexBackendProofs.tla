------------------------- MODULE CodexBackendProofs -------------------------
(***************************************************************************)
(* For any number of threads, prompts, owners and requests, with starts    *)
(* that fail and servers that die: one app-server at a time; the row of a  *)
(* turn that started stays busy; a turn that was accepted is told; and what*)
(* a server asks for is answered once, in its form, and not forgotten.     *)
(***************************************************************************)
EXTENDS CodexBackend, FiniteSetTheorems, TLAPS

-----------------------------------------------------------------------------
(* Types, variable by variable.                                            *)

Ids == 1..MaxAsks

PromptSteps == {"new", "ensure", "lock", "initialize", "stop", "store", "open", "opening",
                "claim", "turn", "failed", "panicked", "returned"}

RowStates == {"idle", "running", "waiting_input"}

NativesTyped == known \subseteq Threads /\ nativeOf \in [known -> Servers]

BackendTyped ==
  b \in [server : Servers, starting : Servers, threads : [Threads -> Servers],
         byNative : [Prompts -> Threads \cup {None}]]

Objects == [turn : Servers, turnID : BOOLEAN, interrupted : Servers,
            pending : SUBSET (Ids \X Methods), state : RowStates, srv : Servers]

ObjectsTyped == object \in [Prompts -> Objects]

Calls == [pc : PromptSteps, th : Threads \cup {None}, nat : Servers, srv : Servers, t : Servers,
          answered : BOOLEAN]
HasThread == {"ensure", "lock", "initialize", "stop", "store", "open", "opening", "claim", "turn"}

\* A prompt past its arrival has a thread; one that has a turn has its object.
CallsTyped ==
  /\ call \in [Prompts -> Calls]
  /\ \A c \in Prompts : call[c].pc \in HasThread => call[c].th \in Threads
  /\ \A c \in Prompts : call[c].pc = "turn" => call[c].t \in Prompts

\* What is written to a server, and what it writes.
Messages == {<<"initialize", c, None>> : c \in Prompts}
            \cup ({"thread/start", "turn/start"} \X Prompts \X Prompts)
Lines == ({"answer", "turn/started", "turn/completed"} \X Prompts)
         \cup ({"request"} \X Prompts \X Ids \X Methods)

Processes == [alive : BOOLEAN, inbox : SUBSET Messages, pipe : Seq(Lines),
              convs : SUBSET Prompts, work : SUBSET Prompts, asked : Nat,
              open : SUBSET (Ids \X Prompts \X Methods)]

ProcessesTyped == proc \in [Prompts -> Processes]

LoopSteps == {"none", "read", "setState", "finish", "closed", "lost", "gone"}

Loops == [at : LoopSteps, th : Threads \cup {None}, t : Servers, to : RowStates,
          lost : SUBSET Prompts]

LoopsTyped ==
  /\ loop \in [Prompts -> Loops]
  /\ \A s \in Prompts : loop[s].at = "finish" => loop[s].t \in Prompts

HistoryTyped ==
  /\ h = [ended |-> h.ended, slips |-> h.slips, answered |-> h.answered, wrong |-> h.wrong]
  /\ h.ended \subseteq Prompts

Typed == /\ NativesTyped /\ BackendTyped /\ ObjectsTyped /\ CallsTyped
         /\ ProcessesTyped /\ LoopsTyped /\ HistoryTyped

-----------------------------------------------------------------------------
(* The servers: a start holds the mutex, and the place of the server is    *)
(* empty meanwhile; a process whose read loop has ended is dead; one that  *)
(* lives is the server or is being started.                                *)

Starting == {"initialize", "stop", "store"}

StartInv ==
  /\ \A c \in Prompts : call[c].pc \in Starting <=> b.starting = c
  /\ b.server = None \/ b.starting = None

DeadInv == \A s \in Prompts : loop[s].at \in {"closed", "lost", "gone"} => ~proc[s].alive

AliveInv == "lateExit" \in h.slips
            \/ \A s \in Prompts : proc[s].alive => s \in {b.server, b.starting}

ServerInv == StartInv /\ DeadInv /\ AliveInv

IInv == Typed /\ ServerInv

\* What a step leaves alone of what ServerInv is about.
CallsStay == \A c \in Prompts : (call'[c].pc \in Starting) <=> (call[c].pc \in Starting)
LivesStay == \A s \in Prompts : proc'[s].alive => proc[s].alive
LoopsStay == \A s \in Prompts : /\ loop'[s].at \in {"closed", "lost", "gone"}
                                => loop[s].at \in {"closed", "lost", "gone"} \/ ~proc'[s].alive
PlacesStay == b'.server = b.server /\ b'.starting = b.starting
SlipsStay == h.slips \subseteq h'.slips

LEMMA ServersStay ==
  ASSUME ServerInv, CallsStay, LivesStay, LoopsStay, PlacesStay, SlipsStay
  PROVE  ServerInv'
<1>1. StartInv'
  BY DEF ServerInv, StartInv, CallsStay, PlacesStay
<1>2. DeadInv'
  BY DEF ServerInv, DeadInv, LivesStay, LoopsStay
<1>3. AliveInv'
  BY DEF ServerInv, AliveInv, LivesStay, PlacesStay, SlipsStay
<1> QED BY <1>1, <1>2, <1>3 DEF ServerInv

LEMMA TypedStays ==
  ASSUME Typed
  PROVE  /\ UNCHANGED nativeOf => NativesTyped'
         /\ UNCHANGED b => BackendTyped' /\ PlacesStay
         /\ UNCHANGED object => ObjectsTyped'
         /\ UNCHANGED call => CallsTyped' /\ CallsStay
         /\ UNCHANGED proc => ProcessesTyped' /\ LivesStay
         /\ UNCHANGED loop => LoopsTyped' /\ LoopsStay
         /\ UNCHANGED h => HistoryTyped' /\ SlipsStay
<1>1. UNCHANGED nativeOf => NativesTyped'
  BY DEF Typed, NativesTyped, known
<1>2. UNCHANGED b => BackendTyped' /\ PlacesStay
  BY DEF Typed, BackendTyped, PlacesStay
<1>3. UNCHANGED object => ObjectsTyped'
  BY DEF Typed, ObjectsTyped
<1>4. UNCHANGED call => CallsTyped' /\ CallsStay
  BY DEF Typed, CallsTyped, CallsStay, Calls, HasThread
<1>5. UNCHANGED proc => ProcessesTyped' /\ LivesStay
  BY DEF Typed, ProcessesTyped, LivesStay
<1>6. UNCHANGED loop => LoopsTyped' /\ LoopsStay
  BY DEF Typed, LoopsTyped, LoopsStay, Loops
<1>7. UNCHANGED h => HistoryTyped' /\ SlipsStay
  BY DEF Typed, HistoryTyped, SlipsStay
<1> QED BY <1>1, <1>2, <1>3, <1>4, <1>5, <1>6, <1>7

LEMMA NoneIsNoPrompt == None \notin Prompts /\ None \notin Threads /\ None \in Servers
BY CodexAssumption DEF Servers

\* The parts of the line a read loop is about to handle.
LEMMA LineParts ==
  ASSUME Typed, NEW s \in Prompts, proc[s].pipe # <<>>
  PROVE  /\ Line(s) \in Lines /\ Line(s)[2] \in Prompts
         /\ Line(s)[1] = "request" => Line(s)[3] \in Ids /\ Line(s)[4] \in Methods
         /\ Rest(s) \in [Prompts -> Processes]
         /\ \A x \in Prompts : Rest(s)[x].alive = proc[x].alive
<1>1. proc[s].pipe \in Seq(Lines) /\ proc \in [Prompts -> Processes]
  BY DEF Typed, ProcessesTyped, Processes
<1>2. Line(s) \in Lines /\ Tail(proc[s].pipe) \in Seq(Lines)
  BY <1>1 DEF Line
<1>3. Line(s)[2] \in Prompts
  BY <1>2 DEF Lines
<1>4. Line(s)[1] = "request" => Line(s)[3] \in Ids /\ Line(s)[4] \in Methods
  BY <1>2 DEF Lines
<1> DEFINE rest == Tail(proc[s].pipe)
<1>5. Rest(s) = [proc EXCEPT ![s] = [proc[s] EXCEPT !.pipe = rest]]
  BY DEF Rest
<1>6. proc[s] \in Processes /\ rest \in Seq(Lines)
  BY <1>1, <1>2
<1> HIDE DEF rest
<1>7. /\ [proc[s] EXCEPT !.pipe = rest] \in Processes
      /\ [proc[s] EXCEPT !.pipe = rest].alive = proc[s].alive
  BY <1>6 DEF Processes
<1>8. Rest(s) \in [Prompts -> Processes] /\ \A x \in Prompts : Rest(s)[x].alive = proc[x].alive
  BY <1>1, <1>5, <1>7
<1> QED BY <1>2, <1>3, <1>4, <1>8

\* Answers written to the server only close what it had asked.
LEMMA AnswersTyped ==
  ASSUME Typed, NEW p \in [Prompts -> Processes], NEW R, AnswerAll(p, R)
  PROVE  /\ ProcessesTyped'
         /\ \A s \in Prompts : proc'[s].alive = p[s].alive
<1>1. CASE proc' = p
  BY <1>1 DEF ProcessesTyped
<1>2. CASE CanAnswer /\ b.server \in Prompts
  <2> DEFINE left == {a \in p[b.server].open : \A q \in R : a[1] # q[1]}
             q == [p[b.server] EXCEPT !.open = left]
  <2>1. proc' = [p EXCEPT ![b.server] = q]
    BY <1>2 DEF AnswerAll
  <2>2. p[b.server] \in Processes /\ left \in SUBSET (Ids \X Prompts \X Methods)
    BY <1>2 DEF Processes
  <2>3. q \in Processes /\ q.alive = p[b.server].alive
    BY <2>2 DEF Processes
  <2> HIDE DEF q
  <2> QED BY <1>2, <2>1, <2>3 DEF ProcessesTyped
<1> QED BY <1>1, <1>2 DEF AnswerAll, CanAnswer, Typed, BackendTyped, Servers

LEMMA CountedTyped ==
  ASSUME Typed, NEW s, NEW R, Counted(s, R)
  PROVE  HistoryTyped' /\ SlipsStay
BY DEF Counted, Typed, HistoryTyped, SlipsStay

\* One prompt moves.
LEMMA CallTyped ==
  ASSUME Typed, NEW c \in Prompts, NEW q \in Calls,
         q.pc \in HasThread => q.th \in Threads, q.pc = "turn" => q.t \in Prompts,
         q.pc \in Starting <=> call[c].pc \in Starting, call' = [call EXCEPT ![c] = q]
  PROVE  CallsTyped' /\ CallsStay
<1>1. call \in [Prompts -> Calls]
  BY DEF Typed, CallsTyped, Calls, HasThread
<1>2. call' \in [Prompts -> Calls] /\ call'[c] = q /\ \A d \in Prompts \ {c} : call'[d] = call[d]
  BY <1>1
<1>3. CallsTyped'
  BY <1>2 DEF Typed, CallsTyped, Calls, HasThread
<1>4. CallsStay
  BY <1>2 DEF CallsStay
<1> QED BY <1>3, <1>4

LEMMA ReturnTyped ==
  ASSUME Typed, NEW c \in Prompts, NEW pc \in {"failed", "panicked", "returned"},
         call[c].pc \notin Starting, Return(c, pc)
  PROVE  CallsTyped' /\ CallsStay
<1> DEFINE q == [NoCall EXCEPT !.pc = pc, !.th = call[c].th]
<1>1. call[c].th \in Threads \cup {None}
  BY DEF Typed, CallsTyped, Calls, HasThread
<1>2. q \in Calls /\ q.pc = pc
  BY <1>1, NoneIsNoPrompt DEF Calls, NoCall, PromptSteps
<1>3. call' = [call EXCEPT ![c] = q]
  BY DEF Return
<1> HIDE DEF q
<1> QED BY <1>2, <1>3, CallTyped DEF Starting, HasThread

\* One object changes.
LEMMA ObjectTyped ==
  ASSUME Typed, NEW t, NEW q \in Objects, object' = [object EXCEPT ![t] = q]
  PROVE  ObjectsTyped'
BY DEF Typed, ObjectsTyped

\* The state of a row is set in its object, if there is one.
LEMMA SetStateTyped ==
  ASSUME Typed, NEW th, NEW state \in RowStates, setState(th, state)
  PROVE  ObjectsTyped'
<1> DEFINE t == thread(th)
<1>1. object \in [Prompts -> Objects]
  BY DEF Typed, ObjectsTyped
<1>2. CASE object' = object
  BY <1>1, <1>2 DEF ObjectsTyped
<1>3. CASE object' = [object EXCEPT ![t].state = state] /\ t \in Prompts
  <2> DEFINE q == [object[t] EXCEPT !.state = state]
  <2>1. q \in Objects
    BY <1>1, <1>3 DEF Objects
  <2>2. object' = [object EXCEPT ![t] = q]
    BY <1>3
  <2> HIDE DEF q, t
  <2> QED BY <2>1, <2>2, ObjectTyped
<1>4. CASE object' = [object EXCEPT ![t].state = state] /\ t \notin Prompts
  <2>1. object' = object
    BY <1>1, <1>4
  <2> QED BY <1>2, <2>1
<1> QED BY <1>2, <1>3, <1>4 DEF setState

\* One read loop moves.
LEMMA LoopTyped ==
  ASSUME Typed, NEW s \in Prompts, NEW q \in Loops, q.at = "finish" => q.t \in Prompts,
         loop' = [loop EXCEPT ![s] = q]
  PROVE  /\ LoopsTyped'
         /\ (q.at \in {"closed", "lost", "gone"} => loop[s].at \in {"closed", "lost", "gone"})
            => LoopsStay
<1>1. loop \in [Prompts -> Loops]
  BY DEF Typed, LoopsTyped, Loops
<1>2. loop' \in [Prompts -> Loops] /\ loop'[s] = q /\ \A d \in Prompts \ {s} : loop'[d] = loop[d]
  BY <1>1
<1>3. LoopsTyped'
  BY <1>2 DEF Typed, LoopsTyped, Loops
<1> QED BY <1>2, <1>3 DEF LoopsStay

LEMMA ThenTyped ==
  ASSUME Typed, NEW s \in Prompts, NEW at \in {"setState", "finish"}, NEW to \in RowStates,
         Owner(s) \in Threads, Object(s) \in Prompts, Then(s, at, to)
  PROVE  LoopsTyped' /\ LoopsStay
<1> DEFINE q == [loop[s] EXCEPT !.at = at, !.th = Owner(s), !.t = Object(s), !.to = to]
<1>1. loop[s] \in Loops /\ loop \in [Prompts -> Loops]
  BY DEF Typed, LoopsTyped, Loops
<1>2. q \in Loops /\ q.at \in {"setState", "finish"} /\ q.t \in Prompts
  BY <1>1 DEF Loops, LoopSteps, Servers
<1>3. loop' = [loop EXCEPT ![s] = q]
  BY <1>1 DEF Then
<1> HIDE DEF q
<1> QED BY <1>2, <1>3, LoopTyped

LEMMA ConversationTyped ==
  ASSUME Typed, NEW c \in Prompts
  PROVE  Conversation(c) \in Prompts
BY DEF Conversation, Typed, CallsTyped, Servers, Calls, HasThread

LEMMA HasServerTyped ==
  ASSUME Typed, NEW c \in Prompts, call[c].pc \in {"ensure", "lock"}, HasServer(c)
  PROVE  CallsTyped' /\ CallsStay
<1> DEFINE q == [call[c] EXCEPT !.pc = "open", !.srv = b.server]
<1>1. call[c] \in Calls /\ call[c].th \in Threads /\ b.server \in Servers
  BY DEF Typed, CallsTyped, Calls, BackendTyped, HasThread
<1>2. q \in Calls /\ q.pc = "open" /\ q.th = call[c].th
  BY <1>1 DEF Calls, PromptSteps
<1>3. call' = [call EXCEPT ![c] = q]
  BY DEF HasServer, Typed, CallsTyped, Calls, HasThread
<1> HIDE DEF q
<1> QED BY <1>1, <1>2, <1>3, CallTyped DEF Starting, HasThread

LEMMA RequestTyped ==
  ASSUME Typed, NEW c \in Prompts, NEW method \in {"thread/start", "turn/start"},
         Request(c, method)
  PROVE  ProcessesTyped' /\ LivesStay
<1> DEFINE s == call[c].srv
           m == <<method, c, Conversation(c)>>
<1>1. m \in Messages
  BY ConversationTyped DEF Messages
<1> HIDE DEF m
<1>2. CASE s \in Prompts
  <2> DEFINE q == [proc[s] EXCEPT !.inbox = IF proc[s].alive THEN @ \cup {m} ELSE @]
  <2>1. proc[s] \in Processes
    BY <1>2 DEF Typed, ProcessesTyped
  <2>2. q \in Processes /\ q.alive = proc[s].alive
    BY <1>1, <2>1 DEF Processes
  <2>3. proc' = [proc EXCEPT ![s] = q]
    BY DEF Request, m
  <2> HIDE DEF q
  <2> QED BY <1>2, <2>2, <2>3 DEF Typed, ProcessesTyped, LivesStay
<1>3. CASE s \notin Prompts
  <2>1. proc' = proc
    BY <1>3 DEF Request, Typed, ProcessesTyped
  <2> QED BY <2>1 DEF Typed, ProcessesTyped, LivesStay
<1> QED BY <1>2, <1>3

LEMMA KilledTyped ==
  ASSUME Typed, NEW s \in Prompts, Killed(s)
  PROVE  ProcessesTyped' /\ LivesStay /\ ~proc'[s].alive
<1> DEFINE q == [NoProcess EXCEPT !.pipe = proc[s].pipe, !.asked = proc[s].asked]
<1>1. proc[s] \in Processes
  BY DEF Typed, ProcessesTyped
<1>2. q \in Processes /\ q.alive = FALSE
  BY <1>1 DEF Processes, NoProcess
<1>3. proc' = [proc EXCEPT ![s] = q]
  BY DEF Killed
<1> HIDE DEF q
<1> QED BY <1>2, <1>3 DEF Typed, ProcessesTyped, LivesStay

LEMMA ServerStepTyped ==
  ASSUME Typed, NEW s \in Prompts, NEW p \in Processes, NEW lines \in Seq(Lines),
         ServerStep(s, p, lines)
  PROVE  ProcessesTyped' /\ LivesStay
<1> DEFINE q == [p EXCEPT !.pipe = p.pipe \o lines]
<1>1. p.pipe \o lines \in Seq(Lines)
  BY DEF Processes
<1>2. q \in Processes
  BY <1>1 DEF Processes
<1>3. proc' = [proc EXCEPT ![s] = q] /\ proc[s].alive
  BY DEF ServerStep
<1> HIDE DEF q
<1> QED BY <1>2, <1>3 DEF Typed, ProcessesTyped, LivesStay

-----------------------------------------------------------------------------
(* The steps of a prompt.                                                  *)

LEMMA ArriveKeeps ==
  ASSUME IInv, NEW c \in Prompts, NEW th \in Threads, Arrive(c, th)
  PROVE  IInv'
<1> USE NoneIsNoPrompt DEF IInv
<1>1. CallsTyped' /\ CallsStay
  <2> DEFINE q == IF thread(th) # None /\ object[thread(th)].turn # None
                    THEN [NoCall EXCEPT !.th = th, !.pc = "failed"]
                    ELSE [NoCall EXCEPT !.th = th, !.pc = "ensure", !.nat = nativeOf[th]]
  <2>1. th \in known /\ call[c].pc = "new" /\ call' = [call EXCEPT ![c] = q]
    BY DEF Arrive
  <2>2. nativeOf[th] \in Servers
    BY <2>1 DEF Typed, NativesTyped
  <2>3. q \in Calls /\ q.th = th /\ q.pc \in {"failed", "ensure"}
    BY <2>2 DEF Calls, NoCall, PromptSteps
  <2> HIDE DEF q
  <2> QED BY <2>1, <2>3, CallTyped DEF Starting, HasThread
<1>2. UNCHANGED <<nativeOf, b, object, proc, loop, h>>
  BY DEF Arrive
<1>3. Typed'
  BY <1>1, <1>2, TypedStays DEF Typed
<1>4. ServerInv'
  BY <1>1, <1>2, TypedStays, ServersStay
<1> QED BY <1>3, <1>4

LEMMA ensureServerKeeps ==
  ASSUME IInv, NEW c \in Prompts, ensureServer(c)
  PROVE  IInv'
<1> USE NoneIsNoPrompt DEF IInv
<1>1. CallsTyped' /\ CallsStay
  BY DEF ensureServer, HasServer, Goto, BackendTyped, Typed, CallsTyped, CallsStay,
     PromptSteps, Starting, Servers, NoCall, Calls, HasThread
<1>2. UNCHANGED <<nativeOf, b, object, proc, loop, h>>
  BY DEF ensureServer
<1>3. Typed'
  BY <1>1, <1>2, TypedStays DEF Typed
<1>4. ServerInv'
  BY <1>1, <1>2, TypedStays, ServersStay
<1> QED BY <1>3, <1>4

LEMMA StartServerKeeps ==
  ASSUME IInv, NEW c \in Prompts, StartServer(c)
  PROVE  IInv'
<1> USE NoneIsNoPrompt DEF IInv
<1>1. call[c].pc = "lock" /\ b.starting = None /\ UNCHANGED <<nativeOf, object, h>>
  BY DEF StartServer
<1>2. CASE (HasServer(c) \/ Return(c, "failed")) /\ UNCHANGED <<b, proc, loop>>
  <2>1. HasServer(c) => CallsTyped' /\ CallsStay
    BY <1>1, HasServerTyped
  <2>2. Return(c, "failed") => CallsTyped' /\ CallsStay
    BY <1>1, ReturnTyped DEF Starting
  <2>3. CallsTyped' /\ CallsStay
    BY <1>2, <2>1, <2>2
  <2> QED BY <1>1, <1>2, <2>3, TypedStays, ServersStay DEF Typed
<1>3. CASE b.server = None /\ Dial(c)
  <2>1. BackendTyped' /\ b'.server = None /\ b'.starting = c
    BY <1>3 DEF Dial, Typed, BackendTyped, Servers
  <2>2. /\ CallsTyped' /\ call'[c].pc = "initialize"
        /\ \A d \in Prompts \ {c} : call'[d] = call[d]
    BY <1>1, <1>3 DEF Dial, Typed, CallsTyped, PromptSteps, Servers, Calls, HasThread
  <2>3. /\ LoopsTyped' /\ loop'[c].at = "read"
        /\ \A s \in Prompts \ {c} : loop'[s] = loop[s]
    BY <1>3 DEF Dial, AtRead, NotStarted, Typed, LoopsTyped, LoopSteps, RowStates,
       Servers, Loops
  <2>4. ProcessesTyped' /\ \A s \in Prompts \ {c} : proc'[s] = proc[s]
    <3> DEFINE q == [proc[c] EXCEPT !.alive = TRUE, !.inbox = {<<"initialize", c, None>>}]
    <3>1. q \in Processes
      <4>1. {<<"initialize", c, None>>} \in SUBSET Messages
        BY DEF Messages
      <4>2. proc[c] \in Processes
        BY DEF Typed, ProcessesTyped
      <4> QED BY <4>1, <4>2 DEF Processes
    <3>2. proc' = [proc EXCEPT ![c] = q]
      BY <1>3 DEF Dial, Typed, ProcessesTyped
    <3> HIDE DEF q
    <3> QED BY <3>1, <3>2 DEF Typed, ProcessesTyped
  <2>5. Typed'
    BY <1>1, <2>1, <2>2, <2>3, <2>4, TypedStays DEF Typed
  <2>6. StartInv'
    BY <1>1, <2>1, <2>2 DEF ServerInv, StartInv, Starting
  <2>7. DeadInv'
    BY <2>3, <2>4 DEF ServerInv, DeadInv
  <2>8. AliveInv'
    BY <1>1, <1>3, <2>1, <2>4 DEF ServerInv, AliveInv
  <2> QED BY <2>5, <2>6, <2>7, <2>8 DEF ServerInv
<1> QED BY <1>2, <1>3 DEF StartServer

LEMMA InitializedKeeps ==
  ASSUME IInv, NEW c \in Prompts, Initialized(c)
  PROVE  IInv'
<1> USE NoneIsNoPrompt DEF IInv
<1>1. CallsTyped' /\ CallsStay
  BY DEF Initialized, Typed, CallsTyped, CallsStay, PromptSteps, Starting, Servers,
     NoCall, Calls, HasThread
<1>2. UNCHANGED <<nativeOf, b, object, proc, loop, h>>
  BY DEF Initialized
<1>3. Typed'
  BY <1>1, <1>2, TypedStays DEF Typed
<1>4. ServerInv'
  BY <1>1, <1>2, TypedStays, ServersStay
<1> QED BY <1>3, <1>4

LEMMA InitializeFailsKeeps ==
  ASSUME IInv, NEW c \in Prompts, InitializeFails(c)
  PROVE  IInv'
<1> USE NoneIsNoPrompt DEF IInv
<1>1. CallsTyped' /\ CallsStay
  BY DEF InitializeFails, Goto, Typed, CallsTyped, CallsStay, PromptSteps, Starting,
     Servers, NoCall, Calls, HasThread
<1>2. ProcessesTyped' /\ LivesStay
  BY KilledTyped DEF InitializeFails
<1>3. UNCHANGED <<nativeOf, b, object, loop, h>>
  BY DEF InitializeFails
<1>4. Typed'
  BY <1>1, <1>2, <1>3, TypedStays DEF Typed
<1>5. ServerInv'
  BY <1>1, <1>2, <1>3, TypedStays, ServersStay
<1> QED BY <1>4, <1>5

LEMMA StopReturnsKeeps ==
  ASSUME IInv, NEW c \in Prompts, StopReturns(c)
  PROVE  IInv'
<1> USE NoneIsNoPrompt DEF IInv
<1>1. BackendTyped' /\ b'.server = b.server /\ b'.starting = None
  BY DEF StopReturns, Typed, BackendTyped, Servers
<1>2. /\ CallsTyped' /\ call[c].pc = "stop" /\ call'[c].pc = "failed"
      /\ \A d \in Prompts \ {c} : call'[d] = call[d]
  BY DEF StopReturns, Return, NoCall, Typed, CallsTyped, PromptSteps, Servers, Calls,
     HasThread
<1>3. loop[c].at \in {"closed", "lost", "gone"} /\ UNCHANGED <<nativeOf, object, proc, loop, h>>
  BY DEF StopReturns
<1>4. Typed'
  BY <1>1, <1>2, <1>3, TypedStays DEF Typed
<1>5. StartInv'
  BY <1>1, <1>2 DEF ServerInv, StartInv, Starting
<1>6. DeadInv'
  BY <1>3 DEF ServerInv, DeadInv
<1>7. AliveInv'
  <2>1. b.starting = c /\ ~proc[c].alive
    BY <1>2, <1>3 DEF ServerInv, StartInv, DeadInv, Starting
  <2> QED BY <1>1, <1>3, <2>1 DEF ServerInv, AliveInv
<1> QED BY <1>4, <1>5, <1>6, <1>7 DEF ServerInv

LEMMA StoreServerKeeps ==
  ASSUME IInv, NEW c \in Prompts, StoreServer(c)
  PROVE  IInv'
<1> USE NoneIsNoPrompt DEF IInv
<1>1. BackendTyped' /\ b'.server = c /\ b'.starting = None
  BY DEF StoreServer, Typed, BackendTyped, Servers
<1>2. /\ CallsTyped' /\ call[c].pc = "store" /\ call'[c].pc = "open"
      /\ \A d \in Prompts \ {c} : call'[d] = call[d]
  BY DEF StoreServer, Goto, Typed, CallsTyped, PromptSteps, Servers, Calls, HasThread
<1>3. UNCHANGED <<nativeOf, object, proc, loop, h>>
  BY DEF StoreServer
<1>4. Typed'
  BY <1>1, <1>2, <1>3, TypedStays DEF Typed
<1>5. StartInv'
  BY <1>1, <1>2 DEF ServerInv, StartInv, Starting
<1>6. DeadInv'
  BY <1>3 DEF ServerInv, DeadInv
<1>7. AliveInv'
  <2>1. b.starting = c /\ b.server = None
    BY <1>2 DEF ServerInv, StartInv, Starting
  <2> QED BY <1>1, <1>3, <2>1 DEF ServerInv, AliveInv
<1> QED BY <1>4, <1>5, <1>6, <1>7 DEF ServerInv

LEMMA openThreadKeeps ==
  ASSUME IInv, NEW c \in Prompts, openThread(c)
  PROVE  IInv'
<1> USE NoneIsNoPrompt DEF IInv
<1>1. CallsTyped' /\ CallsStay
  BY DEF openThread, Goto, Typed, CallsTyped, CallsStay, PromptSteps, Starting, Servers,
     NoCall, Calls, HasThread
<1>2. ProcessesTyped' /\ LivesStay
  BY TypedStays, RequestTyped DEF openThread, Typed, ProcessesTyped, LivesStay
<1>3. UNCHANGED <<nativeOf, b, object, loop, h>>
  BY DEF openThread
<1>4. Typed'
  BY <1>1, <1>2, <1>3, TypedStays DEF Typed
<1>5. ServerInv'
  BY <1>1, <1>2, <1>3, TypedStays, ServersStay
<1> QED BY <1>4, <1>5

LEMMA OpenedKeeps ==
  ASSUME IInv, NEW c \in Prompts, Opened(c)
  PROVE  IInv'
<1> USE NoneIsNoPrompt DEF IInv
<1>a. Conversation(c) \in Prompts /\ call[c].th \in Threads
  BY ConversationTyped DEF Opened, Typed, CallsTyped, Calls, HasThread
<1>1. NativesTyped'
  BY <1>a DEF Opened, Typed, NativesTyped, known, Servers
<1>2. BackendTyped' /\ PlacesStay
  BY <1>a DEF Opened, Typed, BackendTyped, PlacesStay, Servers
<1>3. ObjectsTyped'
  BY <1>a DEF Opened, newThread, CallsTyped, Typed, ObjectsTyped, Objects, Servers,
     RowStates, Calls, HasThread
<1>4. CallsTyped' /\ CallsStay
  BY <1>a DEF Opened, Typed, CallsTyped, CallsStay, PromptSteps, Starting, Servers,
     NoCall, Calls, HasThread
<1>5. HistoryTyped' /\ SlipsStay
  BY DEF Opened, Typed, HistoryTyped, SlipsStay
<1>6. UNCHANGED <<proc, loop>>
  BY DEF Opened
<1>7. Typed'
  BY <1>1, <1>2, <1>3, <1>4, <1>5, <1>6, TypedStays DEF Typed
<1>8. ServerInv'
  BY <1>1, <1>2, <1>3, <1>4, <1>5, <1>6, TypedStays, ServersStay
<1> QED BY <1>7, <1>8

LEMMA ClaimKeeps ==
  ASSUME IInv, NEW c \in Prompts, Claim(c)
  PROVE  IInv'
<1> USE NoneIsNoPrompt DEF IInv
<1>a. call[c].th \in Threads /\ thread(call[c].th) \in Servers
  BY DEF Claim, Typed, CallsTyped, BackendTyped, thread, Calls, HasThread
<1>1. ObjectsTyped'
  BY <1>a DEF Claim, Typed, ObjectsTyped, Objects, Servers, RowStates
<1>2. CallsTyped' /\ CallsStay
  <2> DEFINE t == thread(call[c].th)
             q == [call[c] EXCEPT !.pc = "turn", !.t = t]
  <2>1. call[c].pc = "claim" /\ call \in [Prompts -> Calls]
    BY DEF Claim, Typed, CallsTyped, Calls, HasThread
  <2>2. CASE Return(c, "panicked")
    BY <2>1, <2>2, ReturnTyped DEF Starting
  <2>3. CASE t # None /\ call' = [call EXCEPT ![c].pc = "turn", ![c].t = t]
    <3>1. q \in Calls /\ q.pc = "turn" /\ q.t \in Prompts /\ q.th \in Threads
      BY <1>a, <2>1, <2>3 DEF Calls, PromptSteps, Servers
    <3>2. call' = [call EXCEPT ![c] = q]
      BY <2>1, <2>3
    <3> HIDE DEF q, t
    <3> QED BY <2>1, <3>1, <3>2, CallTyped DEF Starting
  <2> QED BY <2>2, <2>3 DEF Claim
<1>3. ProcessesTyped' /\ LivesStay
  BY TypedStays, RequestTyped DEF Claim, Typed, ProcessesTyped, LivesStay
<1>4. HistoryTyped' /\ SlipsStay
  BY DEF Claim, Typed, HistoryTyped, SlipsStay
<1>5. UNCHANGED <<nativeOf, b, loop>>
  BY DEF Claim
<1>6. Typed'
  BY <1>1, <1>2, <1>3, <1>4, <1>5, TypedStays DEF Typed
<1>7. ServerInv'
  BY <1>1, <1>2, <1>3, <1>4, <1>5, TypedStays, ServersStay
<1> QED BY <1>6, <1>7

LEMMA CallFailsKeeps ==
  ASSUME IInv, NEW c \in Prompts, CallFails(c)
  PROVE  IInv'
<1> USE NoneIsNoPrompt DEF IInv
<1>1. ObjectsTyped'
  BY DEF CallFails, Typed, ObjectsTyped, Objects, Servers, RowStates
<1>2. CallsTyped' /\ CallsStay
  BY DEF CallFails, Return, Typed, CallsTyped, CallsStay, PromptSteps, Starting, Servers,
     NoCall, Calls, HasThread
<1>3. HistoryTyped' /\ SlipsStay
  BY DEF CallFails, Typed, HistoryTyped, SlipsStay
<1>4. UNCHANGED <<nativeOf, b, proc, loop>>
  BY DEF CallFails
<1>5. Typed'
  BY <1>1, <1>2, <1>3, <1>4, TypedStays DEF Typed
<1>6. ServerInv'
  BY <1>1, <1>2, <1>3, <1>4, TypedStays, ServersStay
<1> QED BY <1>5, <1>6

LEMMA PromptReturnsKeeps ==
  ASSUME IInv, NEW c \in Prompts, PromptReturns(c)
  PROVE  IInv'
<1> USE NoneIsNoPrompt DEF IInv
<1>1. ObjectsTyped'
  BY SetStateTyped DEF PromptReturns, CallsTyped, Typed, ObjectsTyped, Objects, Servers,
     RowStates, Calls, HasThread
<1>2. CallsTyped' /\ CallsStay
  BY DEF PromptReturns, Return, Typed, CallsTyped, CallsStay, PromptSteps, Starting,
     Servers, NoCall, Calls, HasThread
<1>3. UNCHANGED <<nativeOf, b, proc, loop, h>>
  BY DEF PromptReturns
<1>4. Typed'
  BY <1>1, <1>2, <1>3, TypedStays DEF Typed
<1>5. ServerInv'
  BY <1>1, <1>2, <1>3, TypedStays, ServersStay
<1> QED BY <1>4, <1>5

-----------------------------------------------------------------------------
(* The owner's other requests.                                             *)

LEMMA InterruptKeeps ==
  ASSUME IInv, NEW th \in Threads, Interrupt(th)
  PROVE  IInv'
<1> USE NoneIsNoPrompt DEF IInv
<1>1. ObjectsTyped'
  BY DEF Interrupt, thread, BackendTyped, Typed, ObjectsTyped, Objects, Servers, RowStates
<1>2. UNCHANGED <<nativeOf, b, call, proc, loop, h>>
  BY DEF Interrupt
<1>3. Typed'
  BY <1>1, <1>2, TypedStays DEF Typed
<1>4. ServerInv'
  BY <1>1, <1>2, TypedStays, ServersStay
<1> QED BY <1>3, <1>4

LEMMA RespondTakesKeeps ==
  ASSUME IInv, NEW o \in Owners, NEW th \in Threads, NEW a \in Ids \X Methods,
         RespondTakes(o, th, a)
  PROVE  IInv'
<1> USE NoneIsNoPrompt DEF IInv
<1>1. ObjectsTyped'
  <2> DEFINE t == thread(th)
             q == [object[t] EXCEPT !.pending = @ \ {a}]
  <2>1. t # None /\ object' = [object EXCEPT ![t].pending = @ \ {a}]
    BY DEF RespondTakes
  <2>2. t \in Prompts
    BY <2>1 DEF Typed, BackendTyped, thread, Servers
  <2>3. object[t] \in Objects /\ object' = [object EXCEPT ![t] = q]
    BY <2>1, <2>2 DEF Typed, ObjectsTyped
  <2>4. q \in Objects
    BY <2>3 DEF Objects
  <2> HIDE DEF q, t
  <2> QED BY <2>3, <2>4, ObjectTyped
<1>2. UNCHANGED <<nativeOf, b, call, proc, loop, h>>
  BY DEF RespondTakes
<1>3. Typed'
  BY <1>1, <1>2, TypedStays DEF Typed
<1>4. ServerInv'
  BY <1>1, <1>2, TypedStays, ServersStay
<1> QED BY <1>3, <1>4

LEMMA RespondKeeps ==
  ASSUME IInv, NEW o \in Owners, Respond(o)
  PROVE  IInv'
<1> USE NoneIsNoPrompt DEF IInv
<1>1. ObjectsTyped'
  <2>1. (\E th : setState(th, "running")) => ObjectsTyped'
    BY SetStateTyped DEF RowStates
  <2> QED BY <2>1, TypedStays DEF Respond
<1>2. ProcessesTyped' /\ LivesStay
  <2>1. (\E R : AnswerAll(proc, R)) => ProcessesTyped' /\ LivesStay
    BY AnswersTyped DEF Typed, ProcessesTyped, LivesStay
  <2> QED BY <2>1, TypedStays DEF Respond
<1>3. HistoryTyped' /\ SlipsStay
  <2>1. (\E s, R : Counted(s, R)) => HistoryTyped' /\ SlipsStay
    BY CountedTyped
  <2> QED BY <2>1, TypedStays DEF Respond
<1>4. UNCHANGED <<nativeOf, b, call, loop>>
  BY DEF Respond
<1>5. Typed'
  BY <1>1, <1>2, <1>3, <1>4, TypedStays DEF Typed
<1>6. ServerInv'
  BY <1>1, <1>2, <1>3, <1>4, TypedStays, ServersStay
<1> QED BY <1>5, <1>6

LEMMA DiscardKeeps ==
  ASSUME IInv, NEW th \in Threads, Discard(th)
  PROVE  IInv'
<1> USE NoneIsNoPrompt DEF IInv
<1>1. NativesTyped'
  BY DEF Discard, Typed, NativesTyped, known, Servers
<1>2. BackendTyped' /\ PlacesStay
  BY DEF Discard, Typed, BackendTyped, PlacesStay, Servers
<1>3. ProcessesTyped' /\ LivesStay
  <2>1. CASE UNCHANGED proc
    BY <2>1, TypedStays
  <2>2. CASE CanAnswer
    <3> DEFINE n == nativeOf[th]
               s == b.server
               left == {a \in proc[s].open : a[2] # n}
               q == [proc[s] EXCEPT !.work = proc[s].work \ {n}, !.convs = proc[s].convs \ {n},
                                    !.open = left]
    <3>1. s \in Prompts /\ proc \in [Prompts -> Processes]
      BY <2>2 DEF CanAnswer, Typed, BackendTyped, ProcessesTyped, Servers
    <3>2. proc' = [proc EXCEPT ![s] = q]
      BY <2>2, <3>1 DEF Discard
    <3>3. left \in SUBSET (Ids \X Prompts \X Methods) /\ proc[s] \in Processes
      BY <3>1 DEF Processes
    <3> HIDE DEF left
    <3>4. q \in Processes /\ q.alive = proc[s].alive
      BY <3>3 DEF Processes
    <3> HIDE DEF q, s
    <3> QED BY <3>1, <3>2, <3>4 DEF ProcessesTyped, LivesStay
  <2> QED BY <2>1, <2>2 DEF Discard
<1>4. UNCHANGED <<object, call, loop, h>>
  BY DEF Discard
<1>5. Typed'
  BY <1>1, <1>2, <1>3, <1>4, TypedStays DEF Typed
<1>6. ServerInv'
  BY <1>1, <1>2, <1>3, <1>4, TypedStays, ServersStay
<1> QED BY <1>5, <1>6

-----------------------------------------------------------------------------
(* The server.                                                             *)

LEMMA ServerTakesKeeps ==
  ASSUME IInv, NEW s \in Prompts, NEW m \in proc[s].inbox, ServerTakes(s, m)
  PROVE  IInv'
<1> USE NoneIsNoPrompt DEF IInv
<1>1. ProcessesTyped' /\ LivesStay
  <2> DEFINE n == m[3]
             answer == <<<<"answer", m[2]>>>>
             p == [proc[s] EXCEPT !.inbox = proc[s].inbox \ {m}]
  <2>1. proc[s] \in Processes /\ m \in Messages
    BY DEF Typed, ProcessesTyped, Processes
  <2>2. m[2] \in Prompts /\ (m[1] \in {"thread/start", "turn/start"} => n \in Prompts)
    BY <2>1 DEF Messages
  <2>3. answer \in Seq(Lines)
    BY <2>2 DEF Lines
  <2>4. p \in Processes
    BY <2>1 DEF Processes
  <2>5. CASE m[1] = "initialize" /\ ServerStep(s, p, answer)
    <3> HIDE DEF p, answer
    <3> QED BY <2>3, <2>4, <2>5, ServerStepTyped
  <2>6. CASE m[1] = "thread/start"
             /\ ServerStep(s, [p EXCEPT !.convs = p.convs \cup {n}], answer)
    <3> HIDE DEF p, answer
    <3>1. [p EXCEPT !.convs = p.convs \cup {n}] \in Processes
      BY <2>2, <2>4, <2>6 DEF Processes
    <3> QED BY <2>3, <2>6, <3>1, ServerStepTyped
  <2>7. CASE m[1] = "turn/start"
             /\ ServerStep(s, [p EXCEPT !.work = p.work \cup {n}],
                           answer \o <<<<"turn/started", n>>>>)
    <3>1. <<<<"turn/started", n>>>> \in Seq(Lines)
      BY <2>2, <2>7 DEF Lines
    <3> DEFINE more == <<<<"turn/started", n>>>>
    <3> HIDE DEF p, answer, more
    <3>2. [p EXCEPT !.work = p.work \cup {n}] \in Processes
      BY <2>2, <2>4, <2>7 DEF Processes
    <3>3. answer \o more \in Seq(Lines)
      BY <2>3, <3>1 DEF more
    <3> QED BY <2>7, <3>2, <3>3, ServerStepTyped DEF more
  <2> QED BY <2>5, <2>6, <2>7 DEF ServerTakes
<1>2. UNCHANGED <<nativeOf, b, object, call, loop, h>>
  BY DEF ServerTakes, ServerStep
<1>3. Typed'
  BY <1>1, <1>2, TypedStays DEF Typed
<1>4. ServerInv'
  BY <1>1, <1>2, TypedStays, ServersStay
<1> QED BY <1>3, <1>4

LEMMA ServerAsksKeeps ==
  ASSUME IInv, NEW s \in Prompts, NEW n \in Prompts, NEW method \in Methods,
         ServerAsks(s, n, method)
  PROVE  IInv'
<1> USE NoneIsNoPrompt DEF IInv
<1>1. ProcessesTyped' /\ LivesStay
  <2> DEFINE id == proc[s].asked + 1
             lines == <<<<"request", n, id, method>>>>
             q == [proc[s] EXCEPT !.asked = id, !.open = proc[s].open \cup {<<id, n, method>>}]
  <2>1. id \in Ids /\ ServerStep(s, q, lines)
    BY DEF ServerAsks, Ids
  <2>2. lines \in Seq(Lines)
    BY <2>1 DEF Lines
  <2>3. proc[s] \in Processes /\ <<id, n, method>> \in Ids \X Prompts \X Methods
    BY <2>1 DEF Typed, ProcessesTyped
  <2>4. proc[s].open \cup {<<id, n, method>>} \in SUBSET (Ids \X Prompts \X Methods) /\ id \in Nat
    BY <2>1, <2>3, CodexAssumption DEF Processes, Ids
  <2>5. q \in Processes
    BY <2>3, <2>4 DEF Processes
  <2> HIDE DEF lines, q
  <2> QED BY <2>1, <2>2, <2>5, ServerStepTyped
<1>2. UNCHANGED <<nativeOf, b, object, call, loop, h>>
  BY DEF ServerAsks, ServerStep
<1>3. Typed'
  BY <1>1, <1>2, TypedStays DEF Typed
<1>4. ServerInv'
  BY <1>1, <1>2, TypedStays, ServersStay
<1> QED BY <1>3, <1>4

LEMMA ServerCompletesKeeps ==
  ASSUME IInv, NEW s \in Prompts, NEW n \in Prompts, ServerCompletes(s, n)
  PROVE  IInv'
<1> USE NoneIsNoPrompt DEF IInv
<1>1. ProcessesTyped' /\ LivesStay
  <2> DEFINE lines == <<<<"turn/completed", n>>>>
             left == {a \in proc[s].open : a[2] # n}
             q == [proc[s] EXCEPT !.work = proc[s].work \ {n}, !.open = left]
  <2>1. ServerStep(s, q, lines)
    BY DEF ServerCompletes
  <2>2. lines \in Seq(Lines)
    BY DEF Lines
  <2>3. proc[s] \in Processes
    BY DEF Typed, ProcessesTyped
  <2>4. left \in SUBSET (Ids \X Prompts \X Methods)
    BY <2>3 DEF Processes
  <2>5. q \in Processes
    <3> HIDE DEF left
    <3> QED BY <2>3, <2>4 DEF Processes
  <2> HIDE DEF lines, q
  <2> QED BY <2>1, <2>2, <2>5, ServerStepTyped
<1>2. UNCHANGED <<nativeOf, b, object, call, loop, h>>
  BY DEF ServerCompletes, ServerStep
<1>3. Typed'
  BY <1>1, <1>2, TypedStays DEF Typed
<1>4. ServerInv'
  BY <1>1, <1>2, TypedStays, ServersStay
<1> QED BY <1>3, <1>4

LEMMA ServerDiesKeeps ==
  ASSUME IInv, NEW s \in Prompts, ServerDies(s)
  PROVE  IInv'
<1> USE NoneIsNoPrompt DEF IInv
<1>1. ProcessesTyped' /\ LivesStay
  BY KilledTyped DEF ServerDies
<1>2. UNCHANGED <<nativeOf, b, object, call, loop, h>>
  BY DEF ServerDies
<1>3. Typed'
  BY <1>1, <1>2, TypedStays DEF Typed
<1>4. ServerInv'
  BY <1>1, <1>2, TypedStays, ServersStay
<1> QED BY <1>3, <1>4

-----------------------------------------------------------------------------
(* The read loop.                                                          *)

LEMMA resolveKeeps ==
  ASSUME IInv, NEW s \in Prompts, resolve(s)
  PROVE  IInv'
<1> USE NoneIsNoPrompt DEF IInv
<1>1. CallsTyped' /\ CallsStay
  <2> DEFINE c == Line(s)[2]
             q == [call[c] EXCEPT !.answered = TRUE]
  <2>1. c \in Prompts
    BY LineParts DEF resolve, HasLine
  <2>2. call[c] \in Calls
    BY <2>1 DEF Typed, CallsTyped, Calls, HasThread
  <2>3. q \in Calls /\ q.pc = call[c].pc /\ q.th = call[c].th /\ q.t = call[c].t
    BY <2>2 DEF Calls
  <2>4. call' = [call EXCEPT ![c] = q] \/ UNCHANGED call
    BY DEF resolve
  <2>5. /\ call[c].pc \in HasThread => call[c].th \in Threads
        /\ call[c].pc = "turn" => call[c].t \in Prompts
    BY <2>1 DEF Typed, CallsTyped, HasThread, Calls
  <2> HIDE DEF c, q
  <2> QED BY <2>1, <2>3, <2>4, <2>5, CallTyped, TypedStays
<1>2. ProcessesTyped' /\ LivesStay
  BY LineParts DEF resolve, HasLine, Typed, ProcessesTyped, LivesStay
<1>3. UNCHANGED <<nativeOf, b, object, loop, h>>
  BY DEF resolve
<1>4. Typed'
  BY <1>1, <1>2, <1>3, TypedStays DEF Typed
<1>5. ServerInv'
  BY <1>1, <1>2, <1>3, TypedStays, ServersStay
<1> QED BY <1>4, <1>5

LEMMA onUnknownKeeps ==
  ASSUME IInv, NEW s \in Prompts, onUnknown(s)
  PROVE  IInv'
<1> USE NoneIsNoPrompt DEF IInv
<1>1. ProcessesTyped' /\ LivesStay
  BY LineParts DEF onUnknown, HasLine, Typed, ProcessesTyped, LivesStay
<1>2. UNCHANGED <<nativeOf, b, object, call, loop, h>>
  BY DEF onUnknown
<1>3. Typed'
  BY <1>1, <1>2, TypedStays DEF Typed
<1>4. ServerInv'
  BY <1>1, <1>2, TypedStays, ServersStay
<1> QED BY <1>3, <1>4

LEMMA declineUnknownKeeps ==
  ASSUME IInv, NEW s \in Prompts, declineUnknown(s)
  PROVE  IInv'
<1> USE NoneIsNoPrompt DEF IInv
<1>1. ProcessesTyped' /\ LivesStay
  BY LineParts, AnswersTyped DEF declineUnknown, HasLine, Declines, Typed, ProcessesTyped,
     LivesStay
<1>2. HistoryTyped' /\ SlipsStay
  BY CountedTyped DEF declineUnknown
<1>3. UNCHANGED <<nativeOf, b, object, call, loop>>
  BY DEF declineUnknown
<1>4. Typed'
  BY <1>1, <1>2, <1>3, TypedStays DEF Typed
<1>5. ServerInv'
  BY <1>1, <1>2, <1>3, TypedStays, ServersStay
<1> QED BY <1>4, <1>5

LEMMA onTurnStartedKeeps ==
  ASSUME IInv, NEW s \in Prompts, onTurnStarted(s)
  PROVE  IInv'
<1> USE NoneIsNoPrompt DEF IInv
<1>a. /\ Line(s)[2] \in Prompts /\ Rest(s) \in [Prompts -> Processes]
      /\ \A x \in Prompts : Rest(s)[x].alive = proc[x].alive
      /\ Line(s)[1] = "request" => Line(s)[3] \in Ids /\ Line(s)[4] \in Methods
  BY LineParts DEF onTurnStarted, HasLine
<1>b. Owner(s) \in Threads /\ Object(s) \in Prompts
  BY <1>a DEF onTurnStarted, IsKnown, Owner, Object, thread, Typed, BackendTyped, Servers
<1>1. ObjectsTyped'
  BY <1>b DEF onTurnStarted, Typed, ObjectsTyped, Objects, Servers, RowStates
<1>2. ProcessesTyped' /\ LivesStay
  BY <1>a DEF onTurnStarted, Typed, ProcessesTyped, LivesStay
<1>3. LoopsTyped' /\ LoopsStay
  BY <1>b, ThenTyped DEF onTurnStarted, RowStates
<1>4. UNCHANGED <<nativeOf, b, call, h>>
  BY DEF onTurnStarted
<1>5. Typed'
  BY <1>1, <1>2, <1>3, <1>4, TypedStays DEF Typed
<1>6. ServerInv'
  BY <1>1, <1>2, <1>3, <1>4, TypedStays, ServersStay
<1> QED BY <1>5, <1>6

LEMMA onRequestKeeps ==
  ASSUME IInv, NEW s \in Prompts, onRequest(s)
  PROVE  IInv'
<1> USE NoneIsNoPrompt DEF IInv
<1>a. /\ Line(s)[2] \in Prompts /\ Rest(s) \in [Prompts -> Processes]
      /\ \A x \in Prompts : Rest(s)[x].alive = proc[x].alive
      /\ Line(s)[1] = "request" => Line(s)[3] \in Ids /\ Line(s)[4] \in Methods
  BY LineParts DEF onRequest, HasLine
<1>b. Owner(s) \in Threads /\ Object(s) \in Prompts
  BY <1>a DEF onRequest, Declines, IsKnown, Owner, Object, thread, Typed, BackendTyped, Servers
<1>1. ObjectsTyped'
  <2> DEFINE a == <<Line(s)[3], Line(s)[4]>>
             t == Object(s)
             q == [object[t] EXCEPT !.pending = object[t].pending \cup {a}]
  <2>1. object' = [object EXCEPT ![t].pending = @ \cup {a}] /\ Line(s)[1] = "request"
    BY DEF onRequest, HasLine
  <2>2. a \in Ids \X Methods /\ object[t] \in Objects
    BY <1>a, <1>b, <2>1 DEF Typed, ObjectsTyped
  <2> HIDE DEF a
  <2>3. q \in Objects /\ object' = [object EXCEPT ![t] = q]
    BY <1>b, <2>1, <2>2 DEF Objects, Typed, ObjectsTyped
  <2> HIDE DEF q, t
  <2> QED BY <2>3, ObjectTyped
<1>2. ProcessesTyped' /\ LivesStay
  BY <1>a DEF onRequest, Typed, ProcessesTyped, LivesStay
<1>3. LoopsTyped' /\ LoopsStay
  BY <1>b, ThenTyped DEF onRequest, RowStates
<1>4. UNCHANGED <<nativeOf, b, call, h>>
  BY DEF onRequest
<1>5. Typed'
  BY <1>1, <1>2, <1>3, <1>4, TypedStays DEF Typed
<1>6. ServerInv'
  BY <1>1, <1>2, <1>3, <1>4, TypedStays, ServersStay
<1> QED BY <1>5, <1>6

LEMMA resolveAllPendingKeeps ==
  ASSUME IInv, NEW s \in Prompts, resolveAllPending(s)
  PROVE  IInv'
<1> USE NoneIsNoPrompt DEF IInv
<1>a. /\ Line(s)[2] \in Prompts /\ Rest(s) \in [Prompts -> Processes]
      /\ \A x \in Prompts : Rest(s)[x].alive = proc[x].alive
      /\ Line(s)[1] = "request" => Line(s)[3] \in Ids /\ Line(s)[4] \in Methods
  BY LineParts DEF resolveAllPending, HasLine
<1>b. Owner(s) \in Threads /\ Object(s) \in Prompts
  BY <1>a DEF resolveAllPending, IsKnown, Owner, Object, thread, Typed, BackendTyped, Servers
<1>1. ObjectsTyped'
  BY <1>b DEF resolveAllPending, Typed, ObjectsTyped, Objects, Servers, RowStates
<1>2. ProcessesTyped' /\ LivesStay
  BY <1>a, AnswersTyped DEF resolveAllPending, Typed, ProcessesTyped, LivesStay
<1>3. LoopsTyped' /\ LoopsStay
  BY <1>b, ThenTyped DEF resolveAllPending, RowStates
<1>4. HistoryTyped' /\ SlipsStay
  BY CountedTyped DEF resolveAllPending
<1>5. UNCHANGED <<nativeOf, b, call>>
  BY DEF resolveAllPending
<1>6. Typed'
  BY <1>1, <1>2, <1>3, <1>4, <1>5, TypedStays DEF Typed
<1>7. ServerInv'
  BY <1>1, <1>2, <1>3, <1>4, <1>5, TypedStays, ServersStay
<1> QED BY <1>6, <1>7

LEMMA onTurnCompletedKeeps ==
  ASSUME IInv, NEW s \in Prompts, onTurnCompleted(s)
  PROVE  IInv'
<1> USE NoneIsNoPrompt DEF IInv
<1>1. ObjectsTyped'
  <2> DEFINE t == loop[s].t
             q == [object[t] EXCEPT !.turn = None, !.turnID = FALSE, !.interrupted = None]
  <2>1. t \in Prompts
    BY DEF onTurnCompleted, Typed, LoopsTyped, Loops
  <2>2. object[t] \in Objects /\ object' = [object EXCEPT ![t] = q]
    BY <2>1 DEF onTurnCompleted, Typed, ObjectsTyped
  <2>3. q \in Objects
    BY <2>2 DEF Objects
  <2> HIDE DEF q, t
  <2> QED BY <2>2, <2>3, ObjectTyped
<1>2. LoopsTyped' /\ LoopsStay
  BY DEF onTurnCompleted, Typed, LoopsTyped, LoopsStay, LoopSteps, RowStates, Servers,
     Loops
<1>3. HistoryTyped' /\ SlipsStay
  BY DEF onTurnCompleted, Ended, LoopsTyped, ObjectsTyped, Objects, Servers, Typed,
     HistoryTyped, SlipsStay, Loops
<1>4. UNCHANGED <<nativeOf, b, call, proc>>
  BY DEF onTurnCompleted
<1>5. Typed'
  BY <1>1, <1>2, <1>3, <1>4, TypedStays DEF Typed
<1>6. ServerInv'
  BY <1>1, <1>2, <1>3, <1>4, TypedStays, ServersStay
<1> QED BY <1>5, <1>6

LEMMA HandlerReturnsKeeps ==
  ASSUME IInv, NEW s \in Prompts, HandlerReturns(s)
  PROVE  IInv'
<1> USE NoneIsNoPrompt DEF IInv
<1>1. ObjectsTyped'
  BY SetStateTyped DEF HandlerReturns, LoopsTyped, Typed, ObjectsTyped, Objects, Servers,
     RowStates, Loops
<1>2. LoopsTyped' /\ LoopsStay
  BY DEF HandlerReturns, AtRead, NotStarted, Typed, LoopsTyped, LoopsStay, LoopSteps,
     RowStates, Servers, Loops
<1>3. UNCHANGED <<nativeOf, b, call, proc, h>>
  BY DEF HandlerReturns
<1>4. Typed'
  BY <1>1, <1>2, <1>3, TypedStays DEF Typed
<1>5. ServerInv'
  BY <1>1, <1>2, <1>3, TypedStays, ServersStay
<1> QED BY <1>4, <1>5

LEMMA readLoopEndsKeeps ==
  ASSUME IInv, NEW s \in Prompts, readLoopEnds(s)
  PROVE  IInv'
<1> USE NoneIsNoPrompt DEF IInv
<1>1. LoopsTyped' /\ LoopsStay
  BY DEF readLoopEnds, Typed, LoopsTyped, LoopsStay, LoopSteps, RowStates, Servers, Loops
<1>2. UNCHANGED <<nativeOf, b, object, call, proc, h>>
  BY DEF readLoopEnds
<1>3. Typed'
  BY <1>1, <1>2, TypedStays DEF Typed
<1>4. ServerInv'
  BY <1>1, <1>2, TypedStays, ServersStay
<1> QED BY <1>3, <1>4

LEMMA onServerExitKeeps ==
  ASSUME IInv, NEW s \in Prompts, onServerExit(s)
  PROVE  IInv'
<1> USE NoneIsNoPrompt DEF IInv
<1>1. BackendTyped' /\ b'.server = None /\ b'.starting = b.starting
  BY DEF onServerExit, Typed, BackendTyped, Servers
<1>2. LoopsTyped' /\ LoopsStay
  <2> DEFINE lost == {thread(th) : th \in Threads} \ {None}
             q == [loop[s] EXCEPT !.at = "lost", !.lost = lost]
  <2>1. lost \in SUBSET Prompts
    BY DEF Typed, BackendTyped, thread, Servers
  <2> HIDE DEF lost
  <2>2. loop[s] \in Loops /\ loop \in [Prompts -> Loops] /\ loop[s].at = "closed"
    BY DEF onServerExit, Typed, LoopsTyped, Loops
  <2>3. q \in Loops /\ q.at = "lost"
    BY <2>1, <2>2 DEF Loops, LoopSteps
  <2>4. loop' = [loop EXCEPT ![s] = q]
    BY <2>2 DEF onServerExit, lost
  <2> HIDE DEF q
  <2> QED BY <2>2, <2>3, <2>4, LoopTyped
<1>3. HistoryTyped' /\ SlipsStay
  BY DEF onServerExit, SlipsStay, Typed, HistoryTyped
<1>4. loop[s].at = "closed" /\ UNCHANGED <<nativeOf, object, call, proc>>
  BY DEF onServerExit
<1>5. Typed' /\ CallsStay /\ LivesStay
  BY <1>1, <1>2, <1>3, <1>4, TypedStays DEF Typed
<1>6. StartInv'
  BY <1>1, <1>4 DEF ServerInv, StartInv
<1>7. DeadInv'
  BY <1>2, <1>5 DEF ServerInv, DeadInv, LoopsStay, LivesStay
<1>8. AliveInv'
  <2>1. ~proc[s].alive
    BY <1>4 DEF ServerInv, DeadInv
  <2>2. CASE b.server \in {None, s}
    BY <1>1, <1>3, <1>4, <2>1, <2>2 DEF ServerInv, AliveInv, SlipsStay
  <2>3. CASE b.server \notin {None, s}
    BY <2>3 DEF onServerExit, AliveInv, Typed, HistoryTyped
  <2> QED BY <2>2, <2>3
<1> QED BY <1>5, <1>6, <1>7, <1>8 DEF ServerInv

LEMMA ExitTellsKeeps ==
  ASSUME IInv, NEW s \in Prompts, ExitTells(s)
  PROVE  IInv'
<1> USE NoneIsNoPrompt DEF IInv
<1>1. LoopsTyped' /\ LoopsStay
  BY DEF ExitTells, Typed, LoopsTyped, LoopsStay, LoopSteps, RowStates, Servers, Loops
<1>2. HistoryTyped' /\ SlipsStay
  <2> DEFINE told == h.ended \cup ({object[t].turn : t \in loop[s].lost} \ {None})
  <2>1. h' = [h EXCEPT !.ended = told]
    BY DEF ExitTells
  <2>2. loop[s].lost \subseteq Prompts /\ \A t \in Prompts : object[t].turn \in Servers
    BY DEF Typed, LoopsTyped, ObjectsTyped, Objects, Loops
  <2>3. told \subseteq Prompts
    BY <2>2 DEF Typed, HistoryTyped, Servers
  <2> HIDE DEF told
  <2> QED BY <2>1, <2>3 DEF Typed, HistoryTyped, SlipsStay
<1>3. UNCHANGED <<nativeOf, b, object, call, proc>>
  BY DEF ExitTells
<1>4. Typed'
  BY <1>1, <1>2, <1>3, TypedStays DEF Typed
<1>5. ServerInv'
  BY <1>1, <1>2, <1>3, TypedStays, ServersStay
<1> QED BY <1>4, <1>5

-----------------------------------------------------------------------------
(* The theorem.                                                            *)

LEMMA InitIInv == Init => IInv
<1> SUFFICES ASSUME Init PROVE IInv
  OBVIOUS
<1> USE NoneIsNoPrompt DEF Init
<1>1. NativesTyped /\ BackendTyped
  BY DEF NativesTyped, BackendTyped, known, Servers
<1>2. ObjectsTyped
  BY DEF ObjectsTyped, Objects, newThread, RowStates, Servers
<1>3. CallsTyped
  BY DEF CallsTyped, PromptSteps, NoCall, Servers, Calls, HasThread
<1>4. ProcessesTyped
  <2>1. <<>> \in Seq(Lines)
    OBVIOUS
  <2> QED BY <2>1 DEF ProcessesTyped, Processes, NoProcess
<1>5. LoopsTyped /\ HistoryTyped
  BY DEF LoopsTyped, LoopSteps, NotStarted, RowStates, HistoryTyped, Servers, Loops
<1>6. ServerInv
  BY DEF ServerInv, StartInv, DeadInv, AliveInv, Starting, NoCall, NotStarted, NoProcess
<1> QED BY <1>1, <1>2, <1>3, <1>4, <1>5, <1>6 DEF IInv, Typed

LEMMA NextIInv == IInv /\ [Next]_vars => IInv'
<1> SUFFICES ASSUME IInv, [Next]_vars PROVE IInv'
  OBVIOUS
<1>1. ASSUME NEW c \in Prompts, PromptStep(c) PROVE IInv'
  BY <1>1, ensureServerKeeps, StartServerKeeps, InitializedKeeps, InitializeFailsKeeps,
     StopReturnsKeeps, StoreServerKeeps, openThreadKeeps, OpenedKeeps, ClaimKeeps,
     CallFailsKeeps, PromptReturnsKeeps DEF PromptStep
<1>2. ASSUME NEW s \in Prompts, LoopStep(s) PROVE IInv'
  BY <1>2, resolveKeeps, onUnknownKeeps, declineUnknownKeeps, onTurnStartedKeeps,
     onRequestKeeps, resolveAllPendingKeeps, onTurnCompletedKeeps, HandlerReturnsKeeps,
     readLoopEndsKeeps, onServerExitKeeps, ExitTellsKeeps DEF LoopStep
<1>3. ASSUME NEW s \in Prompts, ServerDies(s) PROVE IInv'
  BY <1>3, ServerDiesKeeps
<1>4. ASSUME NEW c \in Prompts, NEW th \in Threads, Arrive(c, th) PROVE IInv'
  BY <1>4, ArriveKeeps
<1>5. ASSUME NEW o \in Owners, Respond(o) PROVE IInv'
  BY <1>5, RespondKeeps
<1>6. ASSUME NEW o \in Owners, NEW th \in Threads, NEW n \in Ids, NEW method \in Methods,
             RespondTakes(o, th, <<n, method>>)
      PROVE  IInv'
  BY <1>6, RespondTakesKeeps
<1>7. ASSUME NEW th \in Threads, Discard(th) \/ Interrupt(th) PROVE IInv'
  BY <1>7, DiscardKeeps, InterruptKeeps
<1>8. ASSUME NEW s \in Prompts, NEW m \in proc[s].inbox, ServerTakes(s, m) PROVE IInv'
  BY <1>8, ServerTakesKeeps
<1>9. ASSUME NEW s \in Prompts, NEW n \in Prompts, ServerCompletes(s, n) PROVE IInv'
  BY <1>9, ServerCompletesKeeps
<1>10. ASSUME NEW s \in Prompts, NEW n \in Prompts, NEW method \in Methods, ServerAsks(s, n, method)
       PROVE  IInv'
  BY <1>10, ServerAsksKeeps
<1>11. CASE UNCHANGED vars
  <2>1. UNCHANGED <<nativeOf, b, object, call, proc, loop, h>>
    BY <1>11 DEF vars
  <2> QED BY <2>1, TypedStays, ServersStay DEF IInv, Typed
<1> QED BY <1>1, <1>2, <1>3, <1>4, <1>5, <1>6, <1>7, <1>8, <1>9, <1>10, <1>11 DEF Next, Ids

THEOREM Invariance == Spec => []IInv
<1> QED BY InitIInv, NextIInv, PTL DEF Spec

LEMMA AtMostOne == IInv => OneServer
<1> SUFFICES ASSUME IInv, "lateExit" \notin h.slips
             PROVE  Cardinality({s \in Prompts : proc[s].alive}) <= 1
  BY DEF OneServer
<1> DEFINE lives == {s \in Prompts : proc[s].alive}
           x == IF b.server = None THEN b.starting ELSE b.server
<1>1. lives \subseteq {x}
  BY NoneIsNoPrompt DEF IInv, ServerInv, StartInv, AliveInv
<1>2. IsFiniteSet({x}) /\ Cardinality({x}) = 1
  BY FS_Singleton
<1>3. Cardinality(lives) <= Cardinality({x})
  BY <1>1, <1>2, FS_Subset
<1> QED BY <1>2, <1>3

\* Whatever starts fail, servers die and prompts arrive together, two app-servers
\* live at once only after the exit of a start that failed was handled late
\* (backend.go:104-156), and the backend's tables are of their types.
THEOREM OneServerAtATime == Spec => []ServersSound
<1>1. IInv => TypeOK
  BY DEF IInv, Typed, NativesTyped, BackendTyped, ObjectsTyped, CallsTyped, HistoryTyped,
     Objects, RowStates, Ids, TypeOK, Calls, HasThread
<1>2. IInv => ServersSound
  BY <1>1, AtMostOne DEF ServersSound
<1> QED BY <1>2, Invariance, PTL

-----------------------------------------------------------------------------
(* Rows and turns.  Outside the window of the late exit one read loop at   *)
(* most is handling lines, and it is the server's or the one starting.     *)

Before == {"new", "ensure", "lock", "initialize", "stop", "store", "open", "opening"}
Late == "lateExit" \in h.slips

LoopInv ==
  \A s \in Prompts :
    /\ call[s].pc \in {"new", "ensure", "lock"} => loop[s].at = "none"
    /\ loop[s].lost # {} => loop[s].at = "lost"
    /\ loop[s].at = "finish" => loop[s].to = "idle"
    /\ loop[s].at \in {"setState", "finish"} => loop[s].th \in Threads
    /\ Late \/ (loop[s].at \in {"read", "setState", "finish"} => s \in {b.server, b.starting})

\* The object of a thread is the one a prompt on it opened.
OpenedInv ==
  /\ \A th \in Threads : thread(th) # None =>
       call[thread(th)].th = th /\ call[thread(th)].pc \notin Before
  /\ \A s \in Prompts : \A t \in loop[s].lost : call[t].pc \notin Before

PlaceInv == LoopInv /\ OpenedInv

LEMMA InitPlaceInv == Init => PlaceInv
BY NoneIsNoPrompt DEF Init, PlaceInv, LoopInv, OpenedInv, NotStarted, thread, NoCall, Before

\* A prompt moves: forward, and not to where objects are not opened yet.
LEMMA PlaceByCall ==
  ASSUME IInv, PlaceInv, NEW c \in Prompts, UNCHANGED <<b, loop>>, SlipsStay,
         \A d \in Prompts \ {c} : call'[d] = call[d],
         call'[c].th = call[c].th \/ call[c].pc \in Before,
         call[c].pc \notin Before => call'[c].pc \notin Before,
         call[c].pc \in {"new", "ensure", "lock"} \/ call'[c].pc \notin {"new", "ensure", "lock"}
  PROVE  PlaceInv'
<1>1. LoopInv'
  BY DEF PlaceInv, LoopInv, Late, SlipsStay
<1>2. OpenedInv'
  BY DEF PlaceInv, OpenedInv, thread, IInv, Typed, BackendTyped, LoopsTyped, Loops, Servers
<1> QED BY <1>1, <1>2 DEF PlaceInv

\* A read loop moves from one line to the next step.
LEMMA PlaceByLoop ==
  ASSUME IInv, PlaceInv, NEW s \in Prompts, UNCHANGED <<b, call>>, SlipsStay,
         \A d \in Prompts \ {s} : loop'[d] = loop[d],
         loop[s].at \in {"read", "setState", "finish"},
         loop'[s].at # "none", loop'[s].lost = {}, loop'[s].at = "finish" => loop'[s].to = "idle",
         loop'[s].at \in {"setState", "finish"} => loop'[s].th \in Threads
  PROVE  PlaceInv'
<1>1. LoopInv'
  BY DEF PlaceInv, LoopInv, Late, SlipsStay
<1>2. OpenedInv'
  BY DEF PlaceInv, OpenedInv, thread
<1> QED BY <1>1, <1>2 DEF PlaceInv

LEMMA PromptPlaces ==
  ASSUME IInv, PlaceInv, NEW c \in Prompts, PromptStep(c)
  PROVE  PlaceInv'
<1> USE NoneIsNoPrompt DEF IInv
<1>0. call \in [Prompts -> Calls] /\ call[c] \in Calls /\ loop \in [Prompts -> Loops]
      /\ \A x \in Prompts : loop[x].lost \subseteq Prompts
  BY DEF Typed, CallsTyped, LoopsTyped, Loops, Calls, HasThread
<1>1. CASE ensureServer(c)
  BY <1>0, <1>1, PlaceByCall DEF ensureServer, HasServer, Goto, SlipsStay, Calls, Before
<1>2. CASE StartServer(c) /\ UNCHANGED <<b, proc, loop>>
  <2>1. HasServer(c) \/ Return(c, "failed")
    BY <1>0, <1>2, NoneIsNoPrompt DEF StartServer, Dial, Typed, BackendTyped
  <2>2. /\ \A d \in Prompts \ {c} : call'[d] = call[d]
        /\ call'[c].th = call[c].th /\ call'[c].pc \in {"open", "failed"}
    <3>1. CASE HasServer(c)
      BY <1>0, <3>1 DEF HasServer, Calls
    <3>2. CASE Return(c, "failed")
      BY <1>0, <3>2 DEF Return, NoCall
    <3> QED BY <2>1, <3>1, <3>2
  <2> QED BY <1>2, <2>2, PlaceByCall DEF StartServer, SlipsStay, Before
<1>3. CASE StartServer(c) /\ b.server = None /\ Dial(c)
  <2>1. b'.server = None /\ b'.starting = c /\ b'.threads = b.threads
    BY <1>3 DEF Dial, Typed, BackendTyped
  <2>2. /\ \A d \in Prompts \ {c} : call'[d] = call[d] /\ loop'[d] = loop[d]
        /\ call'[c].th = call[c].th /\ call'[c].pc = "initialize"
        /\ loop'[c] = AtRead
    BY <1>0, <1>3 DEF Dial, Calls
  <2>3. call[c].pc = "lock" /\ b.starting = None /\ UNCHANGED h
    BY <1>3 DEF StartServer
  <2>4. LoopInv'
    BY <2>1, <2>2, <2>3, <1>3 DEF PlaceInv, LoopInv, AtRead, NotStarted, Late
  <2>5. OpenedInv'
    BY <1>0, <2>1, <2>2, <2>3 DEF PlaceInv, OpenedInv, thread, Before, AtRead, NotStarted, Typed,
       BackendTyped, Servers
  <2> QED BY <2>4, <2>5 DEF PlaceInv
<1>4. CASE Initialized(c)
  BY <1>0, <1>4, PlaceByCall DEF Initialized, SlipsStay, Calls, Before
<1>5. CASE InitializeFails(c)
  BY <1>0, <1>5, PlaceByCall DEF InitializeFails, Goto, SlipsStay, Calls, Before
<1>6. CASE StopReturns(c)
  <2>1. /\ b' = [b EXCEPT !.starting = None] /\ UNCHANGED <<loop, h>>
        /\ call[c].pc = "stop" /\ loop[c].at \in {"closed", "lost", "gone"} /\ b.starting = c
    BY <1>6 DEF StopReturns, ServerInv, StartInv, Starting
  <2>2. b'.server = b.server /\ b'.starting = None /\ b'.threads = b.threads
    BY <2>1 DEF Typed, BackendTyped
  <2>3. /\ \A d \in Prompts \ {c} : call'[d] = call[d]
        /\ call'[c].th = call[c].th /\ call'[c].pc = "failed"
    BY <1>0, <1>6 DEF StopReturns, Return, NoCall
  <2>4. LoopInv'
    BY <2>1, <2>2, <2>3 DEF PlaceInv, LoopInv, Late
  <2>5. OpenedInv'
    BY <1>0, <2>1, <2>2, <2>3 DEF PlaceInv, OpenedInv, thread, Before, Typed, BackendTyped, Servers
  <2> QED BY <2>4, <2>5 DEF PlaceInv
<1>7. CASE StoreServer(c)
  <2>1. UNCHANGED <<loop, h>> /\ call[c].pc = "store" /\ b.starting = c /\ b.server = None
    BY <1>7 DEF StoreServer, ServerInv, StartInv, Starting
  <2>2. b'.server = c /\ b'.starting = None /\ b'.threads = b.threads
    BY <1>7 DEF StoreServer, Typed, BackendTyped
  <2>3. /\ \A d \in Prompts \ {c} : call'[d] = call[d]
        /\ call'[c].th = call[c].th /\ call'[c].pc = "open"
    BY <1>0, <1>7 DEF StoreServer, Goto, Calls
  <2>4. LoopInv'
    BY <2>1, <2>2, <2>3 DEF PlaceInv, LoopInv, Late
  <2>5. OpenedInv'
    BY <1>0, <2>1, <2>2, <2>3 DEF PlaceInv, OpenedInv, thread, Before, Typed, BackendTyped, Servers
  <2> QED BY <2>4, <2>5 DEF PlaceInv
<1>8. CASE openThread(c)
  BY <1>0, <1>8, PlaceByCall DEF openThread, Goto, SlipsStay, Calls, Before
<1>9. CASE Opened(c)
  <2>1. UNCHANGED loop /\ SlipsStay /\ call[c].pc = "opening" /\ call[c].th \in Threads
    BY <1>9 DEF Opened, Typed, HistoryTyped, SlipsStay, CallsTyped, HasThread
  <2>2. /\ b'.server = b.server /\ b'.starting = b.starting
        /\ \A th \in Threads : b'.threads[th] = IF th = call[c].th THEN c ELSE b.threads[th]
    BY <1>9, <2>1 DEF Opened, Typed, BackendTyped
  <2>3. /\ \A d \in Prompts \ {c} : call'[d] = call[d]
        /\ call'[c].th = call[c].th /\ call'[c].pc = "claim"
    BY <1>0, <1>9 DEF Opened, Calls
  <2>4. LoopInv'
    BY <2>1, <2>2, <2>3 DEF PlaceInv, LoopInv, Late, SlipsStay
  <2>5. OpenedInv'
    BY <1>0, <2>1, <2>2, <2>3 DEF PlaceInv, OpenedInv, thread, Before, Typed, BackendTyped, Servers
  <2> QED BY <2>4, <2>5 DEF PlaceInv
<1>10. CASE Claim(c)
  <2>1. SlipsStay /\ UNCHANGED <<b, loop>> /\ call[c].pc = "claim"
    BY <1>10 DEF Claim, Typed, HistoryTyped, SlipsStay
  <2>2. /\ \A d \in Prompts \ {c} : call'[d] = call[d]
        /\ call'[c].th = call[c].th /\ call'[c].pc \in {"panicked", "turn"}
    <3>1. CASE Return(c, "panicked")
      BY <1>0, <3>1 DEF Return, NoCall
    <3>2. CASE call' = [call EXCEPT ![c].pc = "turn", ![c].t = thread(call[c].th)]
      BY <1>0, <3>2 DEF Calls
    <3> QED BY <1>10, <3>1, <3>2 DEF Claim
  <2> QED BY <2>1, <2>2, PlaceByCall DEF Before
<1>11. CASE CallFails(c)
  <2>1. SlipsStay /\ UNCHANGED <<b, loop>> /\ call[c].pc \in {"opening", "turn"}
    BY <1>11 DEF CallFails, Typed, HistoryTyped, SlipsStay
  <2>2. /\ \A d \in Prompts \ {c} : call'[d] = call[d]
        /\ call'[c].th = call[c].th /\ call'[c].pc = "failed"
    BY <1>0, <1>11 DEF CallFails, Return, NoCall, Calls
  <2> QED BY <2>1, <2>2, PlaceByCall DEF Before
<1>12. CASE PromptReturns(c)
  BY <1>0, <1>12, PlaceByCall DEF PromptReturns, Return, NoCall, SlipsStay, Calls, Before
<1> QED BY <1>1, <1>2, <1>3, <1>4, <1>5, <1>6, <1>7, <1>8, <1>9, <1>10, <1>11, <1>12
        DEF PromptStep, StartServer

LEMMA ThenMoves ==
  ASSUME Typed, NEW s \in Prompts, NEW at, NEW to, Then(s, at, to)
  PROVE  /\ \A d \in Prompts \ {s} : loop'[d] = loop[d]
         /\ loop'[s].at = at /\ loop'[s].to = to /\ loop'[s].lost = loop[s].lost
         /\ loop'[s].th = Owner(s) /\ loop'[s].t = Object(s)
<1> DEFINE q == [loop[s] EXCEPT !.at = at, !.th = Owner(s), !.t = Object(s), !.to = to]
<1>1. loop[s] \in Loops /\ loop \in [Prompts -> Loops]
  BY DEF Typed, LoopsTyped, Loops
<1>2. /\ q.at = at /\ q.to = to /\ q.lost = loop[s].lost
      /\ q.th = Owner(s) /\ q.t = Object(s)
  BY <1>1 DEF Loops
<1>3. loop' = [loop EXCEPT ![s] = q]
  BY <1>1 DEF Then
<1> HIDE DEF q
<1> QED BY <1>1, <1>2, <1>3

LEMMA LoopPlaces ==
  ASSUME IInv, PlaceInv, NEW s \in Prompts, LoopStep(s)
  PROVE  PlaceInv'
<1> USE NoneIsNoPrompt DEF IInv
<1>0. call \in [Prompts -> Calls] /\ loop \in [Prompts -> Loops]
      /\ \A x \in Prompts : loop[x].lost \subseteq Prompts /\ (loop[x].lost = {} \/ loop[x].at = "lost")
  BY DEF Typed, CallsTyped, LoopsTyped, Loops, Calls, HasThread, PlaceInv, LoopInv
<1>1. CASE resolve(s)
  <2>1. Line(s)[2] \in Prompts /\ UNCHANGED <<b, loop, h>>
    BY <1>1, LineParts DEF resolve, HasLine
  <2>2. PICK c \in Prompts : c = Line(s)[2]
    BY <2>1
  <2>3. /\ \A d \in Prompts \ {c} : call'[d] = call[d]
        /\ call'[c].th = call[c].th /\ call'[c].pc = call[c].pc
    BY <1>0, <1>1, <2>2 DEF resolve, Calls
  <2> QED BY <2>1, <2>3, PlaceByCall DEF SlipsStay
<1>2. CASE onUnknown(s) \/ declineUnknown(s)
  <2>1. SlipsStay /\ UNCHANGED <<b, loop, call>>
    BY <1>2, CountedTyped DEF onUnknown, declineUnknown, SlipsStay
  <2> QED BY <2>1, PlaceByCall
<1>3. CASE onTurnStarted(s) \/ onRequest(s) \/ resolveAllPending(s)
  <2>1. SlipsStay /\ UNCHANGED <<b, call>> /\ loop[s].at = "read"
    BY <1>3, CountedTyped DEF onTurnStarted, onRequest, resolveAllPending, SlipsStay, HasLine
  <2>2. /\ \A d \in Prompts \ {s} : loop'[d] = loop[d]
        /\ loop'[s].at \in {"setState", "finish"} /\ loop'[s].lost = {}
        /\ loop'[s].at = "finish" => loop'[s].to = "idle"
        /\ loop'[s].th \in Threads
    <3>1. Then(s, "setState", "running") \/ Then(s, "setState", "waiting_input")
          \/ Then(s, "finish", "idle")
      BY <1>3 DEF onTurnStarted, onRequest, resolveAllPending
    <3>2. loop[s] \in Loops /\ loop[s].lost = {}
      BY <1>0, <2>1
    <3>3. Line(s)[2] \in Prompts /\ Owner(s) # None
      BY <1>3, LineParts DEF onTurnStarted, onRequest, resolveAllPending, Declines, IsKnown, HasLine
    <3>4. Owner(s) \in Threads
      BY <3>3 DEF Owner, Typed, BackendTyped
    <3> QED BY <1>0, <3>1, <3>2, <3>4, ThenMoves
  <2> QED BY <2>1, <2>2, PlaceByLoop
<1>4. CASE onTurnCompleted(s)
  <2>1. SlipsStay /\ UNCHANGED <<b, call>> /\ loop[s].at = "finish"
    BY <1>4 DEF onTurnCompleted, Ended, SlipsStay, Typed, HistoryTyped
  <2> QED BY <1>0, <1>4, <2>1, PlaceByLoop DEF onTurnCompleted, Loops, PlaceInv, LoopInv
<1>5. CASE HandlerReturns(s)
  BY <1>0, <1>5, PlaceByLoop DEF HandlerReturns, AtRead, NotStarted, SlipsStay
<1>6. CASE readLoopEnds(s)
  BY <1>0, <1>6, PlaceByLoop DEF readLoopEnds, SlipsStay, Loops
<1>7. CASE onServerExit(s)
  <2>1. UNCHANGED call /\ SlipsStay /\ loop[s].at = "closed"
    BY <1>7 DEF onServerExit, SlipsStay, Typed, HistoryTyped
  <2>2. /\ b'.server = None /\ b'.starting = b.starting
        /\ \A th \in Threads : b'.threads[th] = None
    BY <1>7 DEF onServerExit, Typed, BackendTyped
  <2>3. /\ \A d \in Prompts \ {s} : loop'[d] = loop[d]
        /\ loop'[s].at = "lost" /\ loop'[s].lost = {thread(th) : th \in Threads} \ {None}
    BY <1>0, <1>7 DEF onServerExit, Loops
  <2>4. b.server \in {None, s} \/ Late'
    BY <1>7 DEF onServerExit, Late, Typed, HistoryTyped
  <2>5. LoopInv'
    BY <2>1, <2>2, <2>3, <2>4 DEF PlaceInv, LoopInv, Late, SlipsStay
  <2>6. OpenedInv'
    BY <1>0, <2>1, <2>2, <2>3 DEF PlaceInv, OpenedInv, thread
  <2> QED BY <2>5, <2>6 DEF PlaceInv
<1>8. CASE ExitTells(s)
  <2>1. SlipsStay /\ UNCHANGED <<b, call>> /\ loop[s].at = "lost"
    BY <1>8 DEF ExitTells, SlipsStay, Typed, HistoryTyped
  <2>2. /\ \A d \in Prompts \ {s} : loop'[d] = loop[d]
        /\ loop'[s].at = "gone" /\ loop'[s].lost = {}
    BY <1>0, <1>8 DEF ExitTells, Loops
  <2>3. LoopInv'
    BY <2>1, <2>2 DEF PlaceInv, LoopInv, Late, SlipsStay
  <2>4. OpenedInv'
    BY <1>0, <2>1, <2>2 DEF PlaceInv, OpenedInv, thread
  <2> QED BY <2>3, <2>4 DEF PlaceInv
<1> QED BY <1>1, <1>2, <1>3, <1>4, <1>5, <1>6, <1>7, <1>8 DEF LoopStep

\* What the owner and the server do moves no prompt and no read loop.
Outside ==
  \/ \E c \in Prompts : ServerDies(c)
  \/ \E o \in Owners : \/ Respond(o)
                       \/ \E th \in Threads, n \in 1..MaxAsks, method \in Methods :
                             RespondTakes(o, th, <<n, method>>)
  \/ \E th \in Threads : Interrupt(th)
  \/ \E s \in Prompts : \E m \in proc[s].inbox : ServerTakes(s, m)
  \/ \E s, n \in Prompts : \/ ServerCompletes(s, n)
                         \/ \E method \in Methods : ServerAsks(s, n, method)
  \/ UNCHANGED vars

LEMMA OutsideStays ==
  ASSUME IInv, Outside
  PROVE  UNCHANGED <<nativeOf, b, call, loop>> /\ SlipsStay /\ h'.ended = h.ended
<1>1. ASSUME NEW o \in Owners, Respond(o)
      PROVE  UNCHANGED <<nativeOf, b, call, loop>> /\ SlipsStay /\ h'.ended = h.ended
  <2>1. (\E s, R : Counted(s, R)) => SlipsStay /\ h'.ended = h.ended
    BY CountedTyped DEF Counted, IInv, Typed, HistoryTyped
  <2> QED BY <1>1, <2>1 DEF Respond, SlipsStay
<1> QED BY <1>1 DEF Outside, ServerDies, RespondTakes, Interrupt, ServerTakes, ServerCompletes,
      ServerAsks, ServerStep, vars, SlipsStay

LEMMA NextPlaceInv == IInv /\ PlaceInv /\ [Next]_vars => PlaceInv'
<1> SUFFICES ASSUME IInv, PlaceInv, [Next]_vars PROVE PlaceInv'
  OBVIOUS
<1>1. ASSUME NEW c \in Prompts, NEW th \in Threads, Arrive(c, th) PROVE PlaceInv'
  <2>1. call[c].pc = "new" /\ UNCHANGED <<b, loop, h>>
    BY <1>1 DEF Arrive
  <2>2. \A d \in Prompts \ {c} : call'[d] = call[d]
    BY <1>1 DEF Arrive, IInv, Typed, CallsTyped
  <2> QED BY <2>1, <2>2, PlaceByCall DEF Before, SlipsStay
<1>2. ASSUME NEW th \in Threads, Discard(th) PROVE PlaceInv'
  <2>1. UNCHANGED <<call, loop, h>>
    BY <1>2 DEF Discard
  <2>2. /\ b'.server = b.server /\ b'.starting = b.starting
        /\ \A x \in Threads : b'.threads[x] = IF x = th THEN None ELSE b.threads[x]
    BY <1>2 DEF Discard, IInv, Typed, BackendTyped
  <2>3. LoopInv'
    BY <2>1, <2>2 DEF PlaceInv, LoopInv, Late
  <2>4. OpenedInv'
    BY <2>1, <2>2 DEF PlaceInv, OpenedInv, thread
  <2> QED BY <2>3, <2>4 DEF PlaceInv
<1>3. CASE Outside
  <2>1. UNCHANGED <<b, call, loop>> /\ SlipsStay
    BY <1>3, OutsideStays
  <2>2. LoopInv' /\ OpenedInv'
    BY <2>1 DEF PlaceInv, LoopInv, OpenedInv, thread, Late, SlipsStay
  <2> QED BY <2>2 DEF PlaceInv
<1> QED BY <1>1, <1>2, <1>3, PromptPlaces, LoopPlaces DEF Next, Outside

LEMMA Places == Spec => []PlaceInv
<1> QED BY Invariance, InitPlaceInv, NextPlaceInv, PTL DEF Spec

-----------------------------------------------------------------------------
(* The row of a turn that was started.  A handler that ends a turn has     *)
(* nothing started left to set the row idle for.                           *)

Handling == {"setState", "finish"}

FinishedInv ==
  Late \/ \A s \in Prompts :
    loop[s].at \in Handling /\ loop[s].to = "idle" =>
      LET t == thread(loop[s].th) IN
      t = None \/ ~object[t].turnID \/ (loop[s].at = "finish" /\ t = loop[s].t)

RowInv == StartedIsNotIdle /\ FinishedInv

LEMMA InitRowInv == Init => RowInv
BY DEF Init, RowInv, StartedIsNotIdle, FinishedInv, NotStarted, thread, Handling

\* A thread's row is as it was, or not idle, or without a turn started.
RowStays(th) ==
  LET t == thread(th)' IN
  \/ t = None \/ ~object'[t].turnID
  \/ t = thread(th) /\ object[t].turnID /\ object'[t].state \in {object[t].state, "running", "waiting_input"}

LoopQuiet(s) ==
  \/ loop'[s] = loop[s]
  \/ loop[s].at \notin Handling /\ (loop'[s].at \notin Handling \/ (loop'[s].at = "setState" /\ loop'[s].to # "idle"))

LEMMA RowsStay ==
  ASSUME IInv, PlaceInv, RowInv, SlipsStay, \A th \in Threads : RowStays(th),
         \A s \in Prompts : LoopQuiet(s)
  PROVE  RowInv'
<1>1. StartedIsNotIdle'
  BY DEF RowInv, StartedIsNotIdle, RowStays, LoopQuiet, SlipsStay, Handling, thread
<1>2. FinishedInv'
  <2>1. SUFFICES ASSUME ~Late', NEW s \in Prompts, (loop[s].at \in Handling /\ loop[s].to = "idle")'
                 PROVE  (LET t == thread(loop[s].th) IN
                         t = None \/ ~object[t].turnID \/ (loop[s].at = "finish" /\ t = loop[s].t))'
    BY DEF FinishedInv
  <2>2. loop'[s] = loop[s] /\ ~Late
    BY <2>1 DEF LoopQuiet, Handling, Late, SlipsStay
  <2>3. loop[s].th \in Threads
    BY <2>1, <2>2 DEF PlaceInv, LoopInv, Handling
  <2> QED BY <2>1, <2>2, <2>3 DEF RowInv, FinishedInv, RowStays, thread
<1> QED BY <1>1, <1>2 DEF RowInv

LEMMA RowsKept ==
  ASSUME IInv, NEW th \in Threads, thread(th)' \in {thread(th), None},
         \A t \in Prompts : /\ object'[t].turnID <=> object[t].turnID
                            /\ object'[t].state \in {object[t].state, "running", "waiting_input"}
  PROVE  RowStays(th)
<1>1. thread(th) \in Prompts \cup {None}
  BY DEF IInv, Typed, BackendTyped, thread, Servers
<1> QED BY <1>1 DEF RowStays

\* The state of one row is set to one that is not idle.
LEMMA RowsSet ==
  ASSUME IInv, NEW x, NEW state \in {"running", "waiting_input"}, setState(x, state)
  PROVE  \A t \in Prompts : /\ object'[t].turnID <=> object[t].turnID
                            /\ object'[t].state \in {object[t].state, "running", "waiting_input"}
<1>1. object \in [Prompts -> Objects]
  BY DEF IInv, Typed, ObjectsTyped
<1>2. ASSUME NEW t \in Prompts, object' = [object EXCEPT ![thread(x)].state = state]
      PROVE  (object'[t].turnID <=> object[t].turnID) /\ object'[t].state \in {object[t].state, state}
  <2>1. CASE t = thread(x)
    BY <1>1, <1>2, <2>1 DEF Objects
  <2>2. CASE t # thread(x)
    BY <1>1, <1>2, <2>2
  <2> QED BY <2>1, <2>2
<1> QED BY <1>2 DEF setState

LEMMA PromptRows ==
  ASSUME IInv, PlaceInv, RowInv, NEW c \in Prompts, PromptStep(c)
  PROVE  RowInv'
<1> USE NoneIsNoPrompt DEF IInv
<1>0. /\ object \in [Prompts -> Objects] /\ loop \in [Prompts -> Loops]
      /\ \A th \in Threads : thread(th) \in Servers
  BY DEF Typed, ObjectsTyped, LoopsTyped, Loops, BackendTyped, thread
<1>1. CASE UNCHANGED <<object, loop, h>> /\ b'.threads = b.threads
  BY <1>1, RowsKept, RowsStay DEF SlipsStay, LoopQuiet, thread
<1>2. CASE StartServer(c) /\ b.server = None /\ Dial(c)
  <2>1. b'.threads = b.threads /\ UNCHANGED <<object, h>> /\ call[c].pc = "lock"
    BY <1>2 DEF StartServer, Dial, Typed, BackendTyped
  <2>2. \A s \in Prompts : LoopQuiet(s)
    BY <1>0, <1>2, <2>1 DEF Dial, AtRead, NotStarted, LoopQuiet, PlaceInv, LoopInv, Handling
  <2> QED BY <2>1, <2>2, RowsKept, RowsStay DEF SlipsStay, thread
<1>3. CASE Opened(c)
  <2>1. UNCHANGED loop /\ SlipsStay /\ call[c].th \in Threads
    BY <1>3 DEF Opened, Typed, HistoryTyped, SlipsStay, CallsTyped, HasThread
  <2>2. /\ \A th \in Threads : thread(th)' = IF th = call[c].th THEN c ELSE thread(th)
        /\ object' = [object EXCEPT ![c] = [newThread EXCEPT !.srv = call[c].srv]]
    BY <1>3, <2>1 DEF Opened, Typed, BackendTyped, thread
  <2>3. ~object'[c].turnID /\ \A t \in Prompts \ {c} : object'[t] = object[t]
    BY <1>0, <2>2 DEF newThread
  <2>4. \A th \in Threads : RowStays(th)
    BY <1>0, <2>2, <2>3 DEF RowStays, Servers
  <2> QED BY <2>1, <2>4, RowsStay DEF LoopQuiet
<1>4. CASE Claim(c) \/ CallFails(c)
  <2>1. SlipsStay /\ UNCHANGED <<b, loop>>
    BY <1>4 DEF Claim, CallFails, Typed, HistoryTyped, SlipsStay
  <2>2. \A t \in Prompts : object'[t].turnID = object[t].turnID /\ object'[t].state = object[t].state
    BY <1>0, <1>4 DEF Claim, CallFails, Objects
  <2> QED BY <2>1, <2>2, RowsKept, RowsStay DEF LoopQuiet, thread
<1>5. CASE PromptReturns(c)
  <2>1. SlipsStay /\ UNCHANGED <<b, loop>> /\ setState(call[c].th, "running")
    BY <1>5 DEF PromptReturns, SlipsStay
  <2> QED BY <2>1, RowsSet, RowsKept, RowsStay DEF LoopQuiet, thread
<1> QED BY <1>1, <1>2, <1>3, <1>4, <1>5 DEF PromptStep, ensureServer, StartServer, Initialized,
     InitializeFails, StopReturns, StoreServer, openThread, Typed, BackendTyped

LEMMA LoopRows ==
  ASSUME IInv, PlaceInv, RowInv, NEW s \in Prompts, LoopStep(s)
  PROVE  RowInv'
<1> USE NoneIsNoPrompt DEF IInv
<1>0. /\ object \in [Prompts -> Objects] /\ loop \in [Prompts -> Loops]
      /\ \A th \in Threads : thread(th) \in Servers
  BY DEF Typed, ObjectsTyped, LoopsTyped, Loops, BackendTyped, thread
<1>1. CASE resolve(s) \/ onUnknown(s) \/ declineUnknown(s)
  <2>1. SlipsStay /\ UNCHANGED <<b, loop, object>>
    BY <1>1, CountedTyped DEF resolve, onUnknown, declineUnknown, SlipsStay
  <2> QED BY <2>1, RowsKept, RowsStay DEF LoopQuiet, thread
<1>2. CASE onTurnStarted(s)
  <2>1. SlipsStay /\ UNCHANGED b /\ loop[s].at = "read" /\ Then(s, "setState", "running")
    BY <1>2 DEF onTurnStarted, SlipsStay, HasLine
  <2>2. /\ \A d \in Prompts \ {s} : loop'[d] = loop[d]
        /\ loop'[s].at = "setState" /\ loop'[s].to = "running" /\ loop'[s].th = Owner(s)
    BY <2>1, ThenMoves
  <2>3. Line(s)[2] \in Prompts
    BY <1>2, LineParts DEF onTurnStarted, HasLine
  <2>4. Owner(s) \in Threads /\ Object(s) \in Prompts
    BY <1>0, <1>2, <2>3 DEF onTurnStarted, IsKnown, Owner, Object, Typed, BackendTyped, Servers
  <2>5. \A t \in Prompts : /\ object'[t].state = object[t].state
                           /\ t # Object(s) => object'[t] = object[t]
    BY <1>0, <1>2, <2>4 DEF onTurnStarted, Objects
  <2>6. \A th \in Threads : thread(th) = Object(s) /\ thread(th) # None => th = Owner(s)
    BY <2>4 DEF PlaceInv, OpenedInv, Object
  <2>7. ~Late => \A d \in Prompts : loop[d].at \notin Handling
    BY <2>1 DEF PlaceInv, LoopInv, ServerInv, StartInv, Handling
  <2>8. Late => Late'
    BY <2>1 DEF Late, SlipsStay
  <2>9. StartedIsNotIdle'
    <3>1. SUFFICES ASSUME ~Late', NEW th \in Threads, thread(th) # None,
                          object'[thread(th)].turnID, object'[thread(th)].state = "idle"
                   PROVE  \E d \in Prompts : loop'[d].at = "setState" /\ loop'[d].to # "idle" /\ loop'[d].th = th
      BY <2>1 DEF StartedIsNotIdle, Late, thread
    <3>2. CASE th = Owner(s)
      BY <2>2, <3>2
    <3>3. CASE th # Owner(s)
      <4>1. object'[thread(th)] = object[thread(th)]
        BY <1>0, <2>5, <2>6, <3>1, <3>3 DEF Servers
      <4>2. \E d \in Prompts : loop[d].at = "setState"
        BY <2>8, <3>1, <4>1 DEF RowInv, StartedIsNotIdle, Late
      <4> QED BY <2>7, <2>8, <3>1, <4>2 DEF Handling
    <3> QED BY <3>2, <3>3
  <2>10. FinishedInv'
    BY <2>2, <2>7, <2>8 DEF FinishedInv
  <2> QED BY <2>9, <2>10 DEF RowInv
<1>3. CASE onRequest(s)
  <2>1. SlipsStay /\ UNCHANGED b /\ loop[s].at = "read" /\ Then(s, "setState", "waiting_input")
    BY <1>3 DEF onRequest, SlipsStay, HasLine
  <2>2. /\ \A d \in Prompts \ {s} : loop'[d] = loop[d]
        /\ loop'[s].at = "setState" /\ loop'[s].to = "waiting_input"
    BY <2>1, ThenMoves
  <2>3. \A t \in Prompts : object'[t].turnID = object[t].turnID /\ object'[t].state = object[t].state
    BY <1>0, <1>3 DEF onRequest, Objects
  <2> QED BY <2>1, <2>2, <2>3, RowsKept, RowsStay DEF LoopQuiet, Handling, thread
<1>4. CASE resolveAllPending(s)
  <2>1. SlipsStay /\ UNCHANGED b /\ loop[s].at = "read" /\ Then(s, "finish", "idle")
    BY <1>4, CountedTyped DEF resolveAllPending, SlipsStay, HasLine
  <2>2. /\ \A d \in Prompts \ {s} : loop'[d] = loop[d]
        /\ loop'[s].at = "finish" /\ loop'[s].to = "idle"
        /\ loop'[s].th = Owner(s) /\ loop'[s].t = thread(Owner(s))
    BY <2>1, ThenMoves DEF Object
  <2>3. \A t \in Prompts : object'[t].turnID = object[t].turnID /\ object'[t].state = object[t].state
    BY <1>0, <1>4 DEF resolveAllPending, Objects
  <2>4. Late => Late'
    BY <2>1 DEF Late, SlipsStay
  <2>5. StartedIsNotIdle'
    BY <1>0, <2>1, <2>2, <2>3, <2>4 DEF RowInv, StartedIsNotIdle, Late, thread, Servers
  <2>6. ~Late => \A d \in Prompts : loop[d].at \notin Handling
    BY <2>1 DEF PlaceInv, LoopInv, ServerInv, StartInv, Handling
  <2>7. FinishedInv'
    BY <2>1, <2>2, <2>4, <2>6 DEF FinishedInv, thread
  <2> QED BY <2>5, <2>7 DEF RowInv
<1>5. CASE onTurnCompleted(s)
  <2> DEFINE t == loop[s].t
  <2>1. SlipsStay /\ UNCHANGED b /\ loop[s].at = "finish" /\ t \in Prompts /\ loop[s].th \in Threads
    BY <1>5 DEF onTurnCompleted, Ended, SlipsStay, Typed, HistoryTyped, LoopsTyped, PlaceInv, LoopInv
  <2>2. /\ \A d \in Prompts \ {s} : loop'[d] = loop[d]
        /\ loop'[s] = [loop[s] EXCEPT !.at = "setState"]
    BY <1>0, <1>5 DEF onTurnCompleted
  <2>3. loop'[s].at = "setState" /\ loop'[s].to = loop[s].to /\ loop'[s].th = loop[s].th
    BY <1>0, <2>2 DEF Loops
  <2>4. ~object'[t].turnID /\ \A u \in Prompts \ {t} : object'[u] = object[u]
    BY <1>0, <1>5, <2>1 DEF onTurnCompleted, Objects
  <2>5. Late => Late'
    BY <2>1 DEF Late, SlipsStay
  <2>6. StartedIsNotIdle'
    BY <1>0, <2>1, <2>2, <2>3, <2>4, <2>5 DEF RowInv, StartedIsNotIdle, Late, thread, Servers
  <2>7. FinishedInv'
    <3>1. SUFFICES ASSUME ~Late', NEW d \in Prompts, (loop[d].at \in Handling /\ loop[d].to = "idle")'
                   PROVE  (LET u == thread(loop[d].th) IN
                           u = None \/ ~object[u].turnID \/ (loop[d].at = "finish" /\ u = loop[d].t))'
      BY DEF FinishedInv
    <3>2. d = s
      BY <2>1, <2>2, <2>5, <3>1 DEF PlaceInv, LoopInv, ServerInv, StartInv, Handling
    <3>3. /\ thread(loop[s].th) \in Servers
          /\ \/ thread(loop[s].th) = None \/ ~object[thread(loop[s].th)].turnID
             \/ thread(loop[s].th) = t
      BY <1>0, <2>1, <2>3, <2>5, <3>1, <3>2 DEF RowInv, FinishedInv, Handling
    <3>4. thread(loop[s].th) = None \/ ~object'[thread(loop[s].th)].turnID
      BY <2>4, <3>3 DEF Servers
    <3>5. thread(loop[s].th)' = thread(loop[s].th)
      BY <2>1, <2>3 DEF thread
    <3> QED BY <3>2, <3>4, <3>5
  <2> QED BY <2>6, <2>7 DEF RowInv
<1>6. CASE HandlerReturns(s)
  <2>1. UNCHANGED <<b, h>> /\ loop[s].at = "setState" /\ setState(loop[s].th, loop[s].to)
        /\ loop[s].th \in Threads
    BY <1>6 DEF HandlerReturns, PlaceInv, LoopInv
  <2>2. /\ \A d \in Prompts \ {s} : loop'[d] = loop[d]
        /\ loop'[s].at = "read"
    BY <1>0, <1>6 DEF HandlerReturns, AtRead, NotStarted
  <2>3. PICK th \in Threads : th = loop[s].th
    BY <2>1
  <2>4. /\ \A t \in Prompts : (object'[t].turnID <=> object[t].turnID)
        /\ \A t \in Prompts \ {thread(th)} : object'[t] = object[t]
        /\ thread(th) \in Prompts => object'[thread(th)].state = loop[s].to
    BY <1>0, <2>1, <2>3 DEF setState, Objects
  <2>5. \A x \in Threads : x # th /\ thread(x) # None => thread(x) # thread(th)
    BY DEF PlaceInv, OpenedInv
  <2>6. StartedIsNotIdle'
    <3>1. SUFFICES ASSUME ~Late, NEW x \in Threads, thread(x) # None,
                          object'[thread(x)].turnID, object'[thread(x)].state = "idle"
                   PROVE  \E d \in Prompts : loop'[d].at = "setState" /\ loop'[d].to # "idle" /\ loop'[d].th = x
      BY <2>1 DEF StartedIsNotIdle, Late, thread
    <3>2. thread(x) \in Prompts
      BY <1>0, <3>1 DEF Servers
    <3>3. CASE x = th
      <4>1. loop[s].to = "idle" /\ object[thread(th)].turnID
        BY <2>4, <3>1, <3>2, <3>3
      <4>2. FALSE
        BY <2>1, <2>3, <3>1, <3>3, <4>1 DEF RowInv, FinishedInv, Handling
      <4> QED BY <4>2
    <3>4. CASE x # th
      <4>1. object'[thread(x)] = object[thread(x)]
        BY <2>4, <2>5, <3>1, <3>2, <3>4
      <4>2. PICK d \in Prompts : loop[d].at = "setState" /\ loop[d].to # "idle" /\ loop[d].th = x
        BY <3>1, <4>1 DEF RowInv, StartedIsNotIdle, Late
      <4>3. d # s
        BY <2>3, <3>4, <4>2
      <4> QED BY <2>2, <4>2, <4>3
    <3> QED BY <3>3, <3>4
  <2>7. FinishedInv'
    <3>1. SUFFICES ASSUME ~Late, NEW d \in Prompts, (loop[d].at \in Handling /\ loop[d].to = "idle")'
                   PROVE  (LET u == thread(loop[d].th) IN
                           u = None \/ ~object[u].turnID \/ (loop[d].at = "finish" /\ u = loop[d].t))'
      BY <2>1 DEF FinishedInv, Late
    <3>2. FALSE
      BY <2>1, <2>2, <3>1 DEF PlaceInv, LoopInv, ServerInv, StartInv, Handling
    <3> QED BY <3>2
  <2> QED BY <2>6, <2>7 DEF RowInv
<1>7. CASE readLoopEnds(s) \/ onServerExit(s) \/ ExitTells(s)
  <2>1. SlipsStay /\ UNCHANGED object
    BY <1>7 DEF readLoopEnds, onServerExit, ExitTells, SlipsStay, Typed, HistoryTyped
  <2>2. \A d \in Prompts : LoopQuiet(d)
    BY <1>0, <1>7 DEF readLoopEnds, onServerExit, ExitTells, Loops, LoopQuiet, Handling, HasLine
  <2>3. \A th \in Threads : thread(th)' \in {thread(th), None}
    <3>1. CASE UNCHANGED b
      BY <3>1 DEF thread
    <3>2. CASE onServerExit(s)
      BY <3>2 DEF onServerExit, Typed, BackendTyped, thread
    <3> QED BY <1>7, <3>1, <3>2 DEF readLoopEnds, ExitTells
  <2> QED BY <2>1, <2>2, <2>3, RowsKept, RowsStay
<1> QED BY <1>1, <1>2, <1>3, <1>4, <1>5, <1>6, <1>7 DEF LoopStep

LEMMA NextRowInv == IInv /\ PlaceInv /\ RowInv /\ [Next]_vars => RowInv'
<1> SUFFICES ASSUME IInv, PlaceInv, RowInv, [Next]_vars PROVE RowInv'
  OBVIOUS
<1>0. object \in [Prompts -> Objects]
  BY DEF IInv, Typed, ObjectsTyped
<1>1. ASSUME NEW c \in Prompts, NEW th \in Threads, Arrive(c, th) PROVE RowInv'
  BY <1>1, RowsKept, RowsStay DEF Arrive, SlipsStay, LoopQuiet, thread
<1>2. ASSUME NEW th \in Threads, Discard(th) PROVE RowInv'
  <2>1. UNCHANGED <<object, loop, h>>
    BY <1>2 DEF Discard
  <2>2. \A x \in Threads : thread(x)' \in {thread(x), None}
    BY <1>2 DEF Discard, IInv, Typed, BackendTyped, thread
  <2> QED BY <2>1, <2>2, RowsKept, RowsStay DEF SlipsStay, LoopQuiet
<1>3. CASE Outside
  <2>1. UNCHANGED <<b, loop>> /\ SlipsStay
    BY <1>3, OutsideStays
  <2>2. \A t \in Prompts : /\ object'[t].turnID <=> object[t].turnID
                           /\ object'[t].state \in {object[t].state, "running", "waiting_input"}
    <3>1. ASSUME NEW o \in Owners, NEW th \in Threads, NEW a, RespondTakes(o, th, a)
          PROVE  \A t \in Prompts : object'[t].turnID = object[t].turnID /\ object'[t].state = object[t].state
      BY <1>0, <3>1 DEF RespondTakes, Objects
    <3>2. ASSUME NEW th \in Threads, Interrupt(th)
          PROVE  \A t \in Prompts : object'[t].turnID = object[t].turnID /\ object'[t].state = object[t].state
      BY <1>0, <3>2 DEF Interrupt, Objects
    <3>3. ASSUME NEW o \in Owners, Respond(o)
          PROVE  UNCHANGED object \/ \E th : setState(th, "running")
      BY <3>3 DEF Respond
    <3>4. CASE UNCHANGED object
      BY <3>4
    <3>5. \/ UNCHANGED object
          \/ \E o \in Owners : Respond(o) \/ \E th \in Threads, a \in Ids \X Methods : RespondTakes(o, th, a)
          \/ \E th \in Threads : Interrupt(th)
      BY <1>3 DEF Outside, ServerDies, ServerTakes, ServerCompletes, ServerAsks, ServerStep, vars, Ids
    <3> QED BY <3>1, <3>2, <3>3, <3>4, <3>5, RowsSet
  <2> QED BY <2>1, <2>2, RowsKept, RowsStay DEF LoopQuiet, thread
<1> QED BY <1>1, <1>2, <1>3, PromptRows, LoopRows DEF Next, Outside

\* The row of a turn the server started is not idle before the server says it
\* completed (thread.go:196-227), with any number of threads and prompts: it needs
\* one read loop at most to be handling lines, and a handler that ends a turn to
\* leave none started behind for its last write of the state.
THEOREM StartedStaysBusy == Spec => []StartedIsNotIdle
<1>1. RowInv => StartedIsNotIdle
  BY DEF RowInv
<1> QED BY <1>1, Invariance, Places, InitRowInv, NextRowInv, PTL DEF Spec

-----------------------------------------------------------------------------
(* Turns that were accepted, while the slips the README names are absent:  *)
(* each is claimed by its thread, or by an object an exit is about to tell *)
(* of, until it was told.                                                  *)

Awaits(c) == call[c].pc \in {"turn", "returned"} /\ c \notin h.ended /\ call[c].th \in known
Held(c, t) == /\ object[t].turn = c
              /\ t = thread(call[c].th) \/ \E s \in Prompts : t \in loop[s].lost

HeldInv == h.slips = {} => \A c \in Prompts : Awaits(c) => \E t \in Prompts : Held(c, t)

MarkInv == /\ \A t \in Prompts : object[t].turn # None => object[t].interrupted \in {None, object[t].turn}
           /\ "interrupted" \notin h.wrong

TurnInv == HeldInv /\ MarkInv

LEMMA InitTurnInv == Init => TurnInv
BY DEF Init, TurnInv, HeldInv, MarkInv, Awaits, NoCall, newThread

TurnsSame == \A t \in Prompts : /\ object'[t].turn = object[t].turn
                                /\ object'[t].interrupted = object[t].interrupted
MarksStay == "interrupted" \in h'.wrong => "interrupted" \in h.wrong
TurnStays(c) ==
  /\ call'[c].pc \in {"turn", "returned"} => call[c].pc \in {"turn", "returned"} /\ call'[c].th = call[c].th
  /\ c \notin h'.ended => c \notin h.ended

LEMMA TurnsStay ==
  ASSUME TurnInv, SlipsStay, TurnsSame, MarksStay, known' \subseteq known,
         \A c \in Prompts : TurnStays(c),
         \A th \in known' : thread(th)' = thread(th),
         \A s \in Prompts : loop[s].lost \subseteq loop'[s].lost
  PROVE  TurnInv'
<1>1. HeldInv'
  <2>1. SUFFICES ASSUME h.slips = {}, NEW c \in Prompts, Awaits(c)'
                 PROVE  \E t \in Prompts : Held(c, t)'
    BY DEF HeldInv, SlipsStay
  <2>2. Awaits(c) /\ call'[c].th = call[c].th /\ call[c].th \in known'
    BY <2>1 DEF Awaits, TurnStays
  <2>3. PICK t \in Prompts : Held(c, t)
    BY <2>1, <2>2 DEF TurnInv, HeldInv
  <2>4. Held(c, t)'
    BY <2>2, <2>3 DEF Held, TurnsSame, thread
  <2> QED BY <2>4
<1>2. MarkInv'
  BY DEF TurnInv, MarkInv, TurnsSame, MarksStay
<1> QED BY <1>1, <1>2 DEF TurnInv

\* What was answered, and how, says nothing of interruptions.
LEMMA CountedMarks ==
  ASSUME IInv, NEW s, NEW R, Counted(s, R)
  PROVE  MarksStay /\ SlipsStay /\ h'.ended = h.ended
<1>1. SlipsStay
  BY CountedTyped DEF IInv
<1>2. MarksStay /\ h'.ended = h.ended
  BY DEF Counted, MarksStay, IInv, Typed, HistoryTyped
<1> QED BY <1>1, <1>2

\* One row's state is set: no turn changes.
LEMMA SetStateTurns ==
  ASSUME IInv, NEW x, NEW state, setState(x, state)
  PROVE  TurnsSame
BY DEF setState, TurnsSame, IInv, Typed, ObjectsTyped, Objects

LEMMA PromptTurns ==
  ASSUME IInv, PlaceInv, TurnInv, NEW c \in Prompts, PromptStep(c)
  PROVE  TurnInv'
<1> USE NoneIsNoPrompt DEF IInv
<1>0. /\ object \in [Prompts -> Objects] /\ call \in [Prompts -> Calls] /\ loop \in [Prompts -> Loops]
      /\ \A th \in Threads : thread(th) \in Servers
      /\ h = [ended |-> h.ended, slips |-> h.slips, answered |-> h.answered, wrong |-> h.wrong]
      /\ known \subseteq Threads
  BY DEF Typed, ObjectsTyped, CallsTyped, Calls, HasThread, LoopsTyped, Loops, BackendTyped,
     thread, HistoryTyped, NativesTyped
<1>1. CASE /\ UNCHANGED <<nativeOf, object, h>> /\ b'.threads = b.threads
           /\ \A d \in Prompts : TurnStays(d)
           /\ \A s \in Prompts : loop'[s].lost = loop[s].lost
  BY <1>1, TurnsStay DEF SlipsStay, TurnsSame, MarksStay, thread, known
<1>2. CASE ensureServer(c) \/ Initialized(c) \/ InitializeFails(c) \/ openThread(c)
  <2>1. /\ UNCHANGED <<nativeOf, object, h, b, loop>>
        /\ \A d \in Prompts \ {c} : call'[d] = call[d]
        /\ call'[c].pc \notin {"turn", "returned"}
    BY <1>0, <1>2 DEF ensureServer, Initialized, InitializeFails, openThread, HasServer, Goto, Calls
  <2> QED BY <1>1, <2>1 DEF TurnStays
<1>3. CASE StartServer(c)
  <2>1. /\ UNCHANGED <<nativeOf, object, h>> /\ call[c].pc = "lock"
        /\ HasServer(c) \/ Return(c, "failed") \/ Dial(c)
    BY <1>3 DEF StartServer
  <2>2. HasServer(c) => \A d \in Prompts : TurnStays(d)
    BY <1>0, <2>1 DEF HasServer, TurnStays, Calls
  <2>3. Return(c, "failed") => \A d \in Prompts : TurnStays(d)
    BY <1>0, <2>1 DEF Return, NoCall, TurnStays
  <2>4. Dial(c) => \A d \in Prompts : TurnStays(d)
    BY <1>0, <2>1 DEF Dial, TurnStays, Calls
  <2>5. b'.threads = b.threads
    BY <1>3 DEF StartServer, Dial, Typed, BackendTyped
  <2>6. loop' = loop \/ loop' = [loop EXCEPT ![c] = AtRead]
    BY <1>3 DEF StartServer, Dial
  <2>7. \A s \in Prompts : loop'[s].lost = loop[s].lost
    BY <1>0, <2>1, <2>6 DEF PlaceInv, LoopInv, AtRead, NotStarted
  <2> QED BY <1>1, <2>1, <2>2, <2>3, <2>4, <2>5, <2>7
<1>4. CASE StopReturns(c) \/ StoreServer(c)
  <2>1. UNCHANGED <<nativeOf, object, h, loop>> /\ b'.threads = b.threads
    BY <1>4 DEF StopReturns, StoreServer, Typed, BackendTyped
  <2>2. \A d \in Prompts : TurnStays(d)
    <3>1. CASE StopReturns(c)
      BY <1>0, <2>1, <3>1 DEF StopReturns, Return, NoCall, TurnStays
    <3>2. CASE StoreServer(c)
      BY <1>0, <2>1, <3>2 DEF StoreServer, Goto, TurnStays, Calls
    <3> QED BY <1>4, <3>1, <3>2
  <2> QED BY <1>1, <2>1, <2>2
<1>5. CASE Opened(c)
  <2> DEFINE th == call[c].th
  <2>1. /\ UNCHANGED loop /\ SlipsStay /\ th \in Threads /\ h'.ended = h.ended /\ h'.wrong = h.wrong
        /\ call[c].pc = "opening"
    BY <1>5 DEF Opened, Typed, HistoryTyped, SlipsStay, CallsTyped, HasThread
  <2>2. /\ \A x \in Threads : thread(x)' = IF x = th THEN c ELSE thread(x)
        /\ object' = [object EXCEPT ![c] = [newThread EXCEPT !.srv = call[c].srv]]
    BY <1>5, <2>1 DEF Opened, Typed, BackendTyped, thread
  <2>3. object'[c].turn = None /\ \A t \in Prompts \ {c} : object'[t] = object[t]
    BY <1>0, <2>2 DEF newThread
  <2>4. /\ \A d \in Prompts \ {c} : call'[d] = call[d]
        /\ call'[c].th = th /\ call'[c].pc = "claim"
    BY <1>0, <1>5 DEF Opened, Calls
  <2>5. known' = known
    BY <1>5 DEF Opened, known
  <2>6. h'.slips = {} => thread(th) = None
    BY <1>0, <1>5 DEF Opened
  <2>7. HeldInv'
    <3>1. SUFFICES ASSUME h'.slips = {}, NEW d \in Prompts, Awaits(d)'
                   PROVE  \E t \in Prompts : Held(d, t)'
      BY DEF HeldInv
    <3>2. d # c /\ call'[d] = call[d] /\ Awaits(d) /\ h.slips = {}
      BY <2>1, <2>4, <2>5, <3>1 DEF Awaits, SlipsStay
    <3>3. PICK t \in Prompts : Held(d, t)
      BY <3>2 DEF TurnInv, HeldInv
    <3>4. t # c
      <4>1. \A s \in Prompts : c \notin loop[s].lost
        BY <2>1 DEF PlaceInv, OpenedInv, Before
      <4>2. call[d].th \in Threads
        BY <1>0, <3>2 DEF Awaits
      <4>3. thread(call[d].th) # c
        BY <2>1, <4>2 DEF PlaceInv, OpenedInv, Before
      <4> QED BY <3>3, <4>1, <4>3 DEF Held
    <3>5. Held(d, t)'
      BY <1>0, <2>1, <2>2, <2>3, <2>6, <3>1, <3>2, <3>3, <3>4 DEF Held, Awaits
    <3> QED BY <3>5
  <2>8. MarkInv'
    BY <2>1, <2>3 DEF TurnInv, MarkInv
  <2> QED BY <2>7, <2>8 DEF TurnInv
<1>6. CASE Claim(c) /\ thread(call[c].th) = None
  <2>1. UNCHANGED <<nativeOf, object, h, loop, b>> /\ Return(c, "panicked")
    BY <1>6 DEF Claim
  <2>2. \A d \in Prompts : TurnStays(d)
    BY <1>0, <2>1 DEF Return, NoCall, TurnStays
  <2> QED BY <1>1, <2>1, <2>2
<1>7. CASE Claim(c) /\ thread(call[c].th) # None
  <2>1. PICK t \in Prompts : t = thread(call[c].th)
    BY <1>0, <1>7 DEF Claim, Typed, CallsTyped, HasThread, Servers
  <2>2. /\ UNCHANGED <<nativeOf, b, loop>> /\ SlipsStay /\ h'.ended = h.ended /\ h'.wrong = h.wrong
        /\ object' = [object EXCEPT ![t].turn = c, ![t].interrupted = None]
        /\ call' = [call EXCEPT ![c].pc = "turn", ![c].t = t]
        /\ h'.slips = {} => object[t].turn = None
    BY <1>0, <1>7, <2>1 DEF Claim, SlipsStay
  <2>3. /\ object'[t].turn = c /\ object'[t].interrupted = None
        /\ \A u \in Prompts \ {t} : object'[u] = object[u]
    BY <1>0, <2>2 DEF Objects
  <2>4. /\ \A d \in Prompts \ {c} : call'[d] = call[d]
        /\ call'[c].th = call[c].th
    BY <1>0, <2>2 DEF Calls
  <2>5. HeldInv'
    <3>1. SUFFICES ASSUME h'.slips = {}, NEW d \in Prompts, Awaits(d)'
                   PROVE  \E u \in Prompts : Held(d, u)'
      BY DEF HeldInv
    <3>2. CASE d = c
      BY <2>1, <2>2, <2>3, <2>4, <3>2 DEF Held, thread
    <3>3. CASE d # c
      <4>1. Awaits(d) /\ h.slips = {} /\ call'[d] = call[d]
        BY <2>2, <2>4, <3>1, <3>3 DEF Awaits, known, SlipsStay
      <4>2. PICK u \in Prompts : Held(d, u)
        BY <4>1 DEF TurnInv, HeldInv
      <4>3. u # t
        BY <2>2, <3>1, <4>2 DEF Held
      <4>4. Held(d, u)'
        BY <2>2, <2>3, <4>1, <4>2, <4>3 DEF Held, thread
      <4> QED BY <4>4
    <3> QED BY <3>2, <3>3
  <2>6. MarkInv'
    BY <2>2, <2>3 DEF TurnInv, MarkInv
  <2> QED BY <2>5, <2>6 DEF TurnInv
<1>8. CASE CallFails(c) /\ call[c].pc = "opening"
  <2>1. UNCHANGED <<nativeOf, object, h, loop, b>> /\ Return(c, "failed")
    BY <1>8 DEF CallFails
  <2>2. \A d \in Prompts : TurnStays(d)
    BY <1>0, <2>1 DEF Return, NoCall, TurnStays
  <2> QED BY <1>1, <2>1, <2>2
<1>9. CASE CallFails(c) /\ call[c].pc = "turn"
  <2>1. PICK t \in Prompts : t = call[c].t
    BY <1>9 DEF Typed, CallsTyped
  <2>2. /\ UNCHANGED <<nativeOf, b, loop>> /\ SlipsStay /\ h'.ended = h.ended /\ h'.wrong = h.wrong
        /\ object' = [object EXCEPT ![t].turn = None]
        /\ h'.slips = {} => object[t].turn \in {c, None}
        /\ Return(c, "failed")
    BY <1>0, <1>9, <2>1 DEF CallFails, SlipsStay
  <2>3. /\ object'[t].turn = None
        /\ \A u \in Prompts \ {t} : object'[u] = object[u]
    BY <1>0, <2>2 DEF Objects
  <2>4. /\ \A d \in Prompts \ {c} : call'[d] = call[d]
        /\ call'[c].pc = "failed"
    BY <1>0, <2>2 DEF Return, NoCall
  <2>5. HeldInv'
    <3>1. SUFFICES ASSUME h'.slips = {}, NEW d \in Prompts, Awaits(d)'
                   PROVE  \E u \in Prompts : Held(d, u)'
      BY DEF HeldInv
    <3>2. d # c /\ Awaits(d) /\ h.slips = {} /\ call'[d] = call[d]
      BY <2>2, <2>4, <3>1 DEF Awaits, known, SlipsStay
    <3>3. PICK u \in Prompts : Held(d, u)
      BY <3>2 DEF TurnInv, HeldInv
    <3>4. u # t
      BY <2>2, <3>1, <3>2, <3>3 DEF Held
    <3>5. Held(d, u)'
      BY <2>2, <2>3, <3>2, <3>3, <3>4 DEF Held, thread
    <3> QED BY <3>5
  <2>6. MarkInv'
    BY <2>2, <2>3 DEF TurnInv, MarkInv
  <2> QED BY <2>5, <2>6 DEF TurnInv
<1>10. CASE PromptReturns(c)
  <2>1. /\ UNCHANGED <<nativeOf, b, loop, h>> /\ setState(call[c].th, "running")
        /\ call[c].pc = "turn" /\ Return(c, "returned")
    BY <1>10 DEF PromptReturns
  <2>2. \A d \in Prompts : TurnStays(d)
    BY <1>0, <2>1 DEF Return, NoCall, TurnStays
  <2> QED BY <2>1, <2>2, SetStateTurns, TurnsStay DEF SlipsStay, MarksStay, thread, known
<1> QED BY <1>2, <1>3, <1>4, <1>5, <1>6, <1>7, <1>8, <1>9, <1>10 DEF PromptStep, CallFails

LEMMA LoopTurns ==
  ASSUME IInv, PlaceInv, TurnInv, NEW s \in Prompts, LoopStep(s)
  PROVE  TurnInv'
<1> USE NoneIsNoPrompt DEF IInv
<1>0. /\ object \in [Prompts -> Objects] /\ call \in [Prompts -> Calls] /\ loop \in [Prompts -> Loops]
      /\ \A th \in Threads : thread(th) \in Servers
      /\ h = [ended |-> h.ended, slips |-> h.slips, answered |-> h.answered, wrong |-> h.wrong]
      /\ known \subseteq Threads
      /\ \A x \in Prompts : loop[x].lost \subseteq Prompts /\ (loop[x].lost = {} \/ loop[x].at = "lost")
  BY DEF Typed, ObjectsTyped, CallsTyped, Calls, HasThread, LoopsTyped, Loops, BackendTyped,
     thread, HistoryTyped, NativesTyped, PlaceInv, LoopInv
<1>1. CASE /\ UNCHANGED <<nativeOf, b, call>> /\ TurnsSame /\ MarksStay /\ SlipsStay
           /\ h'.ended = h.ended
           /\ \A x \in Prompts : loop[x].lost \subseteq loop'[x].lost
  BY <1>1, TurnsStay DEF TurnStays, thread, known
<1>2. CASE resolve(s)
  <2>1. UNCHANGED <<nativeOf, b, loop, object, h>> /\ Line(s)[2] \in Prompts
    BY <1>2, LineParts DEF resolve, HasLine
  <2>2. PICK c \in Prompts : c = Line(s)[2]
    BY <2>1
  <2>3. \A d \in Prompts : TurnStays(d)
    BY <1>0, <1>2, <2>1, <2>2 DEF resolve, TurnStays, Calls
  <2> QED BY <2>1, <2>3, TurnsStay DEF SlipsStay, MarksStay, TurnsSame, thread, known
<1>3. CASE onUnknown(s) \/ declineUnknown(s)
  <2>1. /\ UNCHANGED <<nativeOf, b, loop, object, call>>
        /\ MarksStay /\ SlipsStay /\ h'.ended = h.ended
    BY <1>3, CountedMarks DEF onUnknown, declineUnknown, MarksStay, SlipsStay
  <2> QED BY <1>1, <2>1 DEF TurnsSame
<1>4. CASE onTurnStarted(s) \/ onRequest(s) \/ resolveAllPending(s)
  <2>1. /\ UNCHANGED <<nativeOf, b, call>> /\ loop[s].at = "read"
        /\ MarksStay /\ SlipsStay /\ h'.ended = h.ended
    BY <1>4, CountedMarks DEF onTurnStarted, onRequest, resolveAllPending, MarksStay, SlipsStay, HasLine
  <2>2. \E at, to : Then(s, at, to)
    BY <1>4 DEF onTurnStarted, onRequest, resolveAllPending
  <2>3. \A x \in Prompts : loop[x].lost \subseteq loop'[x].lost
    BY <1>0, <2>1, <2>2, ThenMoves
  <2>4. TurnsSame
    BY <1>0, <1>4 DEF onTurnStarted, onRequest, resolveAllPending, TurnsSame, Objects
  <2> QED BY <1>1, <2>1, <2>3, <2>4
<1>5. CASE onTurnCompleted(s)
  <2>1. PICK t \in Prompts : t = loop[s].t
    BY <1>5 DEF onTurnCompleted, Typed, LoopsTyped
  <2>2. /\ UNCHANGED <<nativeOf, b, call>> /\ SlipsStay /\ h'.slips = h.slips
        /\ h'.ended = h.ended \cup ({object[t].turn} \ {None})
        /\ loop' = [loop EXCEPT ![s].at = "setState"]
        /\ object' = [object EXCEPT ![t].turn = None, ![t].turnID = FALSE, ![t].interrupted = None]
    BY <1>0, <1>5, <2>1 DEF onTurnCompleted, Ended, SlipsStay
  <2>3. /\ object'[t].turn = None
        /\ \A u \in Prompts \ {t} : object'[u] = object[u]
    BY <1>0, <2>2 DEF Objects
  <2>4. \A x \in Prompts : loop'[x].lost = loop[x].lost
    BY <1>0, <2>2 DEF Loops
  <2>5. HeldInv'
    <3>1. SUFFICES ASSUME h.slips = {}, NEW d \in Prompts, Awaits(d)'
                   PROVE  \E u \in Prompts : Held(d, u)'
      BY <2>2 DEF HeldInv
    <3>2. Awaits(d) /\ (d # None => object[t].turn # d)
      BY <2>2, <3>1 DEF Awaits, known
    <3>3. PICK u \in Prompts : Held(d, u)
      BY <3>1, <3>2 DEF TurnInv, HeldInv
    <3>4. u # t
      BY <3>2, <3>3 DEF Held
    <3>5. Held(d, u)'
      BY <2>2, <2>3, <2>4, <3>3, <3>4 DEF Held, thread
    <3> QED BY <3>5
  <2>6. MarksStay
    <3>1. object[t].turn # None => object[t].interrupted \in {None, object[t].turn}
      BY DEF TurnInv, MarkInv
    <3>2. Ended(t)
      BY <1>5, <2>1 DEF onTurnCompleted
    <3>3. h'.wrong = h.wrong
      BY <1>0, <3>1, <3>2 DEF Ended
    <3> QED BY <3>3 DEF MarksStay
  <2>7. MarkInv'
    BY <2>3, <2>6 DEF TurnInv, MarkInv, MarksStay
  <2> QED BY <2>5, <2>7 DEF TurnInv
<1>6. CASE HandlerReturns(s)
  <2>1. /\ UNCHANGED <<nativeOf, b, call, h>> /\ loop[s].at = "setState"
        /\ setState(loop[s].th, loop[s].to) /\ loop' = [loop EXCEPT ![s] = AtRead]
    BY <1>6 DEF HandlerReturns
  <2>2. \A x \in Prompts : loop[x].lost \subseteq loop'[x].lost
    BY <1>0, <2>1
  <2> QED BY <1>1, <2>1, <2>2, SetStateTurns DEF MarksStay, SlipsStay
<1>7. CASE readLoopEnds(s)
  <2>1. \A x \in Prompts : loop[x].lost \subseteq loop'[x].lost
    BY <1>0, <1>7 DEF readLoopEnds, Loops
  <2> QED BY <1>1, <1>7, <2>1 DEF readLoopEnds, MarksStay, SlipsStay, TurnsSame
<1>8. CASE onServerExit(s)
  <2>1. /\ UNCHANGED <<nativeOf, object, call>> /\ SlipsStay /\ loop[s].at = "closed"
        /\ h'.ended = h.ended /\ h'.wrong = h.wrong
    BY <1>8 DEF onServerExit, SlipsStay, Typed, HistoryTyped
  <2>2. /\ \A d \in Prompts \ {s} : loop'[d] = loop[d]
        /\ loop'[s].lost = {thread(th) : th \in Threads} \ {None}
    BY <1>0, <1>8 DEF onServerExit, Loops
  <2>3. HeldInv'
    <3>1. SUFFICES ASSUME h.slips = {}, NEW d \in Prompts, Awaits(d)'
                   PROVE  \E u \in Prompts : Held(d, u)'
      BY <2>1 DEF HeldInv, SlipsStay
    <3>2. Awaits(d) /\ call[d].th \in Threads
      BY <1>0, <2>1, <3>1 DEF Awaits, known
    <3>3. PICK u \in Prompts : Held(d, u)
      BY <3>1, <3>2 DEF TurnInv, HeldInv
    <3>4. \E x \in Prompts : u \in loop'[x].lost
      <4>1. CASE u = thread(call[d].th)
        BY <2>2, <3>2, <4>1
      <4>2. CASE \E x \in Prompts : u \in loop[x].lost
        <5>1. PICK x \in Prompts : u \in loop[x].lost
          BY <4>2
        <5>2. x # s
          BY <1>0, <2>1, <5>1
        <5> QED BY <2>2, <5>1, <5>2
      <4> QED BY <3>3, <4>1, <4>2 DEF Held
    <3>5. Held(d, u)'
      BY <2>1, <3>3, <3>4 DEF Held
    <3> QED BY <3>5
  <2>4. MarkInv'
    BY <2>1 DEF TurnInv, MarkInv
  <2> QED BY <2>3, <2>4 DEF TurnInv
<1>9. CASE ExitTells(s)
  <2> DEFINE told == {object[t].turn : t \in loop[s].lost} \ {None}
  <2>1. /\ UNCHANGED <<nativeOf, object, call, b>> /\ SlipsStay
        /\ h'.ended = h.ended \cup told /\ h'.wrong = h.wrong
    BY <1>9 DEF ExitTells, SlipsStay, Typed, HistoryTyped
  <2>2. \A d \in Prompts \ {s} : loop'[d] = loop[d]
    BY <1>0, <1>9 DEF ExitTells
  <2>3. HeldInv'
    <3>1. SUFFICES ASSUME h.slips = {}, NEW d \in Prompts, Awaits(d)'
                   PROVE  \E u \in Prompts : Held(d, u)'
      BY <2>1 DEF HeldInv, SlipsStay
    <3>2. Awaits(d) /\ d \notin told
      BY <2>1, <3>1 DEF Awaits, known
    <3>3. PICK u \in Prompts : Held(d, u)
      BY <3>1, <3>2 DEF TurnInv, HeldInv
    <3>4. u \notin loop[s].lost
      BY <3>2, <3>3 DEF Held
    <3>5. Held(d, u)'
      BY <2>1, <2>2, <3>3, <3>4 DEF Held, thread
    <3> QED BY <3>5
  <2>4. MarkInv'
    BY <2>1 DEF TurnInv, MarkInv
  <2> QED BY <2>3, <2>4 DEF TurnInv
<1> QED BY <1>2, <1>3, <1>4, <1>5, <1>6, <1>7, <1>8, <1>9 DEF LoopStep

LEMMA NextTurnInv == IInv /\ PlaceInv /\ TurnInv /\ [Next]_vars => TurnInv'
<1> SUFFICES ASSUME IInv, PlaceInv, TurnInv, [Next]_vars PROVE TurnInv'
  OBVIOUS
<1>0. object \in [Prompts -> Objects] /\ call \in [Prompts -> Calls]
  BY DEF IInv, Typed, ObjectsTyped, CallsTyped, Calls, HasThread
<1>1. ASSUME NEW c \in Prompts, NEW th \in Threads, Arrive(c, th) PROVE TurnInv'
  <2>1. UNCHANGED <<nativeOf, b, object, loop, h>>
    BY <1>1 DEF Arrive
  <2>2. \A d \in Prompts : TurnStays(d)
    BY <1>0, <1>1 DEF Arrive, TurnStays, NoCall
  <2> QED BY <2>1, <2>2, TurnsStay DEF SlipsStay, TurnsSame, MarksStay, thread, known
<1>2. ASSUME NEW th \in Threads, Discard(th) PROVE TurnInv'
  <2>1. UNCHANGED <<object, loop, h, call>> /\ known' = known \ {th}
    BY <1>2 DEF Discard, known
  <2>2. \A x \in known' : thread(x)' = thread(x)
    BY <1>2, <2>1 DEF Discard, IInv, Typed, BackendTyped, NativesTyped, thread
  <2> QED BY <2>1, <2>2, TurnsStay DEF SlipsStay, TurnsSame, MarksStay, TurnStays
<1>3. ASSUME NEW th \in Threads, Interrupt(th) PROVE TurnInv'
  <2>1. PICK t \in Prompts : t = thread(th)
    BY <1>3 DEF Interrupt, IInv, Typed, BackendTyped, thread, Servers
  <2>2. /\ UNCHANGED <<nativeOf, b, call, loop, h>>
        /\ object' = [object EXCEPT ![t].interrupted = object[t].turn]
    BY <1>3, <2>1 DEF Interrupt
  <2>3. /\ \A u \in Prompts : object'[u].turn = object[u].turn
        /\ \A u \in Prompts : object'[u].interrupted \in {object[u].interrupted, object[u].turn}
    BY <1>0, <2>2 DEF Objects
  <2>4. HeldInv'
    BY <2>2, <2>3 DEF TurnInv, HeldInv, Awaits, Held, thread, known
  <2>5. MarkInv'
    BY <2>2, <2>3 DEF TurnInv, MarkInv
  <2> QED BY <2>4, <2>5 DEF TurnInv
<1>4. ASSUME Outside, ~\E th \in Threads : Interrupt(th) PROVE TurnInv'
  <2>1. UNCHANGED <<nativeOf, b, call, loop>> /\ SlipsStay /\ h'.ended = h.ended
    BY <1>4, OutsideStays
  <2>2. ASSUME NEW o \in Owners, NEW th \in Threads, NEW a, RespondTakes(o, th, a)
        PROVE  TurnsSame /\ MarksStay
    BY <1>0, <2>2 DEF RespondTakes, Objects, TurnsSame, MarksStay
  <2>3. ASSUME NEW o \in Owners, Respond(o)
        PROVE  TurnsSame /\ MarksStay
    <3>1. UNCHANGED object \/ \E th : setState(th, "running")
      BY <2>3 DEF Respond
    <3>2. UNCHANGED h \/ \E s, R : Counted(s, R)
      BY <2>3 DEF Respond
    <3> QED BY <3>1, <3>2, SetStateTurns, CountedMarks DEF TurnsSame, MarksStay
  <2>4. UNCHANGED <<object, h>> => TurnsSame /\ MarksStay
    BY DEF TurnsSame, MarksStay
  <2>5. \/ UNCHANGED <<object, h>>
        \/ \E o \in Owners : Respond(o) \/ \E th \in Threads, a \in Ids \X Methods : RespondTakes(o, th, a)
    BY <1>4 DEF Outside, ServerDies, ServerTakes, ServerCompletes, ServerAsks, ServerStep, vars, Ids
  <2>6. TurnsSame /\ MarksStay
    BY <2>2, <2>3, <2>4, <2>5
  <2> QED BY <2>1, <2>6, TurnsStay DEF TurnStays, thread, known
<1> QED BY <1>1, <1>2, <1>3, <1>4, PromptTurns, LoopTurns DEF Next, Outside

\* A prompt that was accepted is still claimed, or its end, or the exit that ended
\* it, was told (thread.go:205-227, backend.go:145-176), and a turn told as
\* interrupted is one the owner interrupted, with any number of threads, prompts,
\* servers that die and starts that fail, and outside the windows h.slips names.
THEOREM TurnsAreTold == Spec => []TurnsTold
<1>1. IInv /\ TurnInv => TurnsTold
  <2>1. SUFFICES ASSUME IInv, TurnInv PROVE TurnsTold
    OBVIOUS
  <2>2. NoTurnIsDropped
    BY <2>1 DEF TurnInv, HeldInv, Awaits, Held, NoTurnIsDropped
  <2>3. InterruptedIsTheOwners
    BY <2>1 DEF TurnInv, MarkInv, InterruptedIsTheOwners
  <2> QED BY <2>2, <2>3 DEF TurnsTold
<1> QED BY <1>1, Invariance, Places, InitTurnInv, NextTurnInv, PTL DEF Spec
-----------------------------------------------------------------------------
(* What is in a pipe.                                                      *)

Asks(pipe, i) == \E k \in DOMAIN pipe : pipe[k][1] = "request" /\ pipe[k][3] = i
AskedOnce(pipe) ==
  \A k, l \in DOMAIN pipe :
    pipe[k][1] = "request" /\ pipe[l][1] = "request" /\ pipe[k][3] = pipe[l][3] => k = l
AskedAs(pipe, i, method) ==
  \A k \in DOMAIN pipe : pipe[k][1] = "request" /\ pipe[k][3] = i => pipe[k][4] = method
OnlyAnswers(pipe) == \A k \in DOMAIN pipe : pipe[k][1] = "answer"

\* Nothing is asked in q that is not in p.
Calm(p, q) ==
  /\ AskedOnce(p) => AskedOnce(q)
  /\ \A i : Asks(q, i) => Asks(p, i)
  /\ \A i, method : AskedAs(p, i, method) => AskedAs(q, i, method)

LEMMA CalmSame == \A p : Calm(p, p)
BY DEF Calm

LEMMA TailAsks ==
  ASSUME NEW pipe \in Seq(Lines), pipe # <<>>
  PROVE  /\ Calm(pipe, Tail(pipe))
         /\ OnlyAnswers(pipe) => OnlyAnswers(Tail(pipe))
         /\ Head(pipe)[1] = "request" => Asks(pipe, Head(pipe)[3])
         /\ AskedOnce(pipe) /\ Head(pipe)[1] = "request" => ~Asks(Tail(pipe), Head(pipe)[3])
         /\ \A line : (\E k \in DOMAIN pipe : pipe[k] = line)
              => line = Head(pipe) \/ \E k \in DOMAIN Tail(pipe) : Tail(pipe)[k] = line
<1> DEFINE rest == Tail(pipe)
<1>1. \A k \in DOMAIN rest : k + 1 \in DOMAIN pipe /\ rest[k] = pipe[k + 1] /\ k + 1 # 1 /\ k \in Nat
  OBVIOUS
<1>2. 1 \in DOMAIN pipe /\ Head(pipe) = pipe[1]
  OBVIOUS
<1>3. \A k \in DOMAIN pipe : k # 1 => k - 1 \in DOMAIN rest /\ rest[k - 1] = pipe[k]
  OBVIOUS
<1> HIDE DEF rest
<1>4. AskedOnce(pipe) => AskedOnce(rest)
  <2>1. SUFFICES ASSUME AskedOnce(pipe), NEW k \in DOMAIN rest, NEW l \in DOMAIN rest,
                        rest[k][1] = "request", rest[l][1] = "request", rest[k][3] = rest[l][3]
                 PROVE  k = l
    BY DEF AskedOnce
  <2>2. k + 1 = l + 1
    BY <1>1, <2>1 DEF AskedOnce
  <2> QED BY <1>1, <2>2
<1>5. \A i : Asks(rest, i) => Asks(pipe, i)
  BY <1>1 DEF Asks
<1>6. \A i, method : AskedAs(pipe, i, method) => AskedAs(rest, i, method)
  BY <1>1 DEF AskedAs
<1>7. OnlyAnswers(pipe) => OnlyAnswers(rest)
  BY <1>1 DEF OnlyAnswers
<1>8. Head(pipe)[1] = "request" => Asks(pipe, Head(pipe)[3])
  BY <1>2 DEF Asks
<1>9. AskedOnce(pipe) /\ Head(pipe)[1] = "request" => ~Asks(rest, Head(pipe)[3])
  <2>1. SUFFICES ASSUME AskedOnce(pipe), Head(pipe)[1] = "request", NEW k \in DOMAIN rest,
                        rest[k][1] = "request", rest[k][3] = Head(pipe)[3]
                 PROVE  FALSE
    BY DEF Asks
  <2>2. k + 1 = 1
    BY <1>1, <1>2, <2>1 DEF AskedOnce
  <2> QED BY <1>1, <2>2
<1>10. \A line : (\E k \in DOMAIN pipe : pipe[k] = line)
         => line = Head(pipe) \/ \E k \in DOMAIN rest : rest[k] = line
  BY <1>2, <1>3
<1> QED BY <1>4, <1>5, <1>6, <1>7, <1>8, <1>9, <1>10 DEF Calm, rest

LEMMA ConcatAsks ==
  ASSUME NEW pipe \in Seq(Lines), NEW lines \in Seq(Lines)
  PROVE  /\ (\A k \in DOMAIN lines : lines[k][1] # "request") => Calm(pipe, pipe \o lines)
         /\ OnlyAnswers(pipe) /\ OnlyAnswers(lines) => OnlyAnswers(pipe \o lines)
<1> DEFINE all == pipe \o lines
<1>1. \A k \in DOMAIN all : \/ k \in DOMAIN pipe /\ all[k] = pipe[k]
                            \/ k - Len(pipe) \in DOMAIN lines /\ all[k] = lines[k - Len(pipe)]
  OBVIOUS
<1> HIDE DEF all
<1>3. OnlyAnswers(pipe) /\ OnlyAnswers(lines) => OnlyAnswers(all)
  BY <1>1 DEF OnlyAnswers
<1>4. ASSUME \A k \in DOMAIN lines : lines[k][1] # "request"
      PROVE  Calm(pipe, all)
  <2>1. \A k \in DOMAIN all : all[k][1] = "request" => k \in DOMAIN pipe /\ all[k] = pipe[k]
    BY <1>1, <1>4
  <2> QED BY <2>1 DEF Calm, AskedOnce, Asks, AskedAs
<1> QED BY <1>3, <1>4 DEF all

\* A request is written after the lines of a pipe.
LEMMA AppendAsks ==
  ASSUME NEW pipe \in Seq(Lines), NEW n \in Prompts, NEW id \in Ids, NEW method \in Methods
  PROVE  LET all == pipe \o <<<<"request", n, id, method>>>> IN
         /\ \A i : Asks(all, i) => Asks(pipe, i) \/ i = id
         /\ AskedOnce(pipe) /\ ~Asks(pipe, id) => AskedOnce(all)
         /\ \A i, m : i # id /\ AskedAs(pipe, i, m) => AskedAs(all, i, m)
         /\ ~Asks(pipe, id) => AskedAs(all, id, method)
<1> DEFINE line == <<"request", n, id, method>>
           all == pipe \o <<line>>
<1>1. \A k \in DOMAIN all : \/ k \in DOMAIN pipe /\ all[k] = pipe[k]
                            \/ k = Len(pipe) + 1 /\ all[k] = line
  OBVIOUS
<1>4. line[1] = "request" /\ line[3] = id /\ line[4] = method
  OBVIOUS
<1> HIDE DEF all, line
<1>5. \A i : Asks(all, i) => Asks(pipe, i) \/ i = id
  BY <1>1, <1>4 DEF Asks
<1>6. AskedOnce(pipe) /\ ~Asks(pipe, id) => AskedOnce(all)
  BY <1>1, <1>4 DEF Asks, AskedOnce
<1>7. \A i, m : i # id /\ AskedAs(pipe, i, m) => AskedAs(all, i, m)
  BY <1>1, <1>4 DEF AskedAs
<1>8. ~Asks(pipe, id) => AskedAs(all, id, method)
  BY <1>1, <1>4 DEF AskedAs, Asks
<1> QED BY <1>5, <1>6, <1>7, <1>8 DEF all, line

-----------------------------------------------------------------------------
(* What a step changes of one process.                                     *)

LEMMA RestParts ==
  ASSUME Typed, NEW s \in Prompts, proc[s].pipe # <<>>
  PROVE  /\ Rest(s) \in [Prompts -> Processes]
         /\ \A x \in Prompts \ {s} : Rest(s)[x] = proc[x]
         /\ Rest(s)[s].pipe = Tail(proc[s].pipe) /\ proc[s].pipe \in Seq(Lines)
         /\ Rest(s)[s].alive = proc[s].alive /\ Rest(s)[s].inbox = proc[s].inbox
         /\ Rest(s)[s].convs = proc[s].convs /\ Rest(s)[s].work = proc[s].work
         /\ Rest(s)[s].asked = proc[s].asked /\ Rest(s)[s].open = proc[s].open
<1> DEFINE rest == Tail(proc[s].pipe)
           q == [proc[s] EXCEPT !.pipe = rest]
<1>1. proc \in [Prompts -> Processes] /\ proc[s] \in Processes /\ proc[s].pipe \in Seq(Lines)
  BY DEF Typed, ProcessesTyped, Processes
<1>2. Rest(s) = [proc EXCEPT ![s] = q]
  BY DEF Rest
<1> HIDE DEF rest
<1>3. /\ q.pipe = rest /\ q.alive = proc[s].alive /\ q.inbox = proc[s].inbox
      /\ q.convs = proc[s].convs /\ q.work = proc[s].work
      /\ q.asked = proc[s].asked /\ q.open = proc[s].open
  BY <1>1 DEF Processes
<1>4. Rest(s) \in [Prompts -> Processes]
  BY LineParts
<1> HIDE DEF q
<1>5. Rest(s)[s] = q /\ \A x \in Prompts \ {s} : Rest(s)[x] = proc[x]
  BY <1>1, <1>2
<1> QED BY <1>1, <1>3, <1>4, <1>5 DEF rest

LEMMA AnswerParts ==
  ASSUME Typed, NEW p \in [Prompts -> Processes], NEW R, AnswerAll(p, R), NEW x \in Prompts
  PROVE  /\ proc'[x].pipe = p[x].pipe /\ proc'[x].alive = p[x].alive /\ proc'[x].inbox = p[x].inbox
         /\ proc'[x].convs = p[x].convs /\ proc'[x].work = p[x].work /\ proc'[x].asked = p[x].asked
         /\ proc'[x].open \subseteq p[x].open
         /\ CanAnswer /\ x = b.server => \A a \in proc'[x].open : \A q \in R : a[1] # q[1]
         /\ x # b.server => proc'[x] = p[x]
         /\ \A a \in p[x].open : (\A q \in R : a[1] # q[1]) => a \in proc'[x].open
<1>1. CASE proc' = p /\ ~CanAnswer
  BY <1>1
<1>2. CASE CanAnswer
  <2>1. PICK s \in Prompts : s = b.server
    BY <1>2 DEF CanAnswer, Typed, BackendTyped, Servers
  <2> DEFINE left == {a \in p[s].open : \A q \in R : a[1] # q[1]}
             q == [p[s] EXCEPT !.open = left]
  <2>2. proc' = [p EXCEPT ![s] = q]
    BY <1>2, <2>1 DEF AnswerAll
  <2>3. /\ q.pipe = p[s].pipe /\ q.alive = p[s].alive /\ q.inbox = p[s].inbox
        /\ q.convs = p[s].convs /\ q.work = p[s].work /\ q.asked = p[s].asked /\ q.open = left
    BY DEF Processes
  <2> HIDE DEF q
  <2>4. proc'[s] = q /\ \A y \in Prompts \ {s} : proc'[y] = p[y]
    BY <2>2
  <2> QED BY <2>1, <2>3, <2>4
<1> QED BY <1>1, <1>2 DEF AnswerAll

LEMMA KilledParts ==
  ASSUME Typed, NEW s \in Prompts, Killed(s)
  PROVE  /\ \A x \in Prompts \ {s} : proc'[x] = proc[x]
         /\ proc'[s].pipe = proc[s].pipe /\ proc'[s].asked = proc[s].asked /\ ~proc'[s].alive
         /\ proc'[s].inbox = {} /\ proc'[s].convs = {} /\ proc'[s].work = {} /\ proc'[s].open = {}
<1> DEFINE q == [NoProcess EXCEPT !.pipe = proc[s].pipe, !.asked = proc[s].asked]
<1>1. proc' = [proc EXCEPT ![s] = q] /\ proc \in [Prompts -> Processes]
  BY DEF Killed, Typed, ProcessesTyped
<1>2. /\ q.pipe = proc[s].pipe /\ q.asked = proc[s].asked /\ ~q.alive
      /\ q.inbox = {} /\ q.convs = {} /\ q.work = {} /\ q.open = {}
  BY DEF NoProcess
<1> HIDE DEF q
<1>3. proc'[s] = q /\ \A x \in Prompts \ {s} : proc'[x] = proc[x]
  BY <1>1
<1> QED BY <1>2, <1>3

LEMMA RequestParts ==
  ASSUME Typed, NEW c \in Prompts, NEW method, Request(c, method)
  PROVE  /\ \A x \in Prompts \ {call[c].srv} : proc'[x] = proc[x]
         /\ \A x \in Prompts :
              /\ proc'[x].pipe = proc[x].pipe /\ proc'[x].alive = proc[x].alive
              /\ proc'[x].convs = proc[x].convs /\ proc'[x].work = proc[x].work
              /\ proc'[x].asked = proc[x].asked /\ proc'[x].open = proc[x].open
              /\ proc'[x].inbox \subseteq proc[x].inbox \cup {<<method, c, Conversation(c)>>}
<1> DEFINE s == call[c].srv
           m == <<method, c, Conversation(c)>>
           inbox == IF proc[s].alive THEN proc[s].inbox \cup {m} ELSE proc[s].inbox
           q == [proc[s] EXCEPT !.inbox = inbox]
<1>1. proc' = [proc EXCEPT ![s] = q] /\ proc \in [Prompts -> Processes]
  BY DEF Request, Typed, ProcessesTyped
<1>2. inbox \subseteq proc[s].inbox \cup {m}
  OBVIOUS
<1> HIDE DEF inbox, m
<1>3. s \in Prompts =>
      /\ q.pipe = proc[s].pipe /\ q.alive = proc[s].alive /\ q.convs = proc[s].convs
      /\ q.work = proc[s].work /\ q.asked = proc[s].asked /\ q.open = proc[s].open
      /\ q.inbox = inbox
  BY <1>1 DEF Processes
<1> HIDE DEF q
<1>4. /\ s \in Prompts => proc'[s] = q
      /\ \A x \in Prompts : x # s => proc'[x] = proc[x]
  BY <1>1
<1> HIDE DEF s
<1>5. \A x \in Prompts \ {s} : proc'[x] = proc[x]
  BY <1>4
<1>6. ASSUME NEW x \in Prompts
      PROVE  /\ proc'[x].pipe = proc[x].pipe /\ proc'[x].alive = proc[x].alive
             /\ proc'[x].convs = proc[x].convs /\ proc'[x].work = proc[x].work
             /\ proc'[x].asked = proc[x].asked /\ proc'[x].open = proc[x].open
             /\ proc'[x].inbox \subseteq proc[x].inbox \cup {m}
  <2>1. CASE x = s
    BY <1>2, <1>3, <1>4, <2>1
  <2>2. CASE x # s
    BY <1>5, <2>2
  <2> QED BY <2>1, <2>2
<1> QED BY <1>5, <1>6 DEF s, m

LEMMA ServerStepParts ==
  ASSUME Typed, NEW s \in Prompts, NEW p \in Processes, NEW lines, ServerStep(s, p, lines)
  PROVE  /\ \A x \in Prompts \ {s} : proc'[x] = proc[x]
         /\ proc'[s].pipe = p.pipe \o lines /\ proc'[s].alive = p.alive /\ proc'[s].inbox = p.inbox
         /\ proc'[s].convs = p.convs /\ proc'[s].work = p.work /\ proc'[s].asked = p.asked
         /\ proc'[s].open = p.open
<1> DEFINE all == p.pipe \o lines
           q == [p EXCEPT !.pipe = all]
<1>1. proc' = [proc EXCEPT ![s] = q] /\ proc \in [Prompts -> Processes]
  BY DEF ServerStep, Typed, ProcessesTyped
<1> HIDE DEF all
<1>2. /\ q.pipe = all /\ q.alive = p.alive /\ q.inbox = p.inbox /\ q.convs = p.convs
      /\ q.work = p.work /\ q.asked = p.asked /\ q.open = p.open
  BY DEF Processes
<1> HIDE DEF q
<1>3. proc'[s] = q /\ \A x \in Prompts \ {s} : proc'[x] = proc[x]
  BY <1>1
<1> QED BY <1>2, <1>3 DEF all

\* The three things the server does, in full.
LEMMA ServerTakesParts ==
  ASSUME Typed, NEW s \in Prompts, NEW m \in proc[s].inbox, ServerTakes(s, m)
  PROVE  /\ m \in Messages /\ proc[s].alive
         /\ \A x \in Prompts \ {s} : proc'[x] = proc[x]
         /\ proc'[s].alive /\ proc'[s].inbox = proc[s].inbox \ {m}
         /\ proc'[s].asked = proc[s].asked /\ proc'[s].open = proc[s].open
         /\ \E lines \in Seq(Lines) :
              /\ proc'[s].pipe = proc[s].pipe \o lines
              /\ \A k \in DOMAIN lines : lines[k][1] # "request"
              /\ m[1] = "initialize" => OnlyAnswers(lines)
         /\ m[1] # "turn/start" => proc'[s].work = proc[s].work
         /\ m[1] = "turn/start" => proc'[s].work = proc[s].work \cup {m[3]}
         /\ m[1] = "initialize" => proc'[s].convs = proc[s].convs
<1> DEFINE n == m[3]
           answer == <<<<"answer", m[2]>>>>
           more == <<<<"turn/started", n>>>>
           started == answer \o more
           p == [proc[s] EXCEPT !.inbox = proc[s].inbox \ {m}]
           p1 == [p EXCEPT !.convs = p.convs \cup {n}]
           p2 == [p EXCEPT !.work = p.work \cup {n}]
<1>1. proc[s] \in Processes /\ m \in Messages /\ proc[s].alive
  BY DEF Typed, ProcessesTyped, Processes, ServerTakes, ServerStep
<1>2. m[2] \in Prompts /\ (m[1] \in {"thread/start", "turn/start"} => n \in Prompts)
  BY <1>1 DEF Messages
<1>3. answer \in Seq(Lines) /\ (m[1] = "turn/start" => more \in Seq(Lines))
  BY <1>2 DEF Lines
<1>4. /\ \A k \in DOMAIN answer : answer[k][1] = "answer"
      /\ \A k \in DOMAIN more : more[k][1] = "turn/started"
  OBVIOUS
<1>d. answer = <<<<"answer", m[2]>>>> /\ more = <<<<"turn/started", n>>>>
  OBVIOUS
<1> HIDE DEF answer, more
<1>5. m[1] = "turn/start" =>
      started \in Seq(Lines) /\ \A k \in DOMAIN started : started[k][1] # "request"
  BY <1>3, <1>4
<1> HIDE DEF started
<1>6. /\ p \in Processes /\ p.pipe = proc[s].pipe /\ p.alive = proc[s].alive
      /\ p.inbox = proc[s].inbox \ {m} /\ p.convs = proc[s].convs /\ p.work = proc[s].work
      /\ p.asked = proc[s].asked /\ p.open = proc[s].open
  BY <1>1 DEF Processes
<1> HIDE DEF p
<1>7. m[1] \in {"thread/start", "turn/start"} =>
      /\ p1 \in Processes /\ p1.pipe = p.pipe /\ p1.alive = p.alive /\ p1.inbox = p.inbox
      /\ p1.work = p.work /\ p1.asked = p.asked /\ p1.open = p.open
      /\ p2 \in Processes /\ p2.pipe = p.pipe /\ p2.alive = p.alive /\ p2.inbox = p.inbox
      /\ p2.work = p.work \cup {n} /\ p2.asked = p.asked /\ p2.open = p.open
  BY <1>2, <1>6 DEF Processes
<1>8. \/ m[1] = "initialize" /\ ServerStep(s, p, answer)
      \/ m[1] = "thread/start" /\ ServerStep(s, p1, answer)
      \/ m[1] = "turn/start" /\ ServerStep(s, p2, started)
  BY <1>d DEF ServerTakes, p, started
<1> HIDE DEF p1, p2
<1>9. CASE m[1] = "initialize" /\ ServerStep(s, p, answer)
  <2>1. /\ \A x \in Prompts \ {s} : proc'[x] = proc[x]
        /\ proc'[s].pipe = p.pipe \o answer /\ proc'[s].alive = p.alive /\ proc'[s].inbox = p.inbox
        /\ proc'[s].convs = p.convs /\ proc'[s].work = p.work /\ proc'[s].asked = p.asked
        /\ proc'[s].open = p.open
    BY <1>6, <1>9, ServerStepParts
  <2> QED BY <1>1, <1>3, <1>4, <1>6, <1>9, <2>1 DEF OnlyAnswers
<1>10. CASE m[1] = "thread/start" /\ ServerStep(s, p1, answer)
  <2>1. /\ \A x \in Prompts \ {s} : proc'[x] = proc[x]
        /\ proc'[s].pipe = p1.pipe \o answer /\ proc'[s].alive = p1.alive /\ proc'[s].inbox = p1.inbox
        /\ proc'[s].work = p1.work /\ proc'[s].asked = p1.asked /\ proc'[s].open = p1.open
    BY <1>7, <1>10, ServerStepParts
  <2>2. m[1] # "initialize" /\ m[1] # "turn/start" /\ \A k \in DOMAIN answer : answer[k][1] # "request"
    BY <1>4, <1>10
  <2>3. \E lines \in Seq(Lines) :
          /\ proc'[s].pipe = proc[s].pipe \o lines
          /\ \A k \in DOMAIN lines : lines[k][1] # "request"
          /\ m[1] = "initialize" => OnlyAnswers(lines)
    <3>1. proc'[s].pipe = proc[s].pipe \o answer
      BY <1>6, <1>7, <1>10, <2>1
    <3> QED BY <1>3, <2>2, <3>1
  <2> QED BY <1>1, <1>6, <1>7, <1>10, <2>1, <2>2, <2>3
<1>11. CASE m[1] = "turn/start" /\ ServerStep(s, p2, started)
  <2>1. /\ \A x \in Prompts \ {s} : proc'[x] = proc[x]
        /\ proc'[s].pipe = p2.pipe \o started /\ proc'[s].alive = p2.alive /\ proc'[s].inbox = p2.inbox
        /\ proc'[s].work = p2.work /\ proc'[s].asked = p2.asked /\ proc'[s].open = p2.open
    BY <1>7, <1>11, ServerStepParts
  <2> QED BY <1>1, <1>5, <1>6, <1>7, <1>11, <2>1
<1> QED BY <1>8, <1>9, <1>10, <1>11

LEMMA ServerAsksParts ==
  ASSUME Typed, NEW s \in Prompts, NEW n \in Prompts, NEW method \in Methods,
         ServerAsks(s, n, method)
  PROVE  /\ proc[s].alive /\ n \in proc[s].work
         /\ \A x \in Prompts \ {s} : proc'[x] = proc[x]
         /\ proc'[s].alive /\ proc'[s].inbox = proc[s].inbox /\ proc'[s].work = proc[s].work
         /\ proc'[s].asked = proc[s].asked + 1 /\ proc[s].asked + 1 \in Ids
         /\ proc'[s].open = proc[s].open \cup {<<proc[s].asked + 1, n, method>>}
         /\ proc'[s].pipe = proc[s].pipe \o <<<<"request", n, proc[s].asked + 1, method>>>>
<1> DEFINE id == proc[s].asked + 1
           lines == <<<<"request", n, id, method>>>>
           more == proc[s].open \cup {<<id, n, method>>}
           q == [proc[s] EXCEPT !.asked = id, !.open = more]
<1>1. id \in Ids /\ ServerStep(s, q, lines) /\ n \in proc[s].work /\ proc[s].alive
  BY DEF ServerAsks, ServerStep, Ids
<1>2. proc[s] \in Processes
  BY DEF Typed, ProcessesTyped
<1>3. more \in SUBSET (Ids \X Prompts \X Methods) /\ id \in Nat
  BY <1>1, <1>2, CodexAssumption DEF Processes, Ids
<1> HIDE DEF more, id
<1>4. /\ q \in Processes /\ q.pipe = proc[s].pipe /\ q.alive = proc[s].alive
      /\ q.inbox = proc[s].inbox /\ q.work = proc[s].work /\ q.asked = id /\ q.open = more
  BY <1>2, <1>3 DEF Processes
<1> HIDE DEF q, lines
<1>5. /\ \A x \in Prompts \ {s} : proc'[x] = proc[x]
      /\ proc'[s].pipe = q.pipe \o lines /\ proc'[s].alive = q.alive /\ proc'[s].inbox = q.inbox
      /\ proc'[s].work = q.work /\ proc'[s].asked = q.asked /\ proc'[s].open = q.open
  BY <1>1, <1>4, ServerStepParts
<1> QED BY <1>1, <1>4, <1>5 DEF more, id, lines

LEMMA ServerCompletesParts ==
  ASSUME Typed, NEW s \in Prompts, NEW n \in Prompts, ServerCompletes(s, n)
  PROVE  /\ proc[s].alive /\ n \in proc[s].work
         /\ \A x \in Prompts \ {s} : proc'[x] = proc[x]
         /\ proc'[s].alive /\ proc'[s].inbox = proc[s].inbox /\ proc'[s].work = proc[s].work \ {n}
         /\ proc'[s].asked = proc[s].asked
         /\ proc'[s].open = {a \in proc[s].open : a[2] # n}
         /\ proc'[s].pipe = proc[s].pipe \o <<<<"turn/completed", n>>>>
<1> DEFINE lines == <<<<"turn/completed", n>>>>
           left == {a \in proc[s].open : a[2] # n}
           q == [proc[s] EXCEPT !.work = proc[s].work \ {n}, !.open = left]
<1>1. ServerStep(s, q, lines) /\ n \in proc[s].work /\ proc[s].alive
  BY DEF ServerCompletes, ServerStep
<1>2. proc[s] \in Processes /\ left \in SUBSET (Ids \X Prompts \X Methods)
  BY DEF Typed, ProcessesTyped, Processes
<1> HIDE DEF left
<1>3. /\ q \in Processes /\ q.pipe = proc[s].pipe /\ q.alive = proc[s].alive
      /\ q.inbox = proc[s].inbox /\ q.work = proc[s].work \ {n} /\ q.asked = proc[s].asked
      /\ q.open = left
  BY <1>2 DEF Processes
<1> HIDE DEF q, lines
<1>4. /\ \A x \in Prompts \ {s} : proc'[x] = proc[x]
      /\ proc'[s].pipe = q.pipe \o lines /\ proc'[s].alive = q.alive /\ proc'[s].inbox = q.inbox
      /\ proc'[s].work = q.work /\ proc'[s].asked = q.asked /\ proc'[s].open = q.open
  BY <1>1, <1>3, ServerStepParts
<1> QED BY <1>1, <1>3, <1>4 DEF left, lines

LEMMA DiscardParts ==
  ASSUME Typed, NEW th \in Threads, Discard(th), NEW x \in Prompts
  PROVE  LET n == nativeOf[th] IN
         /\ proc'[x].pipe = proc[x].pipe /\ proc'[x].alive = proc[x].alive
         /\ proc'[x].inbox = proc[x].inbox /\ proc'[x].asked = proc[x].asked
         /\ proc'[x].work \subseteq proc[x].work /\ proc'[x].convs \subseteq proc[x].convs
         /\ proc'[x].open \subseteq proc[x].open
         /\ CanAnswer /\ x = b.server => /\ proc'[x].open = {a \in proc[x].open : a[2] # n}
                                         /\ proc'[x].work = proc[x].work \ {n}
         /\ x # b.server => proc'[x] = proc[x]
         /\ ~CanAnswer => proc'[x] = proc[x]
<1>1. CASE UNCHANGED proc /\ ~CanAnswer
  BY <1>1
<1>2. CASE CanAnswer
  <2>1. PICK s \in Prompts : s = b.server
    BY <1>2 DEF CanAnswer, Typed, BackendTyped, Servers
  <2> DEFINE n == nativeOf[th]
             left == {a \in proc[s].open : a[2] # n}
             q == [proc[s] EXCEPT !.work = proc[s].work \ {n}, !.convs = proc[s].convs \ {n},
                                  !.open = left]
  <2>2. proc' = [proc EXCEPT ![s] = q] /\ proc \in [Prompts -> Processes]
    BY <1>2, <2>1 DEF Discard, Typed, ProcessesTyped
  <2> HIDE DEF left, n
  <2>3. /\ q.pipe = proc[s].pipe /\ q.alive = proc[s].alive /\ q.inbox = proc[s].inbox
        /\ q.convs = proc[s].convs \ {n} /\ q.work = proc[s].work \ {n}
        /\ q.asked = proc[s].asked /\ q.open = left
    BY <2>2 DEF Processes
  <2> HIDE DEF q
  <2>4. proc'[s] = q /\ \A y \in Prompts \ {s} : proc'[y] = proc[y]
    BY <2>2
  <2>5. CASE x = s
    BY <1>2, <2>1, <2>3, <2>4, <2>5 DEF left, n
  <2>6. CASE x # s
    BY <1>2, <2>1, <2>4, <2>6
  <2> QED BY <2>5, <2>6
<1> QED BY <1>1, <1>2 DEF Discard

-----------------------------------------------------------------------------
(* Prompts move forward, and the server of a prompt is the one it dialed   *)
(* or the one that was stored.                                             *)

Fresh == {"new", "ensure", "lock", "initialize", "stop", "store"}

Forward(c) ==
  /\ call[c].pc \notin Before => call'[c].pc \notin Before
  /\ call[c].pc \notin Fresh => call'[c].pc \notin Fresh
  /\ call[c].pc # "new" => call'[c].pc # "new" /\ call'[c].th = call[c].th
  /\ call'[c].srv \in {None, call[c].srv, b.server, c}

LEMMA PromptForward ==
  ASSUME IInv, NEW c \in Prompts, PromptStep(c)
  PROVE  \A d \in Prompts : Forward(d)
<1> USE NoneIsNoPrompt DEF IInv, Forward, Before, Fresh
<1>0. call \in [Prompts -> Calls]
  BY DEF Typed, CallsTyped, Calls, HasThread
<1> DEFINE returns == \E pc \in {"failed", "panicked", "returned"} : Return(c, pc) /\ call[c].pc # "new"
           found   == HasServer(c) /\ call[c].pc \in {"ensure", "lock"}
           waits   == Goto(c, "lock") /\ call[c].pc = "ensure"
           dials   == Dial(c) /\ call[c].pc = "lock"
           claims  == Claim(c) /\ call' = [call EXCEPT ![c].pc = "turn", ![c].t = thread(call[c].th)]
<1>1. CASE returns
  BY <1>0, <1>1 DEF Return, NoCall
<1>2. CASE found
  BY <1>0, <1>2 DEF HasServer, Calls
<1>3. CASE waits
  BY <1>0, <1>3 DEF Goto, Calls
<1>4. CASE dials
  BY <1>0, <1>4 DEF Dial, Calls
<1>5. CASE Initialized(c) \/ StoreServer(c) \/ InitializeFails(c)
  BY <1>0, <1>5 DEF Initialized, StoreServer, InitializeFails, Goto, Calls
<1>6. CASE openThread(c)
  BY <1>0, <1>6 DEF openThread, Goto, Calls
<1>7. CASE Opened(c)
  BY <1>0, <1>7 DEF Opened, Calls
<1>8. CASE claims
  BY <1>0, <1>8 DEF Claim, Calls
<1>9. ensureServer(c) \/ StartServer(c) => returns \/ found \/ waits \/ dials
  BY DEF ensureServer, StartServer
<1>10. StopReturns(c) \/ CallFails(c) \/ PromptReturns(c) => returns
  BY DEF StopReturns, CallFails, PromptReturns
<1>11. Claim(c) => returns \/ claims
  BY DEF Claim
<1> QED BY <1>1, <1>2, <1>3, <1>4, <1>5, <1>6, <1>7, <1>8, <1>9, <1>10, <1>11 DEF PromptStep

LEMMA CallsForward ==
  ASSUME IInv, [Next]_vars
  PROVE  \A c \in Prompts : Forward(c)
<1>0. call \in [Prompts -> Calls]
  BY DEF IInv, Typed, CallsTyped, Calls, HasThread
<1>1. ASSUME NEW c \in Prompts, NEW th \in Threads, Arrive(c, th) PROVE \A d \in Prompts : Forward(d)
  BY <1>0, <1>1 DEF Arrive, NoCall, Forward, Before, Fresh
<1>2. ASSUME NEW s \in Prompts, resolve(s) PROVE \A d \in Prompts : Forward(d)
  BY <1>0, <1>2 DEF resolve, Forward, Calls
<1>3. CASE UNCHANGED call
  BY <1>3 DEF Forward
<1>4. Outside => UNCHANGED call
  BY OutsideStays
<1>5. ASSUME NEW s \in Prompts, LoopStep(s) PROVE resolve(s) \/ UNCHANGED call
  BY <1>5 DEF LoopStep, onUnknown, declineUnknown, onTurnStarted, onRequest, resolveAllPending,
     onTurnCompleted, HandlerReturns, readLoopEnds, onServerExit, ExitTells
<1>6. ASSUME NEW th \in Threads, Discard(th) PROVE UNCHANGED call
  BY <1>6 DEF Discard
<1> QED BY <1>1, <1>2, <1>3, <1>4, <1>5, <1>6, PromptForward DEF Next, Outside

-----------------------------------------------------------------------------
(* Answers under way are for objects that were opened.                     *)

RespondInv ==
  /\ respond = [o \in Owners |-> respond[o]]
  /\ \A o \in Owners : respond[o].th # None =>
       respond[o].t \in Prompts /\ respond[o].a \in Ids \X Methods /\ call[respond[o].t].pc \notin Before

LEMMA InitRespondInv == Init => RespondInv
BY DEF Init, RespondInv, NoResponse

LEMMA NextRespondInv == IInv /\ PlaceInv /\ RespondInv /\ [Next]_vars => RespondInv'
<1> SUFFICES ASSUME IInv, PlaceInv, RespondInv, [Next]_vars PROVE RespondInv'
  OBVIOUS
<1>0. \A c \in Prompts : call[c].pc \notin Before => call'[c].pc \notin Before
  BY CallsForward DEF Forward
<1>1. ASSUME NEW o \in Owners, NEW th \in Threads, NEW a \in Ids \X Methods, RespondTakes(o, th, a)
      PROVE  RespondInv'
  <2>1. PICK t \in Prompts : t = thread(th) /\ call[t].pc \notin Before
    BY <1>1 DEF RespondTakes, IInv, Typed, BackendTyped, thread, Servers, PlaceInv, OpenedInv
  <2>2. respond' = [respond EXCEPT ![o] = [th |-> th, t |-> t, a |-> a, running |-> object[t].turn # None]]
    BY <1>1, <2>1 DEF RespondTakes
  <2> QED BY <1>0, <2>1, <2>2 DEF RespondInv
<1>2. ASSUME NEW o \in Owners, Respond(o) PROVE RespondInv'
  BY <1>0, <1>2 DEF Respond, RespondInv, NoResponse
<1>3. CASE UNCHANGED respond
  BY <1>0, <1>3 DEF RespondInv
<1>4. ASSUME NEW c \in Prompts, PromptStep(c) PROVE UNCHANGED respond
  BY <1>4 DEF PromptStep, ensureServer, StartServer, Initialized, InitializeFails, StopReturns,
     StoreServer, openThread, Opened, Claim, CallFails, PromptReturns
<1>5. ASSUME NEW s \in Prompts, LoopStep(s) PROVE UNCHANGED respond
  BY <1>5 DEF LoopStep, resolve, onUnknown, declineUnknown, onTurnStarted, onRequest,
     resolveAllPending, onTurnCompleted, HandlerReturns, readLoopEnds, onServerExit, ExitTells
<1>6. CASE UNCHANGED vars
  BY <1>3, <1>6 DEF vars
<1> QED BY <1>1, <1>2, <1>3, <1>4, <1>5, <1>6 DEF Next, Arrive, ServerDies, Discard, Interrupt,
     ServerTakes, ServerCompletes, ServerAsks, ServerStep, Ids

-----------------------------------------------------------------------------
(* A process that was not stored yet: it has only been initialized, and    *)
(* nothing knows it but the prompt that starts it.                         *)

FreshProcess(p) ==
  /\ p.asked = 0 /\ p.work = {} /\ p.convs = {} /\ p.open = {}
  /\ \A m \in p.inbox : m[1] = "initialize"
  /\ OnlyAnswers(p.pipe)

FreshInv ==
  \A x \in Prompts : call[x].pc \in Fresh =>
    /\ FreshProcess(proc[x]) /\ b.server # x
    /\ \A c \in Prompts : call[c].srv = x => c = x
    /\ \A t \in Prompts : object[t].srv # x
    /\ \A i \in Ids : <<x, i>> \notin h.answered

LEMMA InitFreshInv == Init => FreshInv
BY NoneIsNoPrompt DEF Init, FreshInv, FreshProcess, NoCall, NoProcess, OnlyAnswers, newThread

FreshKept ==
  \A x \in Prompts : call[x].pc \in Fresh /\ call'[x].pc \in Fresh => FreshProcess(proc'[x])
OwnersKept ==
  /\ b'.server = None \/ b'.server = b.server \/ call'[b'.server].pc \notin Fresh
  /\ \A t \in Prompts : object'[t].srv \in {None, object[t].srv} \/ call[object'[t].srv].pc \notin Fresh
  /\ \A x \in Prompts, i \in Ids : <<x, i>> \in h'.answered => <<x, i>> \in h.answered \/ x = b.server

LEMMA FreshStays ==
  ASSUME IInv, FreshInv, FreshKept, OwnersKept, \A c \in Prompts : Forward(c)
  PROVE  FreshInv'
<1> SUFFICES ASSUME NEW x \in Prompts, call'[x].pc \in Fresh
             PROVE  /\ FreshProcess(proc'[x]) /\ b'.server # x
                    /\ \A c \in Prompts : call'[c].srv = x => c = x
                    /\ \A t \in Prompts : object'[t].srv # x
                    /\ \A i \in Ids : <<x, i>> \notin h'.answered
  BY DEF FreshInv
<1>1. call[x].pc \in Fresh
  BY DEF Forward
<1>2. FreshProcess(proc'[x]) /\ b'.server # x
  BY <1>1, NoneIsNoPrompt DEF FreshInv, FreshKept, OwnersKept
<1>3. \A c \in Prompts : call'[c].srv = x => c = x
  BY <1>1, NoneIsNoPrompt DEF FreshInv, Forward
<1>4. \A t \in Prompts : object'[t].srv # x
  BY <1>1, NoneIsNoPrompt DEF FreshInv, OwnersKept
<1>5. \A i \in Ids : <<x, i>> \notin h'.answered
  BY <1>1 DEF FreshInv, OwnersKept
<1> QED BY <1>2, <1>3, <1>4, <1>5

\* A process keeps what a fresh one has, or is not fresh.
LEMMA FreshOfParts ==
  ASSUME NEW p, NEW q, FreshProcess(p), q.asked = p.asked, q.work \subseteq p.work,
         q.convs \subseteq p.convs, q.open \subseteq p.open, q.inbox \subseteq p.inbox,
         OnlyAnswers(p.pipe) => OnlyAnswers(q.pipe)
  PROVE  FreshProcess(q)
BY DEF FreshProcess

LEMMA CountedParts ==
  ASSUME IInv, NEW s, NEW R, Counted(s, R)
  PROVE  LET mine == IF CanAnswer /\ s = b.server THEN {<<s, q[1]>> : q \in R} ELSE {}
         IN  /\ h'.answered = h.answered \cup mine /\ h'.slips = h.slips /\ h'.ended = h.ended
             /\ "twice" \in h'.wrong => "twice" \in h.wrong \/ mine \cap h.answered # {}
             /\ "form" \in h'.wrong => \/ "form" \in h.wrong
                                       \/ /\ mine # {}
                                          /\ \E q \in R : \E a \in proc[s].open : a[1] = q[1] /\ q[2] # Form(a[3])
BY DEF Counted, IInv, Typed, HistoryTyped

LEMMA CountedOwners ==
  ASSUME IInv, NEW s, NEW R, Counted(s, R)
  PROVE  \A x \in Prompts, i \in Ids : <<x, i>> \in h'.answered => <<x, i>> \in h.answered \/ x = b.server
BY CountedParts

LEMMA PromptFresh ==
  ASSUME IInv, FreshInv, NEW c \in Prompts, PromptStep(c)
  PROVE  FreshKept /\ OwnersKept
<1> USE NoneIsNoPrompt DEF IInv
<1>0. /\ object \in [Prompts -> Objects] /\ call \in [Prompts -> Calls] /\ proc \in [Prompts -> Processes]
      /\ b.server \in Servers
      /\ h = [ended |-> h.ended, slips |-> h.slips, answered |-> h.answered, wrong |-> h.wrong]
  BY DEF Typed, ObjectsTyped, CallsTyped, Calls, HasThread, BackendTyped, HistoryTyped, ProcessesTyped
<1>1. (UNCHANGED proc => FreshKept) /\ (b'.server = b.server /\ UNCHANGED <<object, h>> => OwnersKept)
  BY DEF FreshKept, FreshInv, OwnersKept
<1>2. CASE ensureServer(c) \/ Initialized(c) \/ StopReturns(c)
  BY <1>1, <1>2 DEF ensureServer, Initialized, StopReturns, Typed, BackendTyped
<1>3. CASE StartServer(c) /\ UNCHANGED <<b, proc, loop>>
  BY <1>1, <1>3 DEF StartServer
<1>4. CASE StartServer(c) /\ Dial(c)
  <2>1. /\ \A x \in Prompts \ {c} : proc'[x] = proc[x]
        /\ proc'[c] = [proc[c] EXCEPT !.alive = TRUE, !.inbox = {<<"initialize", c, None>>}]
    BY <1>0, <1>4 DEF Dial
  <2>2. /\ proc'[c].asked = proc[c].asked /\ proc'[c].work = proc[c].work
        /\ proc'[c].convs = proc[c].convs /\ proc'[c].open = proc[c].open
        /\ proc'[c].pipe = proc[c].pipe /\ proc'[c].inbox = {<<"initialize", c, None>>}
    BY <1>0, <2>1 DEF Processes
  <2>3. FreshKept
    <3>1. \A m \in proc'[c].inbox : m[1] = "initialize"
      BY <2>2
    <3>2. FreshProcess(proc[c]) => FreshProcess(proc'[c])
      BY <2>2, <3>1 DEF FreshProcess
    <3> QED BY <2>1, <3>2 DEF FreshKept, FreshInv
  <2>4. OwnersKept
    BY <1>1, <1>4 DEF StartServer, Dial, Typed, BackendTyped
  <2> QED BY <2>3, <2>4
<1>5. CASE InitializeFails(c)
  <2>1. FreshKept
    BY <1>5, KilledParts DEF InitializeFails, FreshKept, FreshInv, FreshProcess
  <2> QED BY <1>1, <1>5, <2>1 DEF InitializeFails
<1>6. CASE StoreServer(c)
  <2>1. UNCHANGED <<object, proc, h>> /\ b'.server = c /\ call'[c].pc = "open"
    BY <1>0, <1>6 DEF StoreServer, Goto, Typed, BackendTyped, Calls
  <2> QED BY <1>1, <2>1 DEF OwnersKept, Fresh
<1>7. CASE openThread(c)
  <2>1. call[c].srv \in Prompts => call[call[c].srv].pc \notin Fresh
    BY <1>7 DEF openThread, FreshInv, Fresh
  <2>2. \A x \in Prompts \ {call[c].srv} : proc'[x] = proc[x]
    BY <1>7, RequestParts DEF openThread
  <2>3. FreshKept
    BY <2>1, <2>2 DEF FreshKept, FreshInv
  <2> QED BY <1>1, <1>7, <2>3 DEF openThread
<1>8. CASE Opened(c)
  <2>1. UNCHANGED proc /\ b'.server = b.server /\ h'.answered = h.answered
    BY <1>0, <1>8 DEF Opened, Typed, BackendTyped
  <2>2. call[c].srv \in Prompts => call[call[c].srv].pc \notin Fresh
    BY <1>8 DEF Opened, FreshInv, Fresh
  <2>3. /\ object'[c].srv = call[c].srv
        /\ \A t \in Prompts \ {c} : object'[t] = object[t]
    BY <1>0, <1>8 DEF Opened, newThread
  <2>4. call[c].srv \in Prompts \cup {None}
    BY <1>0 DEF Calls, Servers
  <2> QED BY <1>1, <2>1, <2>2, <2>3, <2>4 DEF OwnersKept
<1>9. CASE Claim(c)
  <2>1. call[c].srv \in Prompts => call[call[c].srv].pc \notin Fresh
    BY <1>9 DEF Claim, FreshInv, Fresh
  <2>2. \A x \in Prompts \ {call[c].srv} : proc'[x] = proc[x]
    BY <1>9, RequestParts DEF Claim
  <2>3. FreshKept
    BY <2>1, <2>2 DEF FreshKept, FreshInv
  <2>4. UNCHANGED b /\ h'.answered = h.answered /\ \A t \in Prompts : object'[t].srv = object[t].srv
    BY <1>0, <1>9 DEF Claim, Objects
  <2> QED BY <2>3, <2>4 DEF OwnersKept
<1>10. CASE CallFails(c)
  <2>1. UNCHANGED <<b, proc>> /\ h'.answered = h.answered /\ \A t \in Prompts : object'[t].srv = object[t].srv
    BY <1>0, <1>10 DEF CallFails, Objects
  <2> QED BY <1>1, <2>1 DEF OwnersKept
<1>11. CASE PromptReturns(c)
  <2>1. UNCHANGED <<b, proc, h>> /\ \A t \in Prompts : object'[t].srv = object[t].srv
    BY <1>0, <1>11 DEF PromptReturns, setState, Objects
  <2> QED BY <1>1, <2>1 DEF OwnersKept
<1> QED BY <1>2, <1>3, <1>4, <1>5, <1>6, <1>7, <1>8, <1>9, <1>10, <1>11 DEF PromptStep, StartServer

\* Reading a line leaves a process as fresh as it was.
LEMMA RestFresh ==
  ASSUME Typed, NEW s \in Prompts, proc[s].pipe # <<>>, NEW x \in Prompts, FreshProcess(proc[x])
  PROVE  FreshProcess(Rest(s)[x])
<1>1. CASE x = s
  <2>1. OnlyAnswers(proc[s].pipe) => OnlyAnswers(Rest(s)[s].pipe)
    BY RestParts, TailAsks
  <2> QED BY <1>1, <2>1, RestParts, FreshOfParts
<1>2. CASE x # s
  BY <1>2, RestParts
<1> QED BY <1>1, <1>2

LEMMA AnswerFresh ==
  ASSUME Typed, NEW p \in [Prompts -> Processes], NEW R, AnswerAll(p, R), NEW x \in Prompts,
         FreshProcess(p[x])
  PROVE  FreshProcess(proc'[x])
BY AnswerParts, FreshOfParts

LEMMA LoopFresh ==
  ASSUME IInv, FreshInv, NEW s \in Prompts, LoopStep(s)
  PROVE  FreshKept /\ OwnersKept
<1> USE NoneIsNoPrompt DEF IInv
<1>0. /\ object \in [Prompts -> Objects]
      /\ h = [ended |-> h.ended, slips |-> h.slips, answered |-> h.answered, wrong |-> h.wrong]
      /\ \A x \in Prompts : call[x].pc \in Fresh => FreshProcess(proc[x])
  BY DEF Typed, ObjectsTyped, HistoryTyped, FreshInv
<1>2. ASSUME NEW R, AnswerAll(Rest(s), R), proc[s].pipe # <<>> PROVE FreshKept
  <2>1. Rest(s) \in [Prompts -> Processes] /\ \A x \in Prompts : FreshProcess(proc[x]) => FreshProcess(Rest(s)[x])
    BY <1>2, RestParts, RestFresh
  <2> QED BY <1>0, <1>2, <2>1, AnswerFresh DEF FreshKept
<1>3. UNCHANGED proc => FreshKept
  BY <1>0 DEF FreshKept
<1>4. b'.server \in {None, b.server} /\ h'.answered = h.answered
        /\ (\A t \in Prompts : object'[t].srv = object[t].srv)
      => OwnersKept
  BY DEF OwnersKept
<1>5. CASE resolve(s) \/ onUnknown(s)
  <2>1. proc' = Rest(s) /\ proc[s].pipe # <<>> /\ UNCHANGED <<b, object, h>>
    BY <1>5 DEF resolve, onUnknown, HasLine
  <2>2. FreshKept
    BY <1>0, <2>1, RestFresh DEF FreshKept
  <2> QED BY <1>4, <2>1, <2>2
<1>6. CASE declineUnknown(s)
  <2>1. /\ UNCHANGED <<b, object>> /\ proc[s].pipe # <<>>
        /\ \E R : AnswerAll(Rest(s), R) /\ Counted(s, R)
    BY <1>6 DEF declineUnknown, Declines, HasLine
  <2> QED BY <1>2, <2>1, CountedOwners DEF OwnersKept
<1>7. CASE onTurnStarted(s) \/ onRequest(s)
  <2>1. proc' = Rest(s) /\ proc[s].pipe # <<>> /\ UNCHANGED <<b, h>>
    BY <1>7 DEF onTurnStarted, onRequest, HasLine
  <2>2. \A t \in Prompts : object'[t].srv = object[t].srv
    BY <1>0, <1>7 DEF onTurnStarted, onRequest, Objects
  <2>3. FreshKept
    BY <1>0, <2>1, RestFresh DEF FreshKept
  <2> QED BY <1>4, <2>1, <2>2, <2>3
<1>8. CASE resolveAllPending(s)
  <2>1. /\ UNCHANGED b /\ proc[s].pipe # <<>>
        /\ \E R, x : AnswerAll(Rest(s), R) /\ Counted(x, R)
    BY <1>8 DEF resolveAllPending, HasLine
  <2>2. \A t \in Prompts : object'[t].srv = object[t].srv
    BY <1>0, <1>8 DEF resolveAllPending, Objects
  <2> QED BY <1>2, <2>1, <2>2, CountedOwners DEF OwnersKept
<1>9. CASE onTurnCompleted(s) \/ HandlerReturns(s) \/ readLoopEnds(s) \/ onServerExit(s) \/ ExitTells(s)
  <2>1. UNCHANGED proc /\ h'.answered = h.answered
    BY <1>0, <1>9 DEF onTurnCompleted, HandlerReturns, readLoopEnds, onServerExit, ExitTells, Ended
  <2>2. b'.server \in {None, b.server}
    BY <1>9 DEF onTurnCompleted, HandlerReturns, readLoopEnds, onServerExit, ExitTells, Typed, BackendTyped
  <2>3. \A t \in Prompts : object'[t].srv = object[t].srv
    BY <1>0, <1>9 DEF onTurnCompleted, HandlerReturns, readLoopEnds, onServerExit, ExitTells,
       setState, Objects
  <2> QED BY <1>3, <1>4, <2>1, <2>2, <2>3
<1> QED BY <1>5, <1>6, <1>7, <1>8, <1>9 DEF LoopStep

LEMMA OutsideFresh ==
  ASSUME IInv, FreshInv, Outside
  PROVE  FreshKept /\ OwnersKept
<1> USE NoneIsNoPrompt DEF IInv
<1>0. /\ object \in [Prompts -> Objects] /\ proc \in [Prompts -> Processes] /\ UNCHANGED b
      /\ \A x \in Prompts : call[x].pc \in Fresh => FreshProcess(proc[x])
  BY OutsideStays DEF Typed, ObjectsTyped, ProcessesTyped, FreshInv
<1>1. UNCHANGED proc => FreshKept
  BY <1>0 DEF FreshKept
<1>2. h'.answered = h.answered /\ (\A t \in Prompts : object'[t].srv = object[t].srv)
      => OwnersKept
  BY <1>0 DEF OwnersKept
<1>3. ASSUME NEW o \in Owners, Respond(o) PROVE FreshKept /\ OwnersKept
  <2>1. \A t \in Prompts : object'[t].srv = object[t].srv
    BY <1>0, <1>3 DEF Respond, setState, Objects
  <2>2. UNCHANGED proc \/ \E R : AnswerAll(proc, R)
    BY <1>3 DEF Respond
  <2>3. UNCHANGED h \/ \E x, R : Counted(x, R)
    BY <1>3 DEF Respond
  <2>4. FreshKept
    BY <1>0, <2>2, AnswerFresh DEF FreshKept
  <2> QED BY <1>0, <2>1, <2>3, <2>4, CountedOwners DEF OwnersKept
<1>4. ASSUME NEW o \in Owners, NEW th \in Threads, NEW a, RespondTakes(o, th, a)
      PROVE  FreshKept /\ OwnersKept
  BY <1>0, <1>1, <1>2, <1>4 DEF RespondTakes, Objects
<1>5. ASSUME NEW th \in Threads, Interrupt(th) PROVE FreshKept /\ OwnersKept
  BY <1>0, <1>1, <1>2, <1>5 DEF Interrupt, Objects
<1>6. ASSUME NEW s \in Prompts, ServerDies(s) PROVE FreshKept /\ OwnersKept
  <2>1. FreshKept
    BY <1>0, <1>6, KilledParts DEF ServerDies, FreshKept, FreshProcess
  <2> QED BY <1>2, <1>6, <2>1 DEF ServerDies
<1>7. ASSUME NEW s \in Prompts, NEW m \in proc[s].inbox, ServerTakes(s, m)
      PROVE  FreshKept /\ OwnersKept
  <2>1. UNCHANGED <<object, h>>
    BY <1>7 DEF ServerTakes, ServerStep
  <2>2. FreshProcess(proc[s]) => FreshProcess(proc'[s])
    <3>1. SUFFICES ASSUME FreshProcess(proc[s]) PROVE FreshProcess(proc'[s])
      OBVIOUS
    <3>2. m[1] = "initialize"
      BY <3>1 DEF FreshProcess
    <3>3. PICK lines \in Seq(Lines) : proc'[s].pipe = proc[s].pipe \o lines /\ OnlyAnswers(lines)
      BY <1>7, <3>2, ServerTakesParts
    <3>4. proc[s].pipe \in Seq(Lines)
      BY DEF Typed, ProcessesTyped, Processes
    <3>5. OnlyAnswers(proc'[s].pipe)
      BY <3>1, <3>3, <3>4, ConcatAsks DEF FreshProcess
    <3>6. /\ proc'[s].asked = proc[s].asked /\ proc'[s].work = proc[s].work
          /\ proc'[s].convs = proc[s].convs /\ proc'[s].open = proc[s].open
          /\ proc'[s].inbox \subseteq proc[s].inbox
      BY <1>7, <3>2, ServerTakesParts
    <3> QED BY <3>1, <3>5, <3>6, FreshOfParts
  <2>3. FreshKept
    BY <1>0, <1>7, <2>2, ServerTakesParts DEF FreshKept
  <2> QED BY <1>2, <2>1, <2>3
<1>8. ASSUME NEW s \in Prompts, NEW n \in Prompts, NEW method \in Methods, ServerAsks(s, n, method)
      PROVE  FreshKept /\ OwnersKept
  <2>1. ~FreshProcess(proc[s]) /\ \A x \in Prompts \ {s} : proc'[x] = proc[x]
    BY <1>8, ServerAsksParts DEF FreshProcess
  <2>2. UNCHANGED <<object, h>>
    BY <1>8 DEF ServerAsks, ServerStep
  <2> QED BY <1>0, <1>2, <2>1, <2>2 DEF FreshKept
<1>9. ASSUME NEW s \in Prompts, NEW n \in Prompts, ServerCompletes(s, n)
      PROVE  FreshKept /\ OwnersKept
  <2>1. ~FreshProcess(proc[s]) /\ \A x \in Prompts \ {s} : proc'[x] = proc[x]
    BY <1>9, ServerCompletesParts DEF FreshProcess
  <2>2. UNCHANGED <<object, h>>
    BY <1>9 DEF ServerCompletes, ServerStep
  <2> QED BY <1>0, <1>2, <2>1, <2>2 DEF FreshKept
<1>10. CASE UNCHANGED vars
  BY <1>1, <1>2, <1>10 DEF vars
<1> QED BY <1>3, <1>4, <1>5, <1>6, <1>7, <1>8, <1>9, <1>10 DEF Outside

LEMMA NextFreshInv == IInv /\ FreshInv /\ [Next]_vars => FreshInv'
<1> SUFFICES ASSUME IInv, FreshInv, [Next]_vars PROVE FreshInv'
  OBVIOUS
<1>1. ASSUME NEW c \in Prompts, NEW th \in Threads, Arrive(c, th) PROVE FreshKept /\ OwnersKept
  BY <1>1 DEF Arrive, FreshKept, FreshInv, OwnersKept
<1>2. ASSUME NEW th \in Threads, Discard(th) PROVE FreshKept /\ OwnersKept
  <2>1. UNCHANGED <<object, h>> /\ b'.server = b.server
    BY <1>2 DEF Discard, IInv, Typed, BackendTyped
  <2>2. FreshKept
    BY <1>2, DiscardParts, FreshOfParts DEF FreshKept, FreshInv, IInv
  <2> QED BY <2>1, <2>2 DEF OwnersKept
<1>3. FreshKept /\ OwnersKept
  BY <1>1, <1>2, PromptFresh, LoopFresh, OutsideFresh DEF Next, Outside
<1> QED BY <1>3, CallsForward, FreshStays

-----------------------------------------------------------------------------
(* A request of the server that is stored is in one place: not read yet,   *)
(* pending in an object of that server's, in the hands of an owner, or     *)
(* answered.  What is known of it agrees with what the server asked.       *)

Pends(s, i, t) == object[t].srv = s /\ \E a \in object[t].pending : a[1] = i
Taken(s, i, o) == respond[o].th # None /\ object[respond[o].t].srv = s /\ respond[o].a[1] = i

OnePlace(s) ==
  /\ AskedOnce(proc[s].pipe)
  /\ \A i \in Ids : Asks(proc[s].pipe, i) =>
       /\ i <= proc[s].asked /\ <<s, i>> \notin h.answered
       /\ \A t \in Prompts : ~Pends(s, i, t)
       /\ \A o \in Owners : ~Taken(s, i, o)
  /\ \A i \in Ids, t \in Prompts : Pends(s, i, t) =>
       /\ i <= proc[s].asked /\ <<s, i>> \notin h.answered
       /\ \A u \in Prompts : Pends(s, i, u) => u = t
       /\ \A o \in Owners : ~Taken(s, i, o)
  /\ \A t \in Prompts : object[t].srv = s =>
       \A a, c \in object[t].pending : a[1] = c[1] => a = c
  /\ \A i \in Ids, o \in Owners : Taken(s, i, o) =>
       /\ i <= proc[s].asked /\ <<s, i>> \notin h.answered
       /\ \A p \in Owners : Taken(s, i, p) => p = o
  /\ \A i \in Ids : <<s, i>> \in h.answered => i <= proc[s].asked

Agrees(s) ==
  \A a \in proc[s].open :
    /\ a[1] <= proc[s].asked /\ AskedAs(proc[s].pipe, a[1], a[3])
    /\ \A t \in Prompts : object[t].srv = s => \A p \in object[t].pending : p[1] = a[1] => p[2] = a[3]
    /\ \A o \in Owners : Taken(s, a[1], o) => respond[o].a[2] = a[3]

AskInv ==
  Late \/ /\ \A s \in Prompts : s = b.server => OnePlace(s) /\ Agrees(s)
          /\ "twice" \notin h.wrong /\ "form" \notin h.wrong

LEMMA InitAskInv == Init => AskInv
BY NoneIsNoPrompt DEF Init, AskInv

\* Requests leave their places, some of them answered.
LEMMA PlacesLeft ==
  ASSUME IInv, RespondInv, NEW s \in Prompts, OnePlace(s), Agrees(s),
         Calm(proc[s].pipe, proc'[s].pipe), proc'[s].asked = proc[s].asked,
         proc'[s].open \subseteq proc[s].open,
         \A t \in Prompts : \/ object'[t].pending = {}
                            \/ /\ object'[t].srv = object[t].srv
                               /\ object'[t].pending \subseteq object[t].pending,
         \A o \in Owners : \/ respond'[o].th = None
                           \/ /\ respond'[o] = respond[o]
                              /\ object'[respond[o].t].srv = object[respond[o].t].srv,
         \A i \in Ids : <<s, i>> \in h'.answered =>
           \/ <<s, i>> \in h.answered
           \/ /\ i <= proc[s].asked /\ ~Asks(proc'[s].pipe, i)
              /\ \A t \in Prompts : ~Pends(s, i, t)'
              /\ \A o \in Owners : ~Taken(s, i, o)'
  PROVE  OnePlace(s)' /\ Agrees(s)'
<1>1. \A i, t : t \in Prompts /\ Pends(s, i, t)' => Pends(s, i, t)
  BY DEF Pends
<1>2. \A i, o : o \in Owners /\ Taken(s, i, o)' => Taken(s, i, o)
  BY DEF Taken
<1>3. /\ AskedOnce(proc[s].pipe) => AskedOnce(proc'[s].pipe)
      /\ \A i : Asks(proc'[s].pipe, i) => Asks(proc[s].pipe, i)
      /\ \A i, m : AskedAs(proc[s].pipe, i, m) => AskedAs(proc'[s].pipe, i, m)
  BY DEF Calm
<1>4. \A t \in Prompts : object'[t].srv = s =>
        object'[t].pending = {} \/ (object[t].srv = s /\ object'[t].pending \subseteq object[t].pending)
  OBVIOUS
<1>5. OnePlace(s)'
  <2>1. AskedOnce(proc'[s].pipe)
    BY <1>3 DEF OnePlace
  <2>2. \A i \in Ids : Asks(proc'[s].pipe, i) =>
          /\ i <= proc'[s].asked /\ <<s, i>> \notin h'.answered
          /\ \A t \in Prompts : ~Pends(s, i, t)'
          /\ \A o \in Owners : ~Taken(s, i, o)'
    BY <1>1, <1>2, <1>3 DEF OnePlace
  <2>3. \A i \in Ids, t \in Prompts : Pends(s, i, t)' =>
          /\ i <= proc'[s].asked /\ <<s, i>> \notin h'.answered
          /\ \A u \in Prompts : Pends(s, i, u)' => u = t
          /\ \A o \in Owners : ~Taken(s, i, o)'
    BY <1>1, <1>2 DEF OnePlace
  <2>4. \A t \in Prompts : object'[t].srv = s =>
          \A a, c \in object'[t].pending : a[1] = c[1] => a = c
    BY <1>4 DEF OnePlace
  <2>5. \A i \in Ids, o \in Owners : Taken(s, i, o)' =>
          /\ i <= proc'[s].asked /\ <<s, i>> \notin h'.answered
          /\ \A p \in Owners : Taken(s, i, p)' => p = o
    BY <1>2 DEF OnePlace
  <2>6. \A i \in Ids : <<s, i>> \in h'.answered => i <= proc'[s].asked
    BY DEF OnePlace
  <2> QED BY <2>1, <2>2, <2>3, <2>4, <2>5, <2>6 DEF OnePlace
<1>6. Agrees(s)'
  <2>1. SUFFICES ASSUME NEW a \in proc'[s].open
                 PROVE  /\ a[1] <= proc'[s].asked /\ AskedAs(proc'[s].pipe, a[1], a[3])
                        /\ \A t \in Prompts : object'[t].srv = s =>
                             \A p \in object'[t].pending : p[1] = a[1] => p[2] = a[3]
                        /\ \A o \in Owners : Taken(s, a[1], o)' => respond'[o].a[2] = a[3]
    BY DEF Agrees
  <2>2. a \in proc[s].open
    OBVIOUS
  <2>3. a[1] <= proc'[s].asked /\ AskedAs(proc'[s].pipe, a[1], a[3])
    BY <1>3, <2>2 DEF Agrees
  <2>4. \A t \in Prompts : object'[t].srv = s =>
          \A p \in object'[t].pending : p[1] = a[1] => p[2] = a[3]
    BY <1>4, <2>2 DEF Agrees
  <2>5. \A o \in Owners : Taken(s, a[1], o)' => respond'[o].a[2] = a[3]
    BY <1>2, <2>2 DEF Agrees, Taken
  <2> QED BY <2>3, <2>4, <2>5
<1> QED BY <1>5, <1>6

\* Who speaks of turns and requests is the server that is stored.
LEMMA SpeakerIsServer ==
  ASSUME IInv, PlaceInv, FreshInv, ~Late, NEW s \in Prompts, loop[s].at = "read",
         proc[s].pipe # <<>>, Line(s)[1] # "answer"
  PROVE  s = b.server
<1>1. s \in {b.server, b.starting}
  BY DEF PlaceInv, LoopInv
<1>2. CASE s = b.starting
  <2>1. OnlyAnswers(proc[s].pipe)
    BY <1>2 DEF IInv, ServerInv, StartInv, Starting, FreshInv, FreshProcess, Fresh
  <2>2. proc[s].pipe \in Seq(Lines)
    BY DEF IInv, Typed, ProcessesTyped, Processes
  <2>3. 1 \in DOMAIN proc[s].pipe /\ Line(s) = proc[s].pipe[1]
    BY <2>2 DEF Line
  <2> QED BY <2>1, <2>3 DEF OnlyAnswers
<1> QED BY <1>1, <1>2

\* A server that is stored has asked for nothing yet.
LEMMA FreshPlaces ==
  ASSUME IInv, RespondInv, FreshInv, NEW s \in Prompts, call[s].pc \in Fresh
  PROVE  OnePlace(s) /\ Agrees(s)
<1>1. /\ proc[s].open = {} /\ OnlyAnswers(proc[s].pipe)
      /\ \A t \in Prompts : object[t].srv # s
      /\ \A i \in Ids : <<s, i>> \notin h.answered
  BY DEF FreshInv, FreshProcess
<1>2. \A i : ~Asks(proc[s].pipe, i)
  BY <1>1 DEF OnlyAnswers, Asks
<1>3. AskedOnce(proc[s].pipe)
  BY <1>1 DEF OnlyAnswers, AskedOnce
<1>4. \A i, t : t \in Prompts => ~Pends(s, i, t)
  BY <1>1 DEF Pends
<1>5. \A i, o : o \in Owners => ~Taken(s, i, o)
  BY <1>1 DEF Taken, RespondInv
<1> QED BY <1>1, <1>2, <1>3, <1>4, <1>5 DEF OnePlace, Agrees

\* What most steps do to the places: nothing, or some are left.
AskedLess(x) ==
  /\ Calm(proc[x].pipe, proc'[x].pipe) /\ proc'[x].asked = proc[x].asked
  /\ proc'[x].open \subseteq proc[x].open
PendsLess(t) ==
  \/ object'[t].pending = {} /\ call[t].pc \in Before
  \/ object'[t].srv = object[t].srv /\ object'[t].pending \subseteq object[t].pending
TakenLess(o) == respond'[o].th = None \/ respond'[o] = respond[o]
PlacesLess ==
  /\ \A x \in Prompts : AskedLess(x)
  /\ \A t \in Prompts : PendsLess(t)
  /\ \A o \in Owners : TakenLess(o)
  /\ b'.server \in {None, b.server} /\ SlipsStay

WrongStays == \A kind \in {"twice", "form"} : kind \in h'.wrong => kind \in h.wrong

LEMMA PlacesShrink ==
  ASSUME IInv, RespondInv, PlacesLess, NEW s \in Prompts, OnePlace(s), Agrees(s),
         \A i \in Ids : <<s, i>> \in h'.answered =>
           \/ <<s, i>> \in h.answered
           \/ /\ i <= proc[s].asked /\ ~Asks(proc'[s].pipe, i)
              /\ \A t \in Prompts : ~Pends(s, i, t)'
              /\ \A o \in Owners : ~Taken(s, i, o)'
  PROVE  OnePlace(s)' /\ Agrees(s)'
<1>1. \A t \in Prompts : \/ object'[t].pending = {}
                         \/ /\ object'[t].srv = object[t].srv
                            /\ object'[t].pending \subseteq object[t].pending
  BY DEF PlacesLess, PendsLess
<1>2. \A o \in Owners : \/ respond'[o].th = None
                        \/ /\ respond'[o] = respond[o]
                           /\ object'[respond[o].t].srv = object[respond[o].t].srv
  BY DEF PlacesLess, PendsLess, TakenLess, RespondInv
<1>3. AskedLess(s)
  BY DEF PlacesLess
<1> QED BY <1>1, <1>2, <1>3, PlacesLeft DEF AskedLess

LEMMA AskStays ==
  ASSUME IInv, RespondInv, AskInv, PlacesLess, h'.answered = h.answered, WrongStays
  PROVE  AskInv'
<1>1. SUFFICES ASSUME ~Late' PROVE AskInv'
  BY DEF AskInv
<1>2. ~Late
  BY <1>1 DEF Late, PlacesLess, SlipsStay
<1>3. ASSUME NEW s \in Prompts, s = b'.server PROVE OnePlace(s)' /\ Agrees(s)'
  <2>1. s = b.server
    BY <1>3, NoneIsNoPrompt DEF PlacesLess
  <2> QED BY <1>2, <2>1, PlacesShrink DEF AskInv
<1> QED BY <1>2, <1>3 DEF AskInv, WrongStays

LEMMA AskedSame ==
  ASSUME NEW x \in Prompts, proc'[x].pipe = proc[x].pipe, proc'[x].asked = proc[x].asked,
         proc'[x].open \subseteq proc[x].open
  PROVE  AskedLess(x)
BY CalmSame DEF AskedLess

LEMMA PromptAsks ==
  ASSUME IInv, RespondInv, AskInv, FreshInv, NEW c \in Prompts, PromptStep(c)
  PROVE  AskInv'
<1> USE NoneIsNoPrompt DEF IInv, WrongStays
<1>0. /\ object \in [Prompts -> Objects] /\ call \in [Prompts -> Calls] /\ proc \in [Prompts -> Processes]
      /\ b.server \in Servers
      /\ h = [ended |-> h.ended, slips |-> h.slips, answered |-> h.answered, wrong |-> h.wrong]
  BY DEF Typed, ObjectsTyped, CallsTyped, Calls, HasThread, BackendTyped, HistoryTyped, ProcessesTyped
<1>1. SUFFICES ASSUME ~StoreServer(c)
               PROVE  PlacesLess /\ h'.answered = h.answered /\ WrongStays
  <2>1. CASE StoreServer(c)
    <3>1. UNCHANGED <<object, proc, h, respond>> /\ b'.server = c /\ call[c].pc \in Fresh
      BY <1>0, <2>1 DEF StoreServer, Typed, BackendTyped, Fresh
    <3>2. OnePlace(c) /\ Agrees(c)
      BY <3>1, FreshPlaces
    <3>3. OnePlace(c)' /\ Agrees(c)'
      BY <3>1, <3>2 DEF OnePlace, Agrees, Pends, Taken
    <3> QED BY <3>1, <3>3 DEF AskInv, Late
  <2> QED BY <2>1, AskStays
<1>2. UNCHANGED respond /\ \A o \in Owners : TakenLess(o)
  BY DEF PromptStep, ensureServer, StartServer, Initialized, InitializeFails, StopReturns,
     StoreServer, openThread, Opened, Claim, CallFails, PromptReturns, TakenLess
<1>3. (UNCHANGED proc => \A x \in Prompts : AskedLess(x)) /\ (UNCHANGED object => \A t \in Prompts : PendsLess(t))
  BY AskedSame DEF PendsLess
<1>4. CASE ensureServer(c) \/ Initialized(c) \/ StopReturns(c)
  BY <1>2, <1>3, <1>4 DEF ensureServer, Initialized, StopReturns, Typed, BackendTyped, PlacesLess, SlipsStay
<1>5. CASE StartServer(c) /\ UNCHANGED <<b, proc, loop>>
  BY <1>2, <1>3, <1>5 DEF StartServer, PlacesLess, SlipsStay
<1>6. CASE StartServer(c) /\ Dial(c)
  <2>1. /\ \A x \in Prompts \ {c} : proc'[x] = proc[x]
        /\ proc'[c] = [proc[c] EXCEPT !.alive = TRUE, !.inbox = {<<"initialize", c, None>>}]
    BY <1>0, <1>6 DEF Dial
  <2>2. /\ proc'[c].asked = proc[c].asked /\ proc'[c].open = proc[c].open
        /\ proc'[c].pipe = proc[c].pipe
    BY <1>0, <2>1 DEF Processes
  <2>3. \A x \in Prompts : AskedLess(x)
    BY <2>1, <2>2, AskedSame
  <2>4. b'.server = b.server /\ UNCHANGED <<object, h>>
    BY <1>0, <1>6 DEF Dial, StartServer, Typed, BackendTyped
  <2> QED BY <1>2, <1>3, <2>3, <2>4 DEF PlacesLess, SlipsStay
<1>7. CASE InitializeFails(c)
  <2>1. \A x \in Prompts : AskedLess(x)
    BY <1>7, KilledParts, AskedSame DEF InitializeFails
  <2> QED BY <1>2, <1>3, <1>7, <2>1 DEF InitializeFails, PlacesLess, SlipsStay
<1>8. CASE openThread(c)
  <2>1. \A x \in Prompts : AskedLess(x)
    BY <1>3, <1>8, RequestParts, AskedSame DEF openThread
  <2> QED BY <1>2, <1>3, <1>8, <2>1 DEF openThread, PlacesLess, SlipsStay
<1>9. CASE Opened(c)
  <2>1. UNCHANGED proc /\ b'.server = b.server /\ h'.answered = h.answered /\ h'.wrong = h.wrong /\ SlipsStay
    BY <1>0, <1>9 DEF Opened, Typed, BackendTyped, SlipsStay
  <2>2. /\ object'[c].pending = {} /\ call[c].pc \in Before
        /\ \A t \in Prompts \ {c} : object'[t] = object[t]
    BY <1>0, <1>9 DEF Opened, newThread, Before
  <2> QED BY <1>2, <1>3, <2>1, <2>2 DEF PlacesLess, PendsLess
<1>10. CASE Claim(c)
  <2>1. \A x \in Prompts : AskedLess(x)
    BY <1>3, <1>10, RequestParts, AskedSame DEF Claim
  <2>2. \A t \in Prompts : PendsLess(t)
    BY <1>0, <1>10 DEF Claim, Objects, PendsLess
  <2>3. UNCHANGED b /\ h'.answered = h.answered /\ h'.wrong = h.wrong /\ SlipsStay
    BY <1>0, <1>10 DEF Claim, SlipsStay
  <2> QED BY <1>2, <2>1, <2>2, <2>3 DEF PlacesLess
<1>11. CASE CallFails(c) \/ PromptReturns(c)
  <2>1. UNCHANGED <<b, proc>> /\ h'.answered = h.answered /\ h'.wrong = h.wrong /\ SlipsStay
    BY <1>0, <1>11 DEF CallFails, PromptReturns, SlipsStay
  <2>2. \A t \in Prompts : PendsLess(t)
    BY <1>0, <1>11 DEF CallFails, PromptReturns, setState, Objects, PendsLess
  <2> QED BY <1>2, <1>3, <2>1, <2>2 DEF PlacesLess
<1> QED BY <1>1, <1>4, <1>5, <1>6, <1>7, <1>8, <1>9, <1>10, <1>11 DEF PromptStep, StartServer

\* Requests are answered, each from the place it was in, in its form.
LEMMA AnswersKept ==
  ASSUME IInv, RespondInv, AskInv, PlacesLess, b'.server = b.server, NEW x, NEW R, Counted(x, R),
         ~Late /\ CanAnswer /\ x = b.server => \A q \in R :
           /\ q[1] <= proc[x].asked /\ <<x, q[1]>> \notin h.answered
           /\ ~Asks(proc'[x].pipe, q[1])
           /\ \A t \in Prompts : ~Pends(x, q[1], t)'
           /\ \A o \in Owners : ~Taken(x, q[1], o)'
           /\ \A a \in proc[x].open : a[1] = q[1] => q[2] = Form(a[3])
  PROVE  AskInv'
<1> DEFINE mine == IF CanAnswer /\ x = b.server THEN {<<x, q[1]>> : q \in R} ELSE {}
<1>1. SUFFICES ASSUME ~Late' PROVE AskInv'
  BY DEF AskInv
<1>2. ~Late
  BY <1>1 DEF Late, PlacesLess, SlipsStay
<1>3. /\ h'.answered = h.answered \cup mine
      /\ "twice" \in h'.wrong => "twice" \in h.wrong \/ mine \cap h.answered # {}
      /\ "form" \in h'.wrong => \/ "form" \in h.wrong
                                \/ /\ mine # {}
                                   /\ \E q \in R : \E a \in proc[x].open : a[1] = q[1] /\ q[2] # Form(a[3])
  BY CountedParts
<1>4. "twice" \notin h'.wrong
  BY <1>2, <1>3 DEF AskInv
<1>5. "form" \notin h'.wrong
  BY <1>2, <1>3 DEF AskInv
<1>6. ASSUME NEW s \in Prompts, s = b.server PROVE OnePlace(s)' /\ Agrees(s)'
  <2>1. \A i \in Ids : <<s, i>> \in h'.answered =>
          \/ <<s, i>> \in h.answered
          \/ /\ i <= proc[s].asked /\ ~Asks(proc'[s].pipe, i)
             /\ \A t \in Prompts : ~Pends(s, i, t)'
             /\ \A o \in Owners : ~Taken(s, i, o)'
    <3>1. SUFFICES ASSUME NEW i \in Ids, <<s, i>> \in mine
                   PROVE  /\ i <= proc[s].asked /\ ~Asks(proc'[s].pipe, i)
                          /\ \A t \in Prompts : ~Pends(s, i, t)'
                          /\ \A o \in Owners : ~Taken(s, i, o)'
      BY <1>3
    <3>2. x = s /\ CanAnswer /\ \E q \in R : q[1] = i
      BY <1>6, <3>1
    <3> QED BY <1>2, <1>6, <3>2
  <2>2. OnePlace(s) /\ Agrees(s)
    BY <1>2, <1>6 DEF AskInv
  <2> HIDE DEF mine
  <2> QED BY <2>1, <2>2, PlacesShrink
<1> QED BY <1>4, <1>5, <1>6 DEF AskInv

LEMMA onRequestAsks ==
  ASSUME IInv, PlaceInv, FreshInv, RespondInv, AskInv, NEW s \in Prompts, onRequest(s)
  PROVE  AskInv'
<1> USE NoneIsNoPrompt DEF IInv
<1>1. SUFFICES ASSUME ~Late PROVE AskInv'
  BY DEF AskInv, Late, onRequest
<1>a. Line(s)[2] \in Prompts
  BY LineParts DEF onRequest, HasLine
<1>2. PICK t \in Prompts : t = Object(s)
  BY <1>a DEF onRequest, Declines, IsKnown, Object, Owner, thread, Typed, BackendTyped, Servers
<1>3. PICK id, m : id = Line(s)[3] /\ m = Line(s)[4]
  OBVIOUS
<1> DEFINE pipe == proc[s].pipe
           pending == object[t].pending
<1>4. /\ proc' = Rest(s) /\ UNCHANGED <<b, respond, h>> /\ pipe # <<>> /\ Line(s)[1] = "request"
      /\ loop[s].at = "read" /\ object' = [object EXCEPT ![t].pending = pending \cup {<<id, m>>}]
  BY <1>2, <1>3 DEF onRequest, HasLine
<1>5. s = b.server
  BY <1>1, <1>4, SpeakerIsServer
<1>6. OnePlace(s) /\ Agrees(s) /\ "twice" \notin h.wrong /\ "form" \notin h.wrong
  BY <1>1, <1>5 DEF AskInv
<1>7. /\ pipe \in Seq(Lines) /\ proc'[s].pipe = Tail(pipe)
      /\ proc'[s].asked = proc[s].asked /\ proc'[s].open = proc[s].open
  BY <1>4, RestParts
<1>8. Head(pipe) = Line(s) /\ Head(pipe) \in Lines
  BY <1>4, <1>7 DEF Line
<1>9. id \in Ids
  BY <1>3, <1>4, <1>8 DEF Lines
<1>10. /\ AskedOnce(Tail(pipe)) /\ Asks(pipe, id) /\ ~Asks(Tail(pipe), id)
       /\ \A i : Asks(Tail(pipe), i) => Asks(pipe, i)
       /\ \A i, k : AskedAs(pipe, i, k) => AskedAs(Tail(pipe), i, k)
  BY <1>3, <1>4, <1>6, <1>7, <1>8, TailAsks DEF OnePlace, Calm
<1>11. \A k : AskedAs(pipe, id, k) => m = k
  <2>1. 1 \in DOMAIN pipe /\ pipe[1] = Line(s)
    BY <1>4, <1>7 DEF Line
  <2> QED BY <1>3, <1>4, <2>1 DEF AskedAs
<1>12. /\ \A u \in Prompts \ {t} : object'[u] = object[u]
       /\ object'[t].srv = object[t].srv /\ object'[t].pending = pending \cup {<<id, m>>}
  BY <1>4 DEF Typed, ObjectsTyped, Objects
<1> HIDE DEF pipe, pending
<1>13. \A i, u : u \in Prompts /\ Pends(s, i, u)' => Pends(s, i, u) \/ (i = id /\ u = t)
  BY <1>12 DEF Pends, pending
<1>14. \A i, o : o \in Owners /\ Taken(s, i, o)' => Taken(s, i, o)
  BY <1>4, <1>12 DEF Taken, RespondInv
<1>15. /\ id <= proc[s].asked /\ <<s, id>> \notin h.answered
       /\ \A u \in Prompts : ~Pends(s, id, u)
       /\ \A o \in Owners : ~Taken(s, id, o)
  BY <1>6, <1>9, <1>10 DEF OnePlace, pipe
<1>16. OnePlace(s)'
  <2>1. AskedOnce(proc'[s].pipe)
    BY <1>7, <1>10
  <2>2. \A i \in Ids : Asks(proc'[s].pipe, i) =>
          /\ i <= proc'[s].asked /\ <<s, i>> \notin h'.answered
          /\ \A u \in Prompts : ~Pends(s, i, u)'
          /\ \A o \in Owners : ~Taken(s, i, o)'
    BY <1>4, <1>6, <1>7, <1>10, <1>13, <1>14 DEF OnePlace, pipe
  <2>3. \A i \in Ids, u \in Prompts : Pends(s, i, u)' =>
          /\ i <= proc'[s].asked /\ <<s, i>> \notin h'.answered
          /\ \A v \in Prompts : Pends(s, i, v)' => v = u
          /\ \A o \in Owners : ~Taken(s, i, o)'
    <3>1. SUFFICES ASSUME NEW i \in Ids, NEW u \in Prompts, Pends(s, i, u)'
                   PROVE  /\ i <= proc[s].asked /\ <<s, i>> \notin h.answered
                          /\ \A v \in Prompts : Pends(s, i, v)' => v = u
                          /\ \A o \in Owners : ~Taken(s, i, o)'
      BY <1>4, <1>7
    <3>2. CASE i = id
      BY <1>13, <1>14, <1>15, <3>1, <3>2
    <3>3. CASE i # id
      BY <1>6, <1>13, <1>14, <3>1, <3>3 DEF OnePlace
    <3> QED BY <3>2, <3>3
  <2>4. \A u \in Prompts : object'[u].srv = s =>
          \A a, c \in object'[u].pending : a[1] = c[1] => a = c
    <3>1. CASE object[t].srv = s
      <4>1. \A a \in pending : a[1] # id
        BY <1>15, <3>1 DEF Pends, pending
      <4>2. \A a, c \in pending \cup {<<id, m>>} : a[1] = c[1] => a = c
        BY <1>6, <3>1, <4>1 DEF OnePlace, pending
      <4> QED BY <1>6, <1>12, <4>2 DEF OnePlace
    <3>2. CASE object[t].srv # s
      BY <1>6, <1>12, <3>2 DEF OnePlace
    <3> QED BY <3>1, <3>2
  <2>5. \A i \in Ids, o \in Owners : Taken(s, i, o)' =>
          /\ i <= proc'[s].asked /\ <<s, i>> \notin h'.answered
          /\ \A p \in Owners : Taken(s, i, p)' => p = o
    BY <1>4, <1>6, <1>7, <1>14 DEF OnePlace
  <2>6. \A i \in Ids : <<s, i>> \in h'.answered => i <= proc'[s].asked
    BY <1>4, <1>6, <1>7 DEF OnePlace
  <2> QED BY <2>1, <2>2, <2>3, <2>4, <2>5, <2>6 DEF OnePlace
<1>17. Agrees(s)'
  <2>1. SUFFICES ASSUME NEW a \in proc[s].open
                 PROVE  /\ a[1] <= proc[s].asked /\ AskedAs(proc'[s].pipe, a[1], a[3])
                        /\ \A u \in Prompts : object'[u].srv = s =>
                             \A p \in object'[u].pending : p[1] = a[1] => p[2] = a[3]
                        /\ \A o \in Owners : Taken(s, a[1], o)' => respond'[o].a[2] = a[3]
    BY <1>7 DEF Agrees
  <2>2. a[1] <= proc[s].asked /\ AskedAs(pipe, a[1], a[3])
    BY <1>6 DEF Agrees, pipe
  <2>3. AskedAs(proc'[s].pipe, a[1], a[3])
    BY <1>7, <1>10, <2>2
  <2>4. \A u \in Prompts : object'[u].srv = s =>
          \A p \in object'[u].pending : p[1] = a[1] => p[2] = a[3]
    <3>1. SUFFICES ASSUME NEW u \in Prompts, object'[u].srv = s, NEW p \in object'[u].pending, p[1] = a[1]
                   PROVE  p[2] = a[3]
      OBVIOUS
    <3>2. CASE object[u].srv = s /\ p \in object[u].pending
      BY <1>6, <3>1, <3>2 DEF Agrees
    <3>3. CASE p = <<id, m>>
      BY <1>11, <2>2, <3>1, <3>3
    <3> QED BY <1>12, <3>1, <3>2, <3>3 DEF pending
  <2>5. \A o \in Owners : Taken(s, a[1], o)' => respond'[o].a[2] = a[3]
    BY <1>4, <1>6, <1>14 DEF Agrees
  <2> QED BY <2>2, <2>3, <2>4, <2>5
<1> QED BY <1>4, <1>5, <1>6, <1>16, <1>17 DEF AskInv

LEMMA RespondTakesAsks ==
  ASSUME IInv, PlaceInv, RespondInv, AskInv, NEW o \in Owners, NEW th \in Threads,
         NEW a \in Ids \X Methods, RespondTakes(o, th, a)
  PROVE  AskInv'
<1> USE NoneIsNoPrompt DEF IInv
<1>1. SUFFICES ASSUME ~Late, NEW s \in Prompts, s = b.server PROVE OnePlace(s)' /\ Agrees(s)'
  BY DEF AskInv, Late, RespondTakes
<1>2. PICK t \in Prompts : t = thread(th)
  BY DEF RespondTakes, Typed, BackendTyped, thread, Servers
<1>3. /\ respond[o].th = None /\ a \in object[t].pending
      /\ object' = [object EXCEPT ![t].pending = object[t].pending \ {a}]
      /\ respond' = [respond EXCEPT ![o] = [th |-> th, t |-> t, a |-> a, running |-> object[t].turn # None]]
      /\ UNCHANGED <<b, proc, h>>
  BY <1>2 DEF RespondTakes
<1>4. OnePlace(s) /\ Agrees(s)
  BY <1>1 DEF AskInv
<1>5. /\ \A u \in Prompts \ {t} : object'[u] = object[u]
      /\ object'[t].srv = object[t].srv /\ object'[t].pending = object[t].pending \ {a}
      /\ \A u \in Prompts : object'[u].srv = object[u].srv
  BY <1>3 DEF Typed, ObjectsTyped, Objects
<1>6. /\ \A p \in Owners \ {o} : respond'[p] = respond[p]
      /\ respond'[o].th = th /\ respond'[o].t = t /\ respond'[o].a = a
  BY <1>3 DEF RespondInv
<1>7. \A i, u : u \in Prompts /\ Pends(s, i, u)' => Pends(s, i, u)
  BY <1>5 DEF Pends
<1>8. \A i, p : p \in Owners /\ Taken(s, i, p)' =>
        \/ p # o /\ Taken(s, i, p)
        \/ p = o /\ Pends(s, i, t) /\ i = a[1]
  BY <1>3, <1>5, <1>6 DEF Taken, Pends, RespondInv
<1>9. Pends(s, a[1], t) => ~Pends(s, a[1], t)'
  BY <1>3, <1>4, <1>5 DEF Pends, OnePlace
<1>10. OnePlace(s)'
  <2>2. \A i \in Ids : Asks(proc'[s].pipe, i) =>
          /\ i <= proc'[s].asked /\ <<s, i>> \notin h'.answered
          /\ \A u \in Prompts : ~Pends(s, i, u)'
          /\ \A p \in Owners : ~Taken(s, i, p)'
    BY <1>3, <1>4, <1>7, <1>8 DEF OnePlace
  <2>3. \A i \in Ids, u \in Prompts : Pends(s, i, u)' =>
          /\ i <= proc'[s].asked /\ <<s, i>> \notin h'.answered
          /\ \A v \in Prompts : Pends(s, i, v)' => v = u
          /\ \A p \in Owners : ~Taken(s, i, p)'
    <3>1. SUFFICES ASSUME NEW i \in Ids, NEW u \in Prompts, Pends(s, i, u)'
                   PROVE  /\ i <= proc[s].asked /\ <<s, i>> \notin h.answered
                          /\ \A v \in Prompts : Pends(s, i, v)' => v = u
                          /\ \A p \in Owners : ~Taken(s, i, p)'
      BY <1>3
    <3>2. /\ i <= proc[s].asked /\ <<s, i>> \notin h.answered
          /\ \A v \in Prompts : Pends(s, i, v) => v = u
          /\ \A p \in Owners : ~Taken(s, i, p)
      BY <1>4, <1>7, <3>1 DEF OnePlace
    <3>3. \A p \in Owners : ~Taken(s, i, p)'
      BY <1>8, <1>9, <3>1, <3>2
    <3> QED BY <1>7, <3>2, <3>3
  <2>4. \A u \in Prompts : object'[u].srv = s =>
          \A x, y \in object'[u].pending : x[1] = y[1] => x = y
    BY <1>4, <1>5 DEF OnePlace
  <2>5. \A i \in Ids, p \in Owners : Taken(s, i, p)' =>
          /\ i <= proc'[s].asked /\ <<s, i>> \notin h'.answered
          /\ \A q \in Owners : Taken(s, i, q)' => q = p
    BY <1>3, <1>4, <1>8 DEF OnePlace
  <2>6. AskedOnce(proc'[s].pipe) /\ \A i \in Ids : <<s, i>> \in h'.answered => i <= proc'[s].asked
    BY <1>3, <1>4 DEF OnePlace
  <2> QED BY <2>2, <2>3, <2>4, <2>5, <2>6 DEF OnePlace
<1>11. Agrees(s)'
  <2>1. SUFFICES ASSUME NEW c \in proc[s].open
                 PROVE  /\ \A u \in Prompts : object'[u].srv = s =>
                             \A p \in object'[u].pending : p[1] = c[1] => p[2] = c[3]
                        /\ \A p \in Owners : Taken(s, c[1], p)' => respond'[p].a[2] = c[3]
    BY <1>3, <1>4 DEF Agrees
  <2>2. \A u \in Prompts : object'[u].srv = s =>
          \A p \in object'[u].pending : p[1] = c[1] => p[2] = c[3]
    BY <1>4, <1>5 DEF Agrees
  <2>3. \A p \in Owners : Taken(s, c[1], p)' => respond'[p].a[2] = c[3]
    <3>1. SUFFICES ASSUME NEW p \in Owners, Taken(s, c[1], p)' PROVE respond'[p].a[2] = c[3]
      OBVIOUS
    <3>2. CASE p # o /\ Taken(s, c[1], p)
      BY <1>4, <1>6, <3>2 DEF Agrees
    <3>3. CASE p = o /\ Pends(s, c[1], t) /\ c[1] = a[1]
      BY <1>3, <1>4, <1>6, <3>3 DEF Agrees, Pends
    <3> QED BY <1>8, <3>1, <3>2, <3>3
  <2> QED BY <2>2, <2>3
<1> QED BY <1>10, <1>11

LEMMA ServerAsksAsks ==
  ASSUME IInv, RespondInv, AskInv, NEW x \in Prompts, NEW n \in Prompts, NEW method \in Methods,
         ServerAsks(x, n, method)
  PROVE  AskInv'
<1> USE DEF IInv
<1>1. UNCHANGED <<b, object, respond, h>>
  BY DEF ServerAsks, ServerStep
<1>2. SUFFICES ASSUME ~Late, NEW s \in Prompts, s = b.server PROVE OnePlace(s)' /\ Agrees(s)'
  BY <1>1 DEF AskInv, Late
<1>3. OnePlace(s) /\ Agrees(s)
  BY <1>2 DEF AskInv
<1>4. (\A i, u : Pends(s, i, u)' <=> Pends(s, i, u)) /\ (\A i, o : Taken(s, i, o)' <=> Taken(s, i, o))
  BY <1>1 DEF Pends, Taken
<1>5. CASE x # s
  <2>1. proc'[s] = proc[s]
    BY <1>5, ServerAsksParts
  <2> QED BY <1>1, <1>3, <1>4, <2>1 DEF OnePlace, Agrees
<1>6. CASE x = s
  <2>1. PICK id \in Ids : id = proc[s].asked + 1
    BY <1>6, ServerAsksParts
  <2>2. /\ proc[s].asked \in Nat /\ proc[s].pipe \in Seq(Lines)
    BY DEF Typed, ProcessesTyped, Processes
  <2>3. /\ proc'[s].asked = id /\ proc'[s].open = proc[s].open \cup {<<id, n, method>>}
        /\ proc'[s].pipe = proc[s].pipe \o <<<<"request", n, id, method>>>>
    BY <1>6, <2>1, ServerAsksParts
  <2>4. \A i \in Ids : i <= proc[s].asked => i # id /\ i <= id
    BY <2>1, <2>2, CodexAssumption DEF Ids
  <2>5. ~(id <= proc[s].asked) /\ id <= id
    BY <2>1, <2>2
  <2>6. /\ ~Asks(proc[s].pipe, id) /\ <<s, id>> \notin h.answered
        /\ \A u \in Prompts : ~Pends(s, id, u)
        /\ \A o \in Owners : ~Taken(s, id, o)
    BY <1>3, <2>5 DEF OnePlace
  <2>7. /\ \A i : Asks(proc'[s].pipe, i) => Asks(proc[s].pipe, i) \/ i = id
        /\ AskedOnce(proc'[s].pipe)
        /\ \A i, m : i # id /\ AskedAs(proc[s].pipe, i, m) => AskedAs(proc'[s].pipe, i, m)
        /\ AskedAs(proc'[s].pipe, id, method)
    <3> DEFINE pipe == proc[s].pipe
               all == pipe \o <<<<"request", n, id, method>>>>
    <3>1. /\ \A i : Asks(all, i) => Asks(pipe, i) \/ i = id
          /\ AskedOnce(pipe) /\ ~Asks(pipe, id) => AskedOnce(all)
          /\ \A i, m : i # id /\ AskedAs(pipe, i, m) => AskedAs(all, i, m)
          /\ ~Asks(pipe, id) => AskedAs(all, id, method)
      BY <2>2, AppendAsks
    <3>2. proc'[s].pipe = all /\ AskedOnce(pipe)
      BY <1>3, <2>3 DEF OnePlace
    <3> HIDE DEF all
    <3> QED BY <2>6, <3>1, <3>2
  <2>8. OnePlace(s)'
    <3>1. \A i \in Ids : Asks(proc'[s].pipe, i) =>
            /\ i <= proc'[s].asked /\ <<s, i>> \notin h'.answered
            /\ \A u \in Prompts : ~Pends(s, i, u)'
            /\ \A o \in Owners : ~Taken(s, i, o)'
      BY <1>1, <1>3, <1>4, <2>3, <2>4, <2>5, <2>6, <2>7 DEF OnePlace
    <3>2. \A i \in Ids, u \in Prompts : Pends(s, i, u)' =>
            /\ i <= proc'[s].asked /\ <<s, i>> \notin h'.answered
            /\ \A v \in Prompts : Pends(s, i, v)' => v = u
            /\ \A o \in Owners : ~Taken(s, i, o)'
      BY <1>1, <1>3, <1>4, <2>3, <2>4 DEF OnePlace
    <3>3. \A i \in Ids, o \in Owners : Taken(s, i, o)' =>
            /\ i <= proc'[s].asked /\ <<s, i>> \notin h'.answered
            /\ \A p \in Owners : Taken(s, i, p)' => p = o
      BY <1>1, <1>3, <1>4, <2>3, <2>4 DEF OnePlace
    <3>4. \A i \in Ids : <<s, i>> \in h'.answered => i <= proc'[s].asked
      BY <1>1, <1>3, <2>3, <2>4 DEF OnePlace
    <3>5. \A u \in Prompts : object'[u].srv = s =>
            \A p, q \in object'[u].pending : p[1] = q[1] => p = q
      BY <1>1, <1>3 DEF OnePlace
    <3> QED BY <2>7, <3>1, <3>2, <3>3, <3>4, <3>5 DEF OnePlace
  <2>9. Agrees(s)'
    <3>1. SUFFICES ASSUME NEW a \in proc'[s].open
                   PROVE  /\ a[1] <= id /\ AskedAs(proc'[s].pipe, a[1], a[3])
                          /\ \A u \in Prompts : object[u].srv = s =>
                               \A p \in object[u].pending : p[1] = a[1] => p[2] = a[3]
                          /\ \A o \in Owners : Taken(s, a[1], o) => respond[o].a[2] = a[3]
      BY <1>1, <1>4, <2>3 DEF Agrees
    <3>2. CASE a \in proc[s].open
      <4>1. a[1] \in Ids
        BY <3>2 DEF Typed, ProcessesTyped, Processes, Ids
      <4>2. a[1] <= id /\ a[1] # id
        BY <1>3, <2>4, <3>2, <4>1 DEF Agrees
      <4> QED BY <1>3, <2>7, <3>2, <4>2 DEF Agrees
    <3>3. CASE a = <<id, n, method>>
      <4>1. a[1] = id /\ a[3] = method
        BY <3>3
      <4>2. \A u \in Prompts : object[u].srv = s => \A p \in object[u].pending : p[1] # id
        BY <2>6 DEF Pends
      <4> QED BY <2>5, <2>6, <2>7, <4>1, <4>2
    <3> QED BY <2>3, <3>2, <3>3
  <2> QED BY <2>8, <2>9
<1> QED BY <1>5, <1>6

\* A pipe from which the first line was read.
LEMMA RestAsks ==
  ASSUME Typed, NEW s \in Prompts, proc[s].pipe # <<>>, NEW x \in Prompts
  PROVE  /\ Calm(proc[x].pipe, Rest(s)[x].pipe)
         /\ Rest(s)[x].asked = proc[x].asked /\ Rest(s)[x].open = proc[x].open
<1>1. CASE x = s
  BY <1>1, RestParts, TailAsks
<1>2. CASE x # s
  BY <1>2, RestParts, CalmSame
<1> QED BY <1>1, <1>2

LEMMA declineUnknownAsks ==
  ASSUME IInv, PlaceInv, FreshInv, RespondInv, AskInv, NEW s \in Prompts, declineUnknown(s)
  PROVE  AskInv'
<1> USE DEF IInv
<1>1. /\ UNCHANGED <<b, object, respond>> /\ proc[s].pipe # <<>> /\ Line(s)[1] = "request"
      /\ loop[s].at = "read"
  BY DEF declineUnknown, Declines, HasLine
<1>2. PICK id \in Ids, m \in Methods : id = Line(s)[3] /\ m = Line(s)[4]
  BY <1>1, LineParts
<1> DEFINE R == {<<id, Form(m)>>}
<1>3. AnswerAll(Rest(s), R) /\ Counted(s, R)
  BY <1>2 DEF declineUnknown
<1>4. \A q \in R : q[1] = id /\ q[2] = Form(m)
  OBVIOUS
<1> HIDE DEF R
<1>5. Rest(s) \in [Prompts -> Processes]
  BY <1>1, RestParts
<1>6. ASSUME NEW x \in Prompts
      PROVE  /\ proc'[x].pipe = Rest(s)[x].pipe /\ proc'[x].asked = Rest(s)[x].asked
             /\ proc'[x].open \subseteq Rest(s)[x].open
  BY <1>3, <1>5, AnswerParts
<1>7. PlacesLess
  <2>1. \A x \in Prompts : AskedLess(x)
    BY <1>1, <1>6, RestAsks DEF AskedLess
  <2>2. SlipsStay
    BY <1>3, CountedParts DEF SlipsStay
  <2> QED BY <1>1, <2>1, <2>2 DEF PlacesLess, PendsLess, TakenLess
<1>8. ASSUME ~Late, s = b.server
      PROVE  /\ id <= proc[s].asked /\ <<s, id>> \notin h.answered
             /\ ~Asks(proc'[s].pipe, id)
             /\ \A t \in Prompts : ~Pends(s, id, t)'
             /\ \A o \in Owners : ~Taken(s, id, o)'
             /\ \A a \in proc[s].open : a[1] = id => Form(m) = Form(a[3])
  <2>1. OnePlace(s) /\ Agrees(s)
    BY <1>8 DEF AskInv
  <2>2. /\ proc[s].pipe \in Seq(Lines) /\ proc'[s].pipe = Tail(proc[s].pipe)
    BY <1>1, <1>6, RestParts
  <2>3. Asks(proc[s].pipe, id) /\ ~Asks(proc'[s].pipe, id)
    BY <1>1, <1>2, <2>1, <2>2, TailAsks DEF OnePlace, Line
  <2>4. /\ id <= proc[s].asked /\ <<s, id>> \notin h.answered
        /\ \A t \in Prompts : ~Pends(s, id, t)
        /\ \A o \in Owners : ~Taken(s, id, o)
    BY <2>1, <2>3 DEF OnePlace
  <2>5. \A a \in proc[s].open : a[1] = id => m = a[3]
    <3>1. 1 \in DOMAIN proc[s].pipe /\ proc[s].pipe[1] = Line(s)
      BY <1>1, <2>2 DEF Line
    <3> QED BY <1>1, <1>2, <2>1, <3>1 DEF Agrees, AskedAs
  <2>6. /\ \A t \in Prompts : ~Pends(s, id, t)'
        /\ \A o \in Owners : ~Taken(s, id, o)'
    BY <1>1, <2>4 DEF Pends, Taken
  <2> QED BY <2>3, <2>4, <2>5, <2>6
<1>9. ~Late /\ CanAnswer /\ s = b.server => \A q \in R :
        /\ q[1] <= proc[s].asked /\ <<s, q[1]>> \notin h.answered
        /\ ~Asks(proc'[s].pipe, q[1])
        /\ \A t \in Prompts : ~Pends(s, q[1], t)'
        /\ \A o \in Owners : ~Taken(s, q[1], o)'
        /\ \A a \in proc[s].open : a[1] = q[1] => q[2] = Form(a[3])
  BY <1>4, <1>8
<1>10. b'.server = b.server
  BY <1>1
<1> QED BY <1>3, <1>7, <1>9, <1>10, AnswersKept

LEMMA resolveAllPendingAsks ==
  ASSUME IInv, RespondInv, AskInv, NEW s \in Prompts, resolveAllPending(s)
  PROVE  AskInv'
<1> USE NoneIsNoPrompt DEF IInv
<1>a. proc[s].pipe # <<>> /\ Line(s)[2] \in Prompts
  BY LineParts DEF resolveAllPending, HasLine
<1>1. PICK t \in Prompts : t = Object(s)
  BY <1>a DEF resolveAllPending, IsKnown, Object, Owner, thread, Typed, BackendTyped, Servers
<1> DEFINE R == Results(object[t].pending)
<1>2. /\ AnswerAll(Rest(s), R) /\ Counted(object[t].srv, R) /\ UNCHANGED <<b, respond>>
      /\ object' = [object EXCEPT ![t].pending = {}]
  BY <1>1 DEF resolveAllPending
<1>3. \A q \in R : \E a \in object[t].pending : q[1] = a[1] /\ q[2] = Form(a[2])
  BY DEF Results, approvalResult
<1> HIDE DEF R
<1>4. Rest(s) \in [Prompts -> Processes]
  BY <1>a, RestParts
<1>5. ASSUME NEW x \in Prompts
      PROVE  /\ proc'[x].pipe = Rest(s)[x].pipe /\ proc'[x].asked = Rest(s)[x].asked
             /\ proc'[x].open \subseteq Rest(s)[x].open
  BY <1>2, <1>4, AnswerParts
<1>6. \A x \in Prompts : AskedLess(x)
  BY <1>a, <1>5, RestAsks DEF AskedLess
<1>7. /\ \A u \in Prompts \ {t} : object'[u] = object[u]
      /\ object'[t].srv = object[t].srv /\ object'[t].pending = {}
  BY <1>2 DEF Typed, ObjectsTyped, Objects
<1>8. PlacesLess
  <2>1. SlipsStay
    BY <1>2, CountedParts DEF SlipsStay
  <2> QED BY <1>2, <1>6, <1>7, <2>1 DEF PlacesLess, PendsLess, TakenLess
<1>9. ASSUME ~Late, NEW x \in Prompts, x = object[t].srv, x = b.server, NEW a \in object[t].pending
      PROVE  /\ a[1] <= proc[x].asked /\ <<x, a[1]>> \notin h.answered
             /\ ~Asks(proc'[x].pipe, a[1])
             /\ \A u \in Prompts : ~Pends(x, a[1], u)'
             /\ \A o \in Owners : ~Taken(x, a[1], o)'
             /\ \A c \in proc[x].open : c[1] = a[1] => Form(a[2]) = Form(c[3])
  <2>1. OnePlace(x) /\ Agrees(x)
    BY <1>9 DEF AskInv
  <2>2. Pends(x, a[1], t) /\ a[1] \in Ids
    BY <1>9 DEF Pends, Typed, ObjectsTyped, Objects, Ids
  <2>3. /\ a[1] <= proc[x].asked /\ <<x, a[1]>> \notin h.answered
        /\ \A u \in Prompts : Pends(x, a[1], u) => u = t
        /\ \A o \in Owners : ~Taken(x, a[1], o)
        /\ ~Asks(proc[x].pipe, a[1])
    BY <2>1, <2>2 DEF OnePlace
  <2>4. ~Asks(proc'[x].pipe, a[1])
    BY <1>6, <2>3 DEF AskedLess, Calm
  <2>5. \A u \in Prompts : ~Pends(x, a[1], u)'
    BY <1>7, <2>3 DEF Pends
  <2>6. \A o \in Owners : ~Taken(x, a[1], o)'
    BY <1>2, <1>7, <2>3 DEF Taken, RespondInv
  <2>7. \A c \in proc[x].open : c[1] = a[1] => a[2] = c[3]
    BY <1>9, <2>1 DEF Agrees
  <2> QED BY <2>3, <2>4, <2>5, <2>6, <2>7
<1>10. PICK x : x = object[t].srv
  OBVIOUS
<1>11. ~Late /\ CanAnswer /\ x = b.server => \A q \in R :
         /\ q[1] <= proc[x].asked /\ <<x, q[1]>> \notin h.answered
         /\ ~Asks(proc'[x].pipe, q[1])
         /\ \A u \in Prompts : ~Pends(x, q[1], u)'
         /\ \A o \in Owners : ~Taken(x, q[1], o)'
         /\ \A a \in proc[x].open : a[1] = q[1] => q[2] = Form(a[3])
  <2>1. SUFFICES ASSUME ~Late, CanAnswer, x = b.server, NEW q \in R
                 PROVE  /\ q[1] <= proc[x].asked /\ <<x, q[1]>> \notin h.answered
                        /\ ~Asks(proc'[x].pipe, q[1])
                        /\ \A u \in Prompts : ~Pends(x, q[1], u)'
                        /\ \A o \in Owners : ~Taken(x, q[1], o)'
                        /\ \A a \in proc[x].open : a[1] = q[1] => q[2] = Form(a[3])
    OBVIOUS
  <2>2. x \in Prompts
    BY <2>1 DEF CanAnswer, Typed, BackendTyped, Servers
  <2>3. PICK a \in object[t].pending : q[1] = a[1] /\ q[2] = Form(a[2])
    BY <1>3, <2>1
  <2> QED BY <1>9, <1>10, <2>1, <2>2, <2>3
<1>12. Counted(x, R) /\ b'.server = b.server
  BY <1>2, <1>10
<1> QED BY <1>8, <1>11, <1>12, AnswersKept

LEMMA RespondAsks ==
  ASSUME IInv, RespondInv, AskInv, NEW o \in Owners, Respond(o)
  PROVE  AskInv'
<1> USE DEF IInv
<1>1. /\ object \in [Prompts -> Objects] /\ proc \in [Prompts -> Processes] /\ UNCHANGED b
      /\ respond[o].th # None /\ respond' = [respond EXCEPT ![o] = NoResponse]
  BY DEF Typed, ObjectsTyped, ProcessesTyped, Respond
<1>2. PICK t \in Prompts, a \in Ids \X Methods : t = respond[o].t /\ a = respond[o].a
  BY <1>1 DEF RespondInv
<1>3. /\ respond'[o].th = None /\ \A p \in Owners \ {o} : respond'[p] = respond[p]
  BY <1>1 DEF RespondInv, NoResponse
<1>4. \A u \in Prompts : object'[u].srv = object[u].srv /\ object'[u].pending = object[u].pending
  BY <1>1 DEF Respond, setState, Objects
<1>5. (\A u \in Prompts : PendsLess(u)) /\ (\A p \in Owners : TakenLess(p))
  BY <1>3, <1>4 DEF PendsLess, TakenLess
<1>6. CASE UNCHANGED <<proc, h>>
  BY <1>1, <1>5, <1>6, AskedSame, AskStays DEF PlacesLess, SlipsStay, WrongStays
<1>7. CASE CanAnswer
  <2> DEFINE R == Results({a})
  <2>1. AnswerAll(proc, R) /\ Counted(object[t].srv, R)
    BY <1>2, <1>7 DEF Respond
  <2>2. \A q \in R : q[1] = a[1] /\ q[2] = Form(a[2])
    BY DEF Results, approvalResult
  <2> HIDE DEF R
  <2>3. \A x \in Prompts : AskedLess(x)
    BY <1>1, <2>1, AnswerParts, AskedSame
  <2>4. PlacesLess
    BY <1>1, <1>5, <2>1, <2>3, CountedParts DEF PlacesLess, SlipsStay
  <2>5. PICK x : x = object[t].srv
    OBVIOUS
  <2>6. ASSUME ~Late, x = b.server
        PROVE  /\ a[1] <= proc[x].asked /\ <<x, a[1]>> \notin h.answered
               /\ ~Asks(proc'[x].pipe, a[1])
               /\ \A u \in Prompts : ~Pends(x, a[1], u)'
               /\ \A p \in Owners : ~Taken(x, a[1], p)'
               /\ \A c \in proc[x].open : c[1] = a[1] => Form(a[2]) = Form(c[3])
    <3>0. x \in Prompts
      BY <1>7, <2>6 DEF CanAnswer, Typed, BackendTyped, Servers
    <3>1. OnePlace(x) /\ Agrees(x)
      BY <2>6, <3>0 DEF AskInv
    <3>2. Taken(x, a[1], o) /\ a[1] \in Ids
      BY <1>1, <1>2, <2>5 DEF Taken
    <3>3. /\ a[1] <= proc[x].asked /\ <<x, a[1]>> \notin h.answered
          /\ \A p \in Owners : Taken(x, a[1], p) => p = o
          /\ \A u \in Prompts : ~Pends(x, a[1], u)
          /\ ~Asks(proc[x].pipe, a[1])
      BY <3>1, <3>2 DEF OnePlace
    <3>4. ~Asks(proc'[x].pipe, a[1])
      BY <2>3, <3>0, <3>3 DEF AskedLess, Calm
    <3>5. \A u \in Prompts : ~Pends(x, a[1], u)'
      BY <1>4, <3>3 DEF Pends
    <3>6. \A p \in Owners : ~Taken(x, a[1], p)'
      BY <1>3, <1>4, <3>3 DEF Taken, RespondInv
    <3>7. \A c \in proc[x].open : c[1] = a[1] => a[2] = c[3]
      BY <1>2, <3>1, <3>2 DEF Agrees
    <3> QED BY <3>3, <3>4, <3>5, <3>6, <3>7
  <2>7. ~Late /\ CanAnswer /\ x = b.server => \A q \in R :
          /\ q[1] <= proc[x].asked /\ <<x, q[1]>> \notin h.answered
          /\ ~Asks(proc'[x].pipe, q[1])
          /\ \A u \in Prompts : ~Pends(x, q[1], u)'
          /\ \A p \in Owners : ~Taken(x, q[1], p)'
          /\ \A c \in proc[x].open : c[1] = q[1] => q[2] = Form(c[3])
    BY <2>2, <2>6
  <2>8. Counted(x, R) /\ b'.server = b.server
    BY <1>1, <2>1, <2>5
  <2> QED BY <2>4, <2>7, <2>8, AnswersKept
<1> QED BY <1>6, <1>7 DEF Respond

LEMMA LoopAsks ==
  ASSUME IInv, PlaceInv, FreshInv, RespondInv, AskInv, NEW s \in Prompts, LoopStep(s)
  PROVE  AskInv'
<1> USE NoneIsNoPrompt DEF IInv
<1>0. /\ object \in [Prompts -> Objects] /\ UNCHANGED respond
      /\ h = [ended |-> h.ended, slips |-> h.slips, answered |-> h.answered, wrong |-> h.wrong]
      /\ \A o \in Owners : TakenLess(o)
  BY DEF Typed, ObjectsTyped, HistoryTyped, TakenLess, LoopStep, resolve, onUnknown, declineUnknown,
     onTurnStarted, onRequest, resolveAllPending, onTurnCompleted, HandlerReturns, readLoopEnds,
     onServerExit, ExitTells
<1>1. UNCHANGED proc => \A x \in Prompts : AskedLess(x)
  BY AskedSame
<1>2. CASE resolve(s) \/ onUnknown(s) \/ onTurnStarted(s)
  <2>1. proc' = Rest(s) /\ proc[s].pipe # <<>> /\ UNCHANGED <<b, h>>
    BY <1>2 DEF resolve, onUnknown, onTurnStarted, HasLine
  <2>2. \A x \in Prompts : AskedLess(x)
    BY <2>1, RestAsks DEF AskedLess
  <2>3. \A t \in Prompts : PendsLess(t)
    BY <1>0, <1>2 DEF resolve, onUnknown, onTurnStarted, Objects, PendsLess
  <2> QED BY <1>0, <2>1, <2>2, <2>3, AskStays DEF PlacesLess, SlipsStay, WrongStays
<1>3. CASE onTurnCompleted(s) \/ HandlerReturns(s) \/ readLoopEnds(s) \/ onServerExit(s) \/ ExitTells(s)
  <2>1. UNCHANGED proc /\ h'.answered = h.answered /\ SlipsStay /\ WrongStays
    BY <1>0, <1>3 DEF onTurnCompleted, HandlerReturns, readLoopEnds, onServerExit, ExitTells, Ended,
       SlipsStay, WrongStays
  <2>2. b'.server \in {None, b.server}
    BY <1>3 DEF onTurnCompleted, HandlerReturns, readLoopEnds, onServerExit, ExitTells, Typed, BackendTyped
  <2>3. \A t \in Prompts : PendsLess(t)
    <3>1. CASE onTurnCompleted(s)
      <4> DEFINE t == loop[s].t
                 q == [object[t] EXCEPT !.turn = None, !.turnID = FALSE, !.interrupted = None]
      <4>1. t \in Prompts
        BY <3>1 DEF onTurnCompleted, Typed, LoopsTyped
      <4>2. object' = [object EXCEPT ![t] = q]
        BY <1>0, <3>1, <4>1 DEF onTurnCompleted
      <4>3. q.srv = object[t].srv /\ q.pending = object[t].pending
        BY <1>0, <4>1 DEF Objects
      <4> HIDE DEF q, t
      <4> QED BY <1>0, <4>2, <4>3 DEF PendsLess
    <3>2. CASE HandlerReturns(s) \/ readLoopEnds(s) \/ onServerExit(s) \/ ExitTells(s)
      BY <1>0, <3>2 DEF HandlerReturns, readLoopEnds, onServerExit, ExitTells, setState, Objects, PendsLess
    <3> QED BY <1>3, <3>1, <3>2
  <2> QED BY <1>0, <1>1, <2>1, <2>2, <2>3, AskStays DEF PlacesLess
<1> QED BY <1>2, <1>3, declineUnknownAsks, onRequestAsks, resolveAllPendingAsks DEF LoopStep

LEMMA OutsideAsks ==
  ASSUME IInv, PlaceInv, RespondInv, AskInv, Outside
  PROVE  AskInv'
<1> USE DEF IInv
<1>0. object \in [Prompts -> Objects] /\ proc \in [Prompts -> Processes] /\ UNCHANGED b
  BY OutsideStays DEF Typed, ObjectsTyped, ProcessesTyped
<1>1. ASSUME NEW th \in Threads, Interrupt(th) PROVE AskInv'
  <2>1. \A t \in Prompts : PendsLess(t)
    BY <1>0, <1>1 DEF Interrupt, Objects, PendsLess
  <2>2. UNCHANGED <<proc, respond, h>>
    BY <1>1 DEF Interrupt
  <2> QED BY <1>0, <2>1, <2>2, AskedSame, AskStays DEF PlacesLess, TakenLess, SlipsStay, WrongStays
<1>2. ASSUME \A x \in Prompts : AskedLess(x), UNCHANGED <<object, respond, h>> PROVE AskInv'
  BY <1>0, <1>2, AskStays DEF PlacesLess, PendsLess, TakenLess, SlipsStay, WrongStays
<1>3. ASSUME NEW s \in Prompts, ServerDies(s) PROVE AskInv'
  BY <1>2, <1>3, KilledParts, AskedSame DEF ServerDies
<1>4. ASSUME NEW s \in Prompts, NEW m \in proc[s].inbox, ServerTakes(s, m) PROVE AskInv'
  <2>1. PICK lines \in Seq(Lines) : /\ proc'[s].pipe = proc[s].pipe \o lines
                                    /\ \A k \in DOMAIN lines : lines[k][1] # "request"
                                    /\ m[1] = "initialize" => OnlyAnswers(lines)
    BY <1>4, ServerTakesParts
  <2>2. proc[s].pipe \in Seq(Lines)
    BY DEF Typed, ProcessesTyped, Processes
  <2>3. Calm(proc[s].pipe, proc'[s].pipe)
    BY <2>1, <2>2, ConcatAsks
  <2>4. \A x \in Prompts : AskedLess(x)
    BY <1>4, <2>3, ServerTakesParts, CalmSame DEF AskedLess
  <2> QED BY <1>2, <1>4, <2>4 DEF ServerTakes, ServerStep
<1>5. ASSUME NEW s \in Prompts, NEW n \in Prompts, ServerCompletes(s, n) PROVE AskInv'
  <2>1. proc[s].pipe \in Seq(Lines)
    BY DEF Typed, ProcessesTyped, Processes
  <2> DEFINE lines == <<<<"turn/completed", n>>>>
  <2>2. lines \in Seq(Lines) /\ \A k \in DOMAIN lines : lines[k][1] # "request"
    BY DEF Lines
  <2>3. proc'[s].pipe = proc[s].pipe \o lines
    BY <1>5, ServerCompletesParts
  <2> HIDE DEF lines
  <2>4. Calm(proc[s].pipe, proc'[s].pipe)
    BY <2>1, <2>2, <2>3, ConcatAsks
  <2>5. \A x \in Prompts : AskedLess(x)
    BY <1>5, <2>4, ServerCompletesParts, CalmSame DEF AskedLess
  <2> QED BY <1>2, <1>5, <2>5 DEF ServerCompletes, ServerStep
<1>6. CASE UNCHANGED vars
  BY <1>2, <1>6, AskedSame DEF vars
<1> QED BY <1>1, <1>3, <1>4, <1>5, <1>6, RespondAsks, RespondTakesAsks, ServerAsksAsks DEF Outside, Ids

LEMMA NextAskInv ==
  IInv /\ PlaceInv /\ FreshInv /\ RespondInv /\ AskInv /\ [Next]_vars => AskInv'
<1> SUFFICES ASSUME IInv, PlaceInv, FreshInv, RespondInv, AskInv, [Next]_vars PROVE AskInv'
  OBVIOUS
<1>1. ASSUME NEW c \in Prompts, NEW th \in Threads, Arrive(c, th) PROVE AskInv'
  BY <1>1, AskedSame, AskStays DEF Arrive, PlacesLess, PendsLess, TakenLess, SlipsStay, WrongStays
<1>2. ASSUME NEW th \in Threads, Discard(th) PROVE AskInv'
  <2>1. UNCHANGED <<object, respond, h>> /\ b'.server = b.server
    BY <1>2 DEF Discard, IInv, Typed, BackendTyped
  <2>2. \A x \in Prompts : AskedLess(x)
    BY <1>2, DiscardParts, AskedSame DEF IInv
  <2> QED BY <2>1, <2>2, AskStays DEF PlacesLess, PendsLess, TakenLess, SlipsStay, WrongStays
<1> QED BY <1>1, <1>2, PromptAsks, LoopAsks, OutsideAsks DEF Next, Outside

-----------------------------------------------------------------------------
(* The conversation of a thread.  What is said of a conversation, or in    *)
(* it, goes to the thread of the prompt that opened it; and unless a       *)
(* conversation was replaced, a conversation in use is the one the record  *)
(* of its thread names.                                                    *)

NativeInv ==
  /\ \A c \in Prompts : call[c].pc = "new" => call[c].th = None
  /\ \A c \in Prompts : call[c].pc \in {"claim", "turn"} => call[c].nat # None
  /\ \A c \in Prompts : call[c].nat # None =>
       call[c].th \in Threads /\ call[call[c].nat].th = call[c].th
  /\ \A n \in Prompts : b.byNative[n] \in {None, call[n].th}
  /\ \A th \in known : nativeOf[th] # None => call[nativeOf[th]].th = th

Current(n) == call[n].th \notin known \/ nativeOf[call[n].th] = n
Used(n) ==
  \/ \E c \in Prompts : call[c].nat = n
  \/ \E s \in Prompts : n \in proc[s].work
  \/ \E s \in Prompts : \E m \in proc[s].inbox : m[1] = "turn/start" /\ m[3] = n

UsedInv ==
  \A n \in Prompts : Used(n) => call[n].th \in Threads /\ (h.slips = {} => Current(n))

\* What the server waits on is of a turn it works on.
OpenInv ==
  \A s \in Prompts : \A a \in proc[s].open : proc[s].alive /\ a[2] \in proc[s].work

TalkInv == NativeInv /\ UsedInv /\ OpenInv

LEMMA InitTalkInv == Init => TalkInv
BY NoneIsNoPrompt DEF Init, TalkInv, NativeInv, UsedInv, OpenInv, Used, NoCall, NoProcess, known

CallKept(c) ==
  /\ call'[c].th = call[c].th /\ call'[c].nat \in {None, call[c].nat}
  /\ call'[c].pc = "new" => call[c].pc = "new"
  /\ call'[c].pc \in {"claim", "turn"} => call'[c].nat # None
NativesKept ==
  /\ \A n \in Prompts : b'.byNative[n] \in {None, b.byNative[n]}
  /\ known' \subseteq known /\ \A th \in known' : nativeOf'[th] = nativeOf[th]
Offers(p, n) == n \in p.work \/ \E m \in p.inbox : m[1] = "turn/start" /\ m[3] = n
OffersLess == \A x, n \in Prompts : Offers(proc'[x], n) => Used(n)
OpenKept ==
  \A x \in Prompts : \A a \in proc'[x].open :
    /\ a \in proc[x].open /\ (proc[x].alive => proc'[x].alive)
    /\ a[2] \in proc[x].work => a[2] \in proc'[x].work

LEMMA TalkStays ==
  ASSUME IInv, TalkInv, \A c \in Prompts : CallKept(c), NativesKept, OffersLess, OpenInv', SlipsStay
  PROVE  TalkInv'
<1> USE NoneIsNoPrompt DEF IInv
<1>0. call \in [Prompts -> Calls] /\ known \subseteq Threads /\ \A th \in known : nativeOf[th] \in Servers
  BY DEF Typed, CallsTyped, NativesTyped
<1>1. NativeInv'
  <2>1. \A c \in Prompts : call'[c].nat # None =>
          call'[c].th \in Threads /\ call'[call'[c].nat].th = call'[c].th
    <3>1. SUFFICES ASSUME NEW c \in Prompts, call'[c].nat # None
                   PROVE  call'[c].th \in Threads /\ call'[call'[c].nat].th = call'[c].th
      OBVIOUS
    <3>2. call'[c].nat = call[c].nat /\ call[c].nat \in Prompts /\ call'[c].th = call[c].th
      BY <1>0, <3>1 DEF CallKept, Calls, Servers
    <3> QED BY <3>1, <3>2 DEF CallKept, TalkInv, NativeInv
  <2>2. \A n \in Prompts : b'.byNative[n] \in {None, call'[n].th}
    BY DEF CallKept, NativesKept, TalkInv, NativeInv
  <2>3. \A th \in known' : nativeOf'[th] # None => call'[nativeOf'[th]].th = th
    BY <1>0 DEF CallKept, NativesKept, TalkInv, NativeInv, Servers
  <2>4. /\ \A c \in Prompts : call'[c].pc = "new" => call'[c].th = None
        /\ \A c \in Prompts : call'[c].pc \in {"claim", "turn"} => call'[c].nat # None
    BY DEF CallKept, TalkInv, NativeInv
  <2> QED BY <2>1, <2>2, <2>3, <2>4 DEF NativeInv
<1>2. UsedInv'
  <2>1. SUFFICES ASSUME NEW n \in Prompts, Used(n)'
                 PROVE  call'[n].th \in Threads /\ (h'.slips = {} => Current(n)')
    BY DEF UsedInv
  <2>2. Used(n)
    BY <2>1 DEF Used, CallKept, OffersLess, Offers
  <2>3. call[n].th \in Threads /\ (h.slips = {} => Current(n)) /\ call'[n].th = call[n].th
    BY <2>2 DEF TalkInv, UsedInv, CallKept
  <2>4. Current(n) => Current(n)'
    BY <2>3 DEF Current, NativesKept
  <2> QED BY <2>3, <2>4 DEF SlipsStay
<1> QED BY <1>1, <1>2 DEF TalkInv

LEMMA OpenStays == TalkInv /\ OpenKept => OpenInv'
BY DEF TalkInv, OpenInv, OpenKept

\* The processes of a step that tells them nothing new.
LEMMA ProcTalk ==
  ASSUME NEW x \in Prompts, proc'[x].work = proc[x].work, proc'[x].inbox \subseteq proc[x].inbox
  PROVE  \A n \in Prompts : Offers(proc'[x], n) => Used(n)
BY DEF Offers, Used

LEMMA ArriveTalk ==
  ASSUME IInv, TalkInv, NEW c \in Prompts, NEW th \in Threads, Arrive(c, th)
  PROVE  TalkInv'
<1> USE NoneIsNoPrompt DEF IInv
<1>0. /\ call \in [Prompts -> Calls] /\ known \subseteq Threads /\ \A x \in known : nativeOf[x] \in Servers
      /\ th \in known /\ call[c].pc = "new" /\ call[c].th = None
      /\ UNCHANGED <<nativeOf, b, object, proc, loop, respond, h>>
  BY DEF Typed, CallsTyped, NativesTyped, Arrive, TalkInv, NativeInv
<1>1. /\ \A d \in Prompts \ {c} : call'[d] = call[d]
      /\ call'[c].th = th /\ call'[c].nat \in {None, nativeOf[th]} /\ call'[c].pc \in {"failed", "ensure"}
  BY <1>0 DEF Arrive, NoCall
<1>2. \A n \in Prompts : call[n].th \in Threads => n # c /\ call'[n] = call[n]
  BY <1>0, <1>1
<1>3. nativeOf[th] # None => call'[nativeOf[th]].th = th /\ nativeOf[th] \in Prompts /\ nativeOf[th] # c
  BY <1>0, <1>2 DEF TalkInv, NativeInv, Servers
<1>4. NativeInv'
  <2>1. \A d \in Prompts : call'[d].nat # None =>
          call'[d].th \in Threads /\ call'[call'[d].nat].th = call'[d].th
    <3>1. SUFFICES ASSUME NEW d \in Prompts, call'[d].nat # None
                   PROVE  call'[d].th \in Threads /\ call'[call'[d].nat].th = call'[d].th
      OBVIOUS
    <3>2. CASE d = c
      BY <1>1, <1>3, <3>1, <3>2
    <3>3. CASE d # c
      <4>1. call'[d] = call[d] /\ call[d].nat \in Prompts
        BY <1>0, <1>1, <3>1, <3>3 DEF Calls, Servers
      <4> QED BY <1>2, <3>1, <4>1 DEF TalkInv, NativeInv
    <3> QED BY <3>2, <3>3
  <2>2. \A n \in Prompts : b'.byNative[n] \in {None, call'[n].th}
    <3>1. \A n \in Prompts : b.byNative[n] \in {None, call[n].th}
      BY DEF TalkInv, NativeInv
    <3> QED BY <1>0, <1>1, <3>1
  <2>3. \A x \in known : nativeOf[x] # None => call'[nativeOf[x]].th = x
    BY <1>0, <1>2 DEF TalkInv, NativeInv, Servers
  <2>4. /\ \A d \in Prompts : call'[d].pc = "new" => call'[d].th = None
        /\ \A d \in Prompts : call'[d].pc \in {"claim", "turn"} => call'[d].nat # None
    BY <1>1 DEF TalkInv, NativeInv
  <2> QED BY <1>0, <2>1, <2>2, <2>3, <2>4 DEF NativeInv, known
<1>5. UsedInv'
  <2>1. SUFFICES ASSUME NEW n \in Prompts, Used(n)'
                 PROVE  call'[n].th \in Threads /\ (h.slips = {} => Current(n)')
    BY <1>0 DEF UsedInv
  <2>2. CASE Used(n)
    BY <1>0, <1>2, <2>2 DEF TalkInv, UsedInv, Current, known
  <2>3. CASE n = nativeOf[th]
    BY <1>0, <1>3, <2>3 DEF Current, known
  <2>4. Used(n) \/ n = nativeOf[th]
    BY <1>0, <1>1, <2>1 DEF Used
  <2> QED BY <2>2, <2>3, <2>4
<1> QED BY <1>0, <1>4, <1>5 DEF TalkInv, OpenInv

LEMMA OpenedTalk ==
  ASSUME IInv, TalkInv, NEW c \in Prompts, Opened(c)
  PROVE  TalkInv'
<1> USE NoneIsNoPrompt DEF IInv
<1>0. /\ call \in [Prompts -> Calls] /\ known \subseteq Threads /\ \A x \in known : nativeOf[x] \in Servers
      /\ nativeOf = [x \in known |-> nativeOf[x]] /\ b.byNative \in [Prompts -> Threads \cup {None}]
      /\ call[c].pc = "opening"
  BY DEF Typed, CallsTyped, NativesTyped, BackendTyped, known, Opened
<1>1. PICK th \in Threads, n \in Prompts : th = call[c].th /\ n = Conversation(c)
  BY <1>0 DEF Typed, CallsTyped, HasThread, Conversation, Calls, Servers
<1>2. call[n].th = th
  BY <1>1 DEF Conversation, TalkInv, NativeInv
<1>3. /\ call' = [call EXCEPT ![c].pc = "claim", ![c].nat = n, ![c].answered = FALSE]
      /\ b' = [b EXCEPT !.threads[th] = c, !.byNative[n] = th] /\ UNCHANGED proc
      /\ nativeOf' = IF th \in known THEN [nativeOf EXCEPT ![th] = n] ELSE nativeOf
      /\ h'.slips = {} => h.slips = {} /\ (th \in known => nativeOf[th] \in {None, n})
  BY <1>1 DEF Opened, Typed, HistoryTyped
<1>4. /\ call'[c].pc = "claim" /\ call'[c].nat = n /\ call'[c].th = th
      /\ \A d \in Prompts \ {c} : call'[d] = call[d]
      /\ \A d \in Prompts : call'[d].th = call[d].th
  BY <1>0, <1>1, <1>3 DEF Calls
<1>5. \A m \in Prompts : b'.byNative[m] = IF m = n THEN th ELSE b.byNative[m]
  BY <1>0, <1>3 DEF Typed, BackendTyped
<1>6. /\ known' = known
      /\ \A x \in known : nativeOf'[x] = IF x = th THEN n ELSE nativeOf[x]
  <2>1. CASE th \in known
    BY <1>0, <1>3, <2>1 DEF known
  <2>2. CASE th \notin known
    BY <1>0, <1>3, <2>2 DEF known
  <2> QED BY <2>1, <2>2
<1>7. NativeInv'
  <2>1. \A d \in Prompts : call'[d].nat # None =>
          call'[d].th \in Threads /\ call'[call'[d].nat].th = call'[d].th
    <3>1. SUFFICES ASSUME NEW d \in Prompts, call'[d].nat # None
                   PROVE  call'[d].th \in Threads /\ call'[call'[d].nat].th = call'[d].th
      OBVIOUS
    <3>2. CASE d = c
      BY <1>2, <1>4, <3>2
    <3>3. CASE d # c
      <4>1. call'[d] = call[d] /\ call[d].nat \in Prompts
        BY <1>0, <1>4, <3>1, <3>3 DEF Calls, Servers
      <4> QED BY <1>4, <3>1, <4>1 DEF TalkInv, NativeInv
    <3> QED BY <3>2, <3>3
  <2>2. \A m \in Prompts : b'.byNative[m] \in {None, call'[m].th}
    BY <1>2, <1>4, <1>5 DEF TalkInv, NativeInv
  <2>3. \A x \in known : nativeOf'[x] # None => call'[nativeOf'[x]].th = x
    BY <1>0, <1>2, <1>4, <1>6 DEF TalkInv, NativeInv, Servers
  <2>4. /\ \A d \in Prompts : call'[d].pc = "new" => call'[d].th = None
        /\ \A d \in Prompts : call'[d].pc \in {"claim", "turn"} => call'[d].nat # None
    BY <1>4 DEF TalkInv, NativeInv
  <2> QED BY <1>6, <2>1, <2>2, <2>3, <2>4 DEF NativeInv
<1>8. UsedInv'
  <2>1. SUFFICES ASSUME NEW m \in Prompts, Used(m)'
                 PROVE  call'[m].th \in Threads /\ (h'.slips = {} => Current(m)')
    BY DEF UsedInv
  <2>2. CASE m = n
    BY <1>2, <1>4, <1>6, <2>2 DEF Current
  <2>3. CASE Used(m) /\ m # n
    <3>1. call'[m].th = call[m].th /\ call[m].th \in Threads /\ (h.slips = {} => Current(m))
      BY <1>4, <2>3 DEF TalkInv, UsedInv
    <3>2. h'.slips = {} /\ Current(m) => Current(m)'
      BY <1>3, <1>6, <2>3, <3>1 DEF Current
    <3> QED BY <1>3, <3>1, <3>2
  <2>4. Used(m) \/ m = n
    BY <1>3, <1>4, <2>1 DEF Used
  <2> QED BY <2>2, <2>3, <2>4
<1> QED BY <1>3, <1>7, <1>8 DEF TalkInv, OpenInv

LEMMA PromptTalk ==
  ASSUME IInv, TalkInv, NEW c \in Prompts, PromptStep(c)
  PROVE  TalkInv'
<1> USE NoneIsNoPrompt DEF IInv
<1>0. /\ call \in [Prompts -> Calls] /\ proc \in [Prompts -> Processes]
      /\ h = [ended |-> h.ended, slips |-> h.slips, answered |-> h.answered, wrong |-> h.wrong]
  BY DEF Typed, CallsTyped, HistoryTyped, ProcessesTyped
<1>1. SUFFICES ASSUME ~Opened(c)
               PROVE  (\A d \in Prompts : CallKept(d)) /\ OffersLess /\ OpenKept /\ SlipsStay /\ NativesKept
  BY OpenedTalk, TalkStays, OpenStays
<1>2. SlipsStay /\ NativesKept
  <2>1. UNCHANGED nativeOf /\ b'.byNative = b.byNative
    BY <1>1 DEF PromptStep, ensureServer, StartServer, Initialized, InitializeFails, StopReturns,
       StoreServer, openThread, Opened, Claim, CallFails, PromptReturns, Dial, Typed, BackendTyped
  <2>2. SlipsStay
    BY <1>0, <1>1 DEF PromptStep, ensureServer, StartServer, Initialized, InitializeFails, StopReturns,
       StoreServer, openThread, Opened, Claim, CallFails, PromptReturns, Dial, SlipsStay
  <2> QED BY <2>1, <2>2 DEF NativesKept, known
<1>3. \A d \in Prompts \ {c} : call'[d] = call[d]
  BY <1>0, <1>1 DEF PromptStep, ensureServer, StartServer, Initialized, InitializeFails, StopReturns,
     StoreServer, openThread, Opened, Claim, CallFails, PromptReturns, Return, HasServer, Goto, Dial
<1>4. CallKept(c) => \A d \in Prompts : CallKept(d)
  BY <1>3 DEF CallKept, TalkInv, NativeInv
<1>5. CallKept(c)
  <2> DEFINE returns == \E pc \in {"failed", "panicked", "returned"} : Return(c, pc)
             found   == HasServer(c)
             moves   == \E pc \in {"lock", "stop", "open", "opening"} : Goto(c, pc)
             dials   == Dial(c)
             claims  == Claim(c) /\ call' = [call EXCEPT ![c].pc = "turn", ![c].t = thread(call[c].th)]
             ready   == Goto(c, "claim") /\ call[c].nat # None
             stores  == Initialized(c)
  <2>1. CASE returns
    BY <1>0, <2>1 DEF Return, NoCall, CallKept
  <2>2. CASE found
    BY <1>0, <2>2 DEF HasServer, Calls, CallKept
  <2>3. CASE moves
    BY <1>0, <2>3 DEF Goto, Calls, CallKept
  <2>4. CASE dials
    BY <1>0, <2>4 DEF Dial, Calls, CallKept
  <2>5. CASE claims
    BY <1>0, <2>5 DEF Claim, Calls, CallKept, TalkInv, NativeInv
  <2>6. CASE ready
    BY <1>0, <2>6 DEF Goto, Calls, CallKept
  <2>7. CASE stores
    BY <1>0, <2>7 DEF Initialized, Calls, CallKept
  <2>8. ensureServer(c) \/ StartServer(c) => returns \/ found \/ moves \/ dials
    BY DEF ensureServer, StartServer
  <2>9. StopReturns(c) \/ CallFails(c) \/ PromptReturns(c) => returns
    BY DEF StopReturns, CallFails, PromptReturns
  <2>10. Claim(c) => returns \/ claims
    BY DEF Claim
  <2>11. InitializeFails(c) \/ StoreServer(c) => moves
    BY DEF InitializeFails, StoreServer
  <2>12. openThread(c) => moves \/ ready
    BY DEF openThread
  <2> HIDE DEF returns, found, moves, dials, claims, ready
  <2> QED BY <1>1, <2>1, <2>2, <2>3, <2>4, <2>5, <2>6, <2>7, <2>8, <2>9, <2>10, <2>11, <2>12 DEF PromptStep
<1>6. OffersLess /\ OpenKept
  <2>1. CASE UNCHANGED proc
    BY <2>1, ProcTalk DEF OffersLess, OpenKept
  <2>2. CASE Dial(c)
    <3>1. /\ \A x \in Prompts \ {c} : proc'[x] = proc[x]
          /\ proc'[c] = [proc[c] EXCEPT !.alive = TRUE, !.inbox = {<<"initialize", c, None>>}]
      BY <1>0, <2>2 DEF Dial
    <3>2. /\ proc'[c].work = proc[c].work /\ proc'[c].open = proc[c].open
          /\ proc'[c].alive /\ proc'[c].inbox = {<<"initialize", c, None>>}
      BY <1>0, <3>1 DEF Processes
    <3>3. \A m \in proc'[c].inbox : m[1] # "turn/start"
      BY <3>2
    <3> QED BY <3>1, <3>2, <3>3 DEF OffersLess, OpenKept, Offers, Used
  <2>3. CASE Killed(c)
    BY <2>3, KilledParts DEF OffersLess, OpenKept, Offers, Used
  <2>4. CASE openThread(c) /\ Request(c, "thread/start")
    <3>1. \A x \in Prompts : \A m \in proc'[x].inbox : m \in proc[x].inbox \/ m[1] # "turn/start"
      BY <2>4, RequestParts
    <3>2. \A x \in Prompts : /\ proc'[x].work = proc[x].work /\ proc'[x].open = proc[x].open
                             /\ proc'[x].alive = proc[x].alive
      BY <2>4, RequestParts
    <3> QED BY <3>1, <3>2 DEF OffersLess, OpenKept, Offers, Used
  <2>5. CASE Claim(c) /\ Request(c, "turn/start")
    <3>1. call[c].nat # None /\ Conversation(c) = call[c].nat
      BY <2>5 DEF Claim, Conversation, TalkInv, NativeInv
    <3>2. \A x \in Prompts : \A m \in proc'[x].inbox : m \in proc[x].inbox \/ m[3] = call[c].nat
      BY <2>5, <3>1, RequestParts
    <3>3. \A x \in Prompts : /\ proc'[x].work = proc[x].work /\ proc'[x].open = proc[x].open
                             /\ proc'[x].alive = proc[x].alive
      BY <2>5, RequestParts
    <3> QED BY <3>2, <3>3 DEF OffersLess, OpenKept, Offers, Used
  <2> QED BY <1>1, <2>1, <2>2, <2>3, <2>4, <2>5 DEF PromptStep, ensureServer, StartServer, Initialized,
       InitializeFails, StopReturns, StoreServer, openThread, Claim, CallFails, PromptReturns
<1> QED BY <1>2, <1>4, <1>5, <1>6

\* The steps that leave prompts and conversations alone.
LEMMA ProcsTalk ==
  ASSUME IInv, TalkInv, \A d \in Prompts : call'[d].th = call[d].th /\ call'[d].nat = call[d].nat /\ call'[d].pc = call[d].pc,
         UNCHANGED nativeOf, b'.byNative = b.byNative, SlipsStay, OffersLess, OpenInv'
  PROVE  TalkInv'
<1>1. \A d \in Prompts : CallKept(d)
  BY DEF CallKept, TalkInv, NativeInv
<1>2. NativesKept
  BY DEF NativesKept, known
<1> QED BY <1>1, <1>2, TalkStays

LEMMA LoopTalk ==
  ASSUME IInv, TalkInv, NEW s \in Prompts, LoopStep(s)
  PROVE  TalkInv'
<1> USE DEF IInv
<1>0. /\ call \in [Prompts -> Calls]
      /\ h = [ended |-> h.ended, slips |-> h.slips, answered |-> h.answered, wrong |-> h.wrong]
  BY DEF Typed, CallsTyped, HistoryTyped
<1>1. \A d \in Prompts : call'[d].th = call[d].th /\ call'[d].nat = call[d].nat /\ call'[d].pc = call[d].pc
  BY <1>0 DEF LoopStep, resolve, onUnknown, declineUnknown, onTurnStarted, onRequest, resolveAllPending,
     onTurnCompleted, HandlerReturns, readLoopEnds, onServerExit, ExitTells, Calls
<1>2. UNCHANGED nativeOf /\ b'.byNative = b.byNative
  BY DEF LoopStep, resolve, onUnknown, declineUnknown, onTurnStarted, onRequest, resolveAllPending,
     onTurnCompleted, HandlerReturns, readLoopEnds, onServerExit, ExitTells, Typed, BackendTyped
<1>3. SlipsStay
  <2>1. \A x, R : Counted(x, R) => SlipsStay
    BY CountedParts DEF SlipsStay
  <2> QED BY <1>0, <2>1 DEF LoopStep, resolve, onUnknown, declineUnknown, onTurnStarted, onRequest,
     resolveAllPending, onTurnCompleted, HandlerReturns, readLoopEnds, onServerExit, ExitTells, Ended, SlipsStay
<1>4. OffersLess /\ OpenKept
  <2>1. CASE UNCHANGED proc
    BY <2>1, ProcTalk DEF OffersLess, OpenKept
  <2>2. CASE proc' = Rest(s) /\ proc[s].pipe # <<>>
    <3>1. \A x \in Prompts : /\ proc'[x].work = proc[x].work /\ proc'[x].inbox = proc[x].inbox
                             /\ proc'[x].alive = proc[x].alive /\ proc'[x].open = proc[x].open
      BY <2>2, RestParts
    <3> QED BY <3>1, ProcTalk DEF OffersLess, OpenKept
  <2>3. CASE (\E R : AnswerAll(Rest(s), R)) /\ proc[s].pipe # <<>>
    <3>1. Rest(s) \in [Prompts -> Processes]
      BY <2>3, RestParts
    <3>2. \A x \in Prompts :
            /\ proc'[x].work = Rest(s)[x].work /\ proc'[x].inbox = Rest(s)[x].inbox
            /\ proc'[x].alive = Rest(s)[x].alive /\ proc'[x].open \subseteq Rest(s)[x].open
      BY <2>3, <3>1, AnswerParts
    <3>3. \A x \in Prompts : /\ Rest(s)[x].work = proc[x].work /\ Rest(s)[x].inbox = proc[x].inbox
                             /\ Rest(s)[x].alive = proc[x].alive /\ Rest(s)[x].open = proc[x].open
      BY <2>3, RestParts
    <3>4. \A x \in Prompts : /\ proc'[x].work = proc[x].work /\ proc'[x].inbox = proc[x].inbox
                             /\ proc'[x].alive = proc[x].alive /\ proc'[x].open \subseteq proc[x].open
      BY <3>2, <3>3
    <3> QED BY <3>4, ProcTalk DEF OffersLess, OpenKept
  <2> QED BY <2>1, <2>2, <2>3 DEF LoopStep, resolve, onUnknown, declineUnknown, Declines, onTurnStarted, onRequest,
     resolveAllPending, onTurnCompleted, HandlerReturns, readLoopEnds, onServerExit, ExitTells, HasLine
<1> QED BY <1>1, <1>2, <1>3, <1>4, OpenStays, ProcsTalk

LEMMA OutsideTalk ==
  ASSUME IInv, TalkInv, Outside
  PROVE  TalkInv'
<1> USE DEF IInv
<1>0. proc \in [Prompts -> Processes] /\ UNCHANGED <<nativeOf, b, call>> /\ SlipsStay
  BY OutsideStays DEF Typed, ProcessesTyped
<1>1. SUFFICES OffersLess /\ OpenInv'
  BY <1>0, ProcsTalk
<1>2. CASE UNCHANGED proc
  BY <1>2, ProcTalk, OpenStays DEF OffersLess, OpenKept
<1>3. ASSUME NEW R, AnswerAll(proc, R) PROVE OffersLess /\ OpenInv'
  <2>1. \A x \in Prompts : /\ proc'[x].work = proc[x].work /\ proc'[x].inbox = proc[x].inbox
                           /\ proc'[x].alive = proc[x].alive /\ proc'[x].open \subseteq proc[x].open
    BY <1>0, <1>3, AnswerParts
  <2> QED BY <2>1, ProcTalk, OpenStays DEF OffersLess, OpenKept
<1>4. ASSUME NEW s \in Prompts, Killed(s) PROVE OffersLess /\ OpenInv'
  BY <1>4, KilledParts, OpenStays DEF OffersLess, OpenKept, Offers, Used
<1>5. ASSUME NEW s \in Prompts, NEW m \in proc[s].inbox, ServerTakes(s, m) PROVE OffersLess /\ OpenInv'
  <2>1. /\ \A x \in Prompts \ {s} : proc'[x] = proc[x]
        /\ proc'[s].alive /\ proc'[s].inbox = proc[s].inbox \ {m}
        /\ proc'[s].open = proc[s].open
        /\ m[1] # "turn/start" => proc'[s].work = proc[s].work
        /\ m[1] = "turn/start" => proc'[s].work = proc[s].work \cup {m[3]}
    BY <1>5, ServerTakesParts
  <2>2. OffersLess
    BY <1>5, <2>1 DEF OffersLess, Offers, Used
  <2>3. OpenKept
    BY <2>1 DEF OpenKept
  <2> QED BY <2>2, <2>3, OpenStays
<1>6. ASSUME NEW s \in Prompts, NEW n \in Prompts, ServerCompletes(s, n) PROVE OffersLess /\ OpenInv'
  <2>1. /\ \A x \in Prompts \ {s} : proc'[x] = proc[x]
        /\ proc'[s].alive /\ proc'[s].inbox = proc[s].inbox /\ proc'[s].work = proc[s].work \ {n}
        /\ proc'[s].open = {a \in proc[s].open : a[2] # n}
    BY <1>6, ServerCompletesParts
  <2>2. OffersLess
    BY <2>1 DEF OffersLess, Offers, Used
  <2>3. OpenKept
    BY <2>1 DEF OpenKept
  <2> QED BY <2>2, <2>3, OpenStays
<1>7. ASSUME NEW s \in Prompts, NEW n \in Prompts, NEW method \in Methods, ServerAsks(s, n, method)
      PROVE  OffersLess /\ OpenInv'
  <2>1. PICK id : /\ n \in proc[s].work /\ \A x \in Prompts \ {s} : proc'[x] = proc[x]
        /\ proc'[s].alive /\ proc'[s].inbox = proc[s].inbox /\ proc'[s].work = proc[s].work
        /\ proc'[s].open = proc[s].open \cup {<<id, n, method>>}
    BY <1>7, ServerAsksParts
  <2>2. OffersLess
    BY <2>1 DEF OffersLess, Offers, Used
  <2>3. OpenInv'
    BY <2>1 DEF OpenInv, TalkInv
  <2> QED BY <2>2, <2>3
<1>8. ASSUME NEW o \in Owners, Respond(o) PROVE OffersLess /\ OpenInv'
  BY <1>2, <1>3, <1>8 DEF Respond
<1> QED BY <1>2, <1>4, <1>5, <1>6, <1>7, <1>8 DEF Outside, ServerDies, RespondTakes, Interrupt, vars

LEMMA NextTalkInv == IInv /\ TalkInv /\ [Next]_vars => TalkInv'
<1> SUFFICES ASSUME IInv, TalkInv, [Next]_vars PROVE TalkInv'
  OBVIOUS
<1>1. ASSUME NEW th \in Threads, Discard(th) PROVE TalkInv'
  <2>1. UNCHANGED <<call, h>>
    BY <1>1 DEF Discard
  <2>2. NativesKept
    BY <1>1 DEF Discard, NativesKept, known, IInv, Typed, BackendTyped
  <2>3. \A d \in Prompts : CallKept(d)
    BY <2>1 DEF CallKept, TalkInv, NativeInv
  <2>4. \A x \in Prompts :
          /\ proc'[x].inbox = proc[x].inbox /\ proc'[x].work \subseteq proc[x].work
    BY <1>1, DiscardParts DEF IInv
  <2>5. OffersLess
    BY <2>4 DEF OffersLess, Offers, Used
  <2>6. ASSUME NEW x \in Prompts, NEW a \in proc'[x].open
        PROVE  /\ a \in proc[x].open /\ (proc[x].alive => proc'[x].alive)
               /\ a[2] \in proc[x].work => a[2] \in proc'[x].work
    <3>1. CASE proc'[x] = proc[x]
      BY <2>6, <3>1
    <3>2. CASE CanAnswer /\ x = b.server
      BY <1>1, <2>6, <3>2, DiscardParts DEF IInv
    <3> QED BY <1>1, <3>1, <3>2, DiscardParts DEF IInv
  <2>7. OpenKept
    BY <2>6 DEF OpenKept
  <2> QED BY <2>1, <2>2, <2>3, <2>5, <2>7, OpenStays, TalkStays DEF SlipsStay
<1> QED BY <1>1, ArriveTalk, PromptTalk, LoopTalk, OutsideTalk DEF Next, Outside

-----------------------------------------------------------------------------
(* Where a request the server waits on is found.                           *)

Unread(s, a) == \E i \in DOMAIN proc[s].pipe : proc[s].pipe[i] = <<"request", a[2], a[1], a[3]>>
AtThread(a) ==
  LET th == b.byNative[a[2]] IN
  th # None /\ thread(th) # None /\ <<a[1], a[3]>> \in object[thread(th)].pending
InHands(a) == \E o \in Owners : respond[o].th # None /\ respond[o].a = <<a[1], a[3]>>
Found(s, a) == Unread(s, a) \/ AtThread(a) \/ InHands(a)

LEMMA FoundAll ==
  /\ NoRequestForgotten <=> (h.slips = {} => \A s \in Prompts : \A a \in proc[s].open : Found(s, a))
  /\ NoRequestForgotten'
       <=> (h'.slips = {} => \A s \in Prompts : \A a \in proc'[s].open : Found(s, a)')
BY DEF NoRequestForgotten, Found, Unread, AtThread, InHands

\* The server that waits is the one that is stored, and can be answered.
LEMMA Waits ==
  ASSUME IInv, FreshInv, TalkInv, h.slips = {}, NEW s \in Prompts, NEW a \in proc[s].open
  PROVE  s = b.server /\ CanAnswer /\ a[2] \in proc[s].work /\ a[2] \in Prompts /\ Used(a[2])
<1>1. proc[s].alive /\ a[2] \in proc[s].work
  BY DEF TalkInv, OpenInv
<1>2. s \in {b.server, b.starting}
  BY <1>1 DEF IInv, ServerInv, AliveInv
<1>3. s # b.starting
  BY DEF IInv, ServerInv, StartInv, Starting, Fresh, FreshInv, FreshProcess
<1>4. a[2] \in Prompts
  BY DEF IInv, Typed, ProcessesTyped, Processes
<1> QED BY <1>1, <1>2, <1>3, <1>4, NoneIsNoPrompt DEF CanAnswer, Used

UnreadKept(x) ==
  \A line : line[1] = "request" /\ (\E k \in DOMAIN proc[x].pipe : proc[x].pipe[k] = line)
    => \E k \in DOMAIN proc'[x].pipe : proc'[x].pipe[k] = line
FoundKept ==
  /\ \A x \in Prompts : UnreadKept(x) /\ proc'[x].open \subseteq proc[x].open
  /\ b'.byNative = b.byNative /\ b'.threads = b.threads
  /\ \A t \in Prompts : object[t].pending \subseteq object'[t].pending
  /\ UNCHANGED respond /\ SlipsStay

\* Where a request was found it is found, when what is there was kept.
LEMMA FoundStays ==
  ASSUME IInv, NEW s \in Prompts, NEW a, a[2] \in Prompts
  PROVE  /\ UnreadKept(s) /\ Unread(s, a) => Unread(s, a)'
         /\ b'.byNative = b.byNative /\ b'.threads = b.threads
              /\ (\A t \in Prompts : object[t].pending \subseteq object'[t].pending)
              /\ AtThread(a) => AtThread(a)'
         /\ UNCHANGED respond /\ InHands(a) => InHands(a)'
<1>1. UnreadKept(s) /\ Unread(s, a) => Unread(s, a)'
  <2> DEFINE line == <<"request", a[2], a[1], a[3]>>
  <2>1. line[1] = "request"
    OBVIOUS
  <2>2. Unread(s, a) <=> \E k \in DOMAIN proc[s].pipe : proc[s].pipe[k] = line
    BY DEF Unread
  <2>3. Unread(s, a)' <=> \E k \in DOMAIN proc'[s].pipe : proc'[s].pipe[k] = line
    BY DEF Unread
  <2> HIDE DEF line
  <2> QED BY <2>1, <2>2, <2>3 DEF UnreadKept
<1>2. ASSUME b'.byNative = b.byNative, b'.threads = b.threads,
             \A t \in Prompts : object[t].pending \subseteq object'[t].pending, AtThread(a)
      PROVE  AtThread(a)'
  <2>1. PICK th \in Threads : th = b.byNative[a[2]]
    BY <1>2 DEF AtThread, IInv, Typed, BackendTyped
  <2>2. thread(th) \in Prompts
    BY <1>2, <2>1 DEF AtThread, IInv, Typed, BackendTyped, thread, Servers
  <2> QED BY <1>2, <2>1, <2>2 DEF AtThread, thread
<1>3. UNCHANGED respond /\ InHands(a) => InHands(a)'
  BY DEF InHands
<1> QED BY <1>1, <1>2, <1>3

LEMMA AskerTyped ==
  ASSUME IInv, NEW s \in Prompts, NEW a \in proc[s].open
  PROVE  a[1] \in Ids /\ a[2] \in Prompts /\ a[3] \in Methods /\ a = <<a[1], a[2], a[3]>>
BY DEF IInv, Typed, ProcessesTyped, Processes

LEMMA NoneForgotten == ASSUME IInv, NoRequestForgotten, FoundKept PROVE NoRequestForgotten'
<1>1. SUFFICES ASSUME h'.slips = {}, NEW s \in Prompts, NEW a \in proc'[s].open
               PROVE  Found(s, a)'
  BY FoundAll
<1>2. a \in proc[s].open /\ h.slips = {}
  BY <1>1 DEF FoundKept, SlipsStay
<1>3. Found(s, a) /\ a[2] \in Prompts
  BY <1>2, AskerTyped, FoundAll
<1> QED BY <1>3, FoundStays DEF Found, FoundKept

LEMMA OpenedFinds ==
  ASSUME IInv, PlaceInv, FreshInv, TalkInv, NoRequestForgotten, NEW c \in Prompts, Opened(c)
  PROVE  NoRequestForgotten'
<1> USE NoneIsNoPrompt DEF IInv
<1>1. SUFFICES ASSUME h'.slips = {}, NEW s \in Prompts, NEW a \in proc[s].open
               PROVE  Found(s, a)'
  BY FoundAll DEF Opened
<1>2. PICK th \in Threads, n \in Prompts : th = call[c].th /\ n = Conversation(c)
  BY DEF Opened, Typed, CallsTyped, HasThread, Conversation, Calls, Servers
<1>3. /\ b' = [b EXCEPT !.threads[th] = c, !.byNative[n] = th] /\ UNCHANGED <<proc, respond>>
      /\ object' = [object EXCEPT ![c] = [newThread EXCEPT !.srv = call[c].srv]]
      /\ h.slips = {} /\ thread(th) = None /\ call[c].pc = "opening"
  BY <1>1, <1>2 DEF Opened, Typed, HistoryTyped
<1>4. call[n].th = th
  BY <1>2 DEF Conversation, TalkInv, NativeInv
<1>5. Found(s, a) /\ a[2] \in Prompts
  BY <1>3, AskerTyped, FoundAll
<1>6. CASE AtThread(a)
  <2>1. PICK x \in Threads : x = b.byNative[a[2]]
    BY <1>5, <1>6 DEF AtThread, Typed, BackendTyped
  <2>2. PICK t \in Prompts : t = thread(x)
    BY <1>6, <2>1 DEF AtThread, Typed, BackendTyped, thread, Servers
  <2>3. x # th /\ t # c
    BY <1>3, <2>2 DEF PlaceInv, OpenedInv, Before
  <2>4. a[2] # n
    BY <1>4, <1>5, <2>1, <2>3 DEF TalkInv, NativeInv
  <2>5. b'.byNative[a[2]] = x /\ b'.threads[x] = t
    BY <1>3, <1>5, <2>1, <2>2, <2>3, <2>4 DEF Typed, BackendTyped, thread
  <2>6. object'[t] = object[t]
    BY <1>3, <2>2, <2>3 DEF Typed, ObjectsTyped
  <2>7. AtThread(a)'
    BY <1>6, <2>1, <2>2, <2>5, <2>6 DEF AtThread, thread
  <2> QED BY <2>7 DEF Found
<1>7. CASE Unread(s, a) \/ InHands(a)
  BY <1>3, <1>7 DEF Found, Unread, InHands
<1> QED BY <1>5, <1>6, <1>7 DEF Found

LEMMA PromptFinds ==
  ASSUME IInv, PlaceInv, FreshInv, TalkInv, NoRequestForgotten, NEW c \in Prompts, PromptStep(c)
  PROVE  NoRequestForgotten'
<1> USE NoneIsNoPrompt DEF IInv
<1>0. /\ object \in [Prompts -> Objects] /\ proc \in [Prompts -> Processes]
      /\ h = [ended |-> h.ended, slips |-> h.slips, answered |-> h.answered, wrong |-> h.wrong]
  BY DEF Typed, ObjectsTyped, HistoryTyped, ProcessesTyped
<1>1. SUFFICES ASSUME ~Opened(c) PROVE FoundKept
  BY OpenedFinds, NoneForgotten
<1>2. /\ b'.byNative = b.byNative /\ b'.threads = b.threads /\ UNCHANGED respond /\ SlipsStay
  <2>1. UNCHANGED respond
    BY <1>1 DEF PromptStep, ensureServer, StartServer, Initialized, InitializeFails, StopReturns,
       StoreServer, openThread, Claim, CallFails, PromptReturns
  <2>2. SlipsStay
    BY <1>0, <1>1 DEF PromptStep, ensureServer, StartServer, Initialized, InitializeFails, StopReturns,
       StoreServer, openThread, Claim, CallFails, PromptReturns, SlipsStay
  <2>3. UNCHANGED b \/ Dial(c) \/ StopReturns(c) \/ StoreServer(c)
    BY <1>1 DEF PromptStep, ensureServer, StartServer, Initialized, InitializeFails,
       openThread, Claim, CallFails, PromptReturns
  <2>4. b'.byNative = b.byNative /\ b'.threads = b.threads
    BY <2>3 DEF Dial, StopReturns, StoreServer, Typed, BackendTyped
  <2> QED BY <2>1, <2>2, <2>4
<1>3. \A t \in Prompts : object'[t].pending = object[t].pending
  <2>1. CASE UNCHANGED object
    BY <2>1
  <2>2. CASE Claim(c) \/ CallFails(c) \/ PromptReturns(c)
    BY <1>0, <2>2 DEF Claim, CallFails, PromptReturns, setState, Objects
  <2> QED BY <1>1, <2>1, <2>2 DEF PromptStep, ensureServer, StartServer, Initialized, InitializeFails,
     StopReturns, StoreServer, openThread, Dial
<1>4. \A x \in Prompts : proc'[x].pipe = proc[x].pipe /\ proc'[x].open \subseteq proc[x].open
  <2>1. CASE UNCHANGED proc
    BY <2>1
  <2>2. CASE Dial(c)
    <3>1. /\ \A x \in Prompts \ {c} : proc'[x] = proc[x]
          /\ proc'[c] = [proc[c] EXCEPT !.alive = TRUE, !.inbox = {<<"initialize", c, None>>}]
      BY <1>0, <2>2 DEF Dial
    <3>2. proc'[c].pipe = proc[c].pipe /\ proc'[c].open = proc[c].open
      BY <1>0, <3>1 DEF Processes
    <3> QED BY <3>1, <3>2
  <2>3. CASE Killed(c)
    BY <2>3, KilledParts
  <2>4. CASE \E method : Request(c, method)
    BY <2>4, RequestParts
  <2> QED BY <1>1, <2>1, <2>2, <2>3, <2>4 DEF PromptStep, ensureServer, StartServer, Initialized,
       InitializeFails, StopReturns, StoreServer, openThread, Claim, CallFails, PromptReturns
<1> QED BY <1>2, <1>3, <1>4 DEF FoundKept, UnreadKept

\* What a read loop read, apart from requests, is no place of one.
LEMMA RestUnread ==
  ASSUME Typed, NEW s \in Prompts, proc[s].pipe # <<>>, NEW x \in Prompts, NEW line,
         \E k \in DOMAIN proc[x].pipe : proc[x].pipe[k] = line, x # s \/ line # Line(s)
  PROVE  \E k \in DOMAIN Rest(s)[x].pipe : Rest(s)[x].pipe[k] = line
<1>1. CASE x = s
  <2>1. Rest(s)[s].pipe = Tail(proc[s].pipe) /\ proc[s].pipe \in Seq(Lines)
    BY RestParts
  <2>2. line # Head(proc[s].pipe)
    BY <1>1 DEF Line
  <2>3. \A l : (\E k \in DOMAIN proc[s].pipe : proc[s].pipe[k] = l)
          => l = Head(proc[s].pipe) \/ \E k \in DOMAIN Tail(proc[s].pipe) : Tail(proc[s].pipe)[k] = l
    BY <2>1, TailAsks
  <2> QED BY <1>1, <2>1, <2>2, <2>3
<1>2. CASE x # s
  BY <1>2, RestParts
<1> QED BY <1>1, <1>2

LEMMA LoopFindsQuietly ==
  ASSUME IInv, NoRequestForgotten, NEW s \in Prompts,
         \/ resolve(s) \/ onUnknown(s) \/ onTurnStarted(s) \/ onTurnCompleted(s)
         \/ HandlerReturns(s) \/ readLoopEnds(s) \/ ExitTells(s)
  PROVE  NoRequestForgotten'
<1> USE NoneIsNoPrompt DEF IInv
<1>0. /\ object \in [Prompts -> Objects]
      /\ h = [ended |-> h.ended, slips |-> h.slips, answered |-> h.answered, wrong |-> h.wrong]
  BY DEF Typed, ObjectsTyped, HistoryTyped
<1>1. UNCHANGED <<b, respond>> /\ SlipsStay
  BY <1>0 DEF resolve, onUnknown, onTurnStarted, onTurnCompleted, HandlerReturns, readLoopEnds, ExitTells,
     Ended, SlipsStay
<1>2. \A t \in Prompts : object'[t].pending = object[t].pending
  <2>1. CASE onTurnCompleted(s)
    <3> DEFINE t == loop[s].t
               q == [object[t] EXCEPT !.turn = None, !.turnID = FALSE, !.interrupted = None]
    <3>1. t \in Prompts
      BY <2>1 DEF onTurnCompleted, Typed, LoopsTyped
    <3>2. object' = [object EXCEPT ![t] = q]
      BY <1>0, <2>1, <3>1 DEF onTurnCompleted
    <3>3. q.pending = object[t].pending
      BY <1>0, <3>1 DEF Objects
    <3> HIDE DEF q, t
    <3> QED BY <1>0, <3>2, <3>3
  <2>2. CASE resolve(s) \/ onUnknown(s) \/ onTurnStarted(s) \/ HandlerReturns(s) \/ readLoopEnds(s) \/ ExitTells(s)
    BY <1>0, <2>2 DEF resolve, onUnknown, onTurnStarted, HandlerReturns, readLoopEnds, ExitTells, setState, Objects
  <2> QED BY <2>1, <2>2
<1>3. \A x \in Prompts : UnreadKept(x) /\ proc'[x].open \subseteq proc[x].open
  <2>1. CASE UNCHANGED proc
    BY <2>1 DEF UnreadKept
  <2>2. CASE proc' = Rest(s) /\ proc[s].pipe # <<>> /\ Line(s)[1] # "request"
    <3>1. ASSUME NEW x \in Prompts, NEW line, line[1] = "request",
                 \E k \in DOMAIN proc[x].pipe : proc[x].pipe[k] = line
          PROVE  \E k \in DOMAIN proc'[x].pipe : proc'[x].pipe[k] = line
      <4>1. line # Line(s)
        BY <2>2, <3>1
      <4>2. \E k \in DOMAIN Rest(s)[x].pipe : Rest(s)[x].pipe[k] = line
        BY <2>2, <3>1, <4>1, RestUnread
      <4> QED BY <2>2, <4>2
    <3>2. \A x \in Prompts : UnreadKept(x)
      BY <3>1 DEF UnreadKept
    <3> QED BY <2>2, <3>2, RestAsks
  <2> QED BY <2>1, <2>2 DEF resolve, onUnknown, onTurnStarted, onTurnCompleted, HandlerReturns,
       readLoopEnds, ExitTells, HasLine
<1> QED BY <1>1, <1>2, <1>3, NoneForgotten DEF FoundKept

LEMMA onServerExitFinds ==
  ASSUME IInv, FreshInv, TalkInv, NEW s \in Prompts, onServerExit(s)
  PROVE  NoRequestForgotten'
<1>1. SUFFICES ASSUME h'.slips = {}, NEW x \in Prompts, NEW a \in proc[x].open
               PROVE  FALSE
  BY FoundAll DEF onServerExit
<1>2. h.slips = {} /\ b.server \in {None, s} /\ ~proc[s].alive
  BY <1>1 DEF onServerExit, IInv, ServerInv, DeadInv, Typed, HistoryTyped
<1>3. x = b.server /\ CanAnswer
  BY <1>1, <1>2, Waits
<1> QED BY <1>2, <1>3 DEF CanAnswer

LEMMA declineUnknownFinds ==
  ASSUME IInv, PlaceInv, FreshInv, TalkInv, NoRequestForgotten, NEW s \in Prompts, declineUnknown(s)
  PROVE  NoRequestForgotten'
<1> USE DEF IInv
<1>1. /\ UNCHANGED <<b, object, respond>> /\ proc[s].pipe # <<>> /\ Line(s)[1] = "request"
      /\ loop[s].at = "read"
  BY DEF declineUnknown, Declines, HasLine
<1>2. PICK id, m : id = Line(s)[3] /\ m = Line(s)[4]
  OBVIOUS
<1> DEFINE R == {<<id, Form(m)>>}
<1>3. AnswerAll(Rest(s), R) /\ Counted(s, R)
  BY <1>2 DEF declineUnknown
<1>4. Rest(s) \in [Prompts -> Processes] /\ h'.slips = h.slips
  BY <1>1, <1>3, RestParts, CountedParts
<1>5. SUFFICES ASSUME h.slips = {}, NEW x \in Prompts, NEW a \in proc'[x].open
               PROVE  Found(x, a)'
  BY <1>4, FoundAll
<1>6. \E q \in R : q[1] = id
  OBVIOUS
<1> HIDE DEF R
<1>7. a \in proc[x].open /\ proc'[x].pipe = Rest(s)[x].pipe
  <2>1. proc'[x].open \subseteq Rest(s)[x].open /\ proc'[x].pipe = Rest(s)[x].pipe
    BY <1>3, <1>4, AnswerParts
  <2>2. Rest(s)[x].open = proc[x].open
    BY <1>1, RestAsks
  <2> QED BY <1>5, <2>1, <2>2
<1>8. x = b.server /\ CanAnswer /\ a[2] \in Prompts
  BY <1>5, <1>7, Waits
<1>9. s = x
  BY <1>1, <1>5, <1>8, SpeakerIsServer DEF Late
<1>10. a[1] # id
  BY <1>3, <1>4, <1>5, <1>6, <1>8, AnswerParts
<1>11. Found(x, a)
  BY <1>5, <1>7, FoundAll
<1>12. CASE Unread(x, a)
  <2>0. PICK line : line = <<"request", a[2], a[1], a[3]>>
    OBVIOUS
  <2>1. line # Line(s)
    BY <1>2, <1>10, <2>0
  <2>2. \E k \in DOMAIN proc[x].pipe : proc[x].pipe[k] = line
    BY <1>12, <2>0 DEF Unread
  <2>3. \E k \in DOMAIN Rest(s)[x].pipe : Rest(s)[x].pipe[k] = line
    BY <1>1, <2>1, <2>2, RestUnread
  <2>4. Unread(x, a)'
    BY <1>7, <2>0, <2>3 DEF Unread
  <2> QED BY <2>4 DEF Found
<1>13. CASE AtThread(a) \/ InHands(a)
  BY <1>1, <1>13 DEF Found, AtThread, InHands, thread
<1> QED BY <1>11, <1>12, <1>13 DEF Found

LEMMA onRequestFinds ==
  ASSUME IInv, PlaceInv, FreshInv, TalkInv, NoRequestForgotten, NEW s \in Prompts, onRequest(s)
  PROVE  NoRequestForgotten'
<1> USE DEF IInv
<1>a. Line(s)[2] \in Prompts
  BY LineParts DEF onRequest, HasLine
<1>1. PICK th \in Threads, t \in Prompts : th = Owner(s) /\ t = Object(s)
  BY <1>a, NoneIsNoPrompt DEF onRequest, Declines, IsKnown, Object, Owner, thread, Typed, BackendTyped, Servers
<1>2. PICK id, m : id = Line(s)[3] /\ m = Line(s)[4]
  OBVIOUS
<1>3. /\ proc' = Rest(s) /\ UNCHANGED <<b, respond, h>> /\ proc[s].pipe # <<>> /\ Line(s)[1] = "request"
      /\ loop[s].at = "read" /\ object' = [object EXCEPT ![t].pending = object[t].pending \cup {<<id, m>>}]
  BY <1>1, <1>2 DEF onRequest, HasLine
<1>4. /\ \A u \in Prompts : object[u].pending \subseteq object'[u].pending
      /\ <<id, m>> \in object'[t].pending
  BY <1>3 DEF Typed, ObjectsTyped, Objects
<1>5. SUFFICES ASSUME h.slips = {}, NEW x \in Prompts, NEW a \in proc[x].open
               PROVE  Found(x, a)'
  <2>1. \A x \in Prompts : proc'[x].open = proc[x].open
    BY <1>3, RestAsks
  <2> QED BY <1>3, <1>5, <2>1, FoundAll
<1>6. Found(x, a) /\ a[2] \in Prompts
  BY <1>5, AskerTyped, FoundAll
<1>7. CASE Unread(x, a)
  <2>0. PICK line : line = <<"request", a[2], a[1], a[3]>>
    OBVIOUS
  <2>1. \E k \in DOMAIN proc[x].pipe : proc[x].pipe[k] = line
    BY <1>7, <2>0 DEF Unread
  <2>2. CASE x = s /\ line = Line(s)
    <3>1. a[1] = id /\ a[3] = m /\ b.byNative[a[2]] = th /\ thread(th) = t
      BY <1>1, <1>2, <2>0, <2>2 DEF Owner, Object
    <3>2. AtThread(a)'
      BY <1>3, <1>4, <3>1, NoneIsNoPrompt DEF AtThread, thread
    <3> QED BY <3>2 DEF Found
  <2>3. CASE x # s \/ line # Line(s)
    <3>1. \E k \in DOMAIN proc'[x].pipe : proc'[x].pipe[k] = line
      <4>1. Typed /\ proc[s].pipe # <<>> /\ (x # s \/ line # Line(s)) /\ proc' = Rest(s)
        BY <1>3, <2>3
      <4>2. \E k \in DOMAIN Rest(s)[x].pipe : Rest(s)[x].pipe[k] = line
        <5> HIDE DEF IInv
        <5> QED BY <2>1, <4>1, RestUnread
      <4> QED BY <4>1, <4>2
    <3>2. Unread(x, a)'
      BY <2>0, <3>1 DEF Unread
    <3> QED BY <3>2 DEF Found
  <2> QED BY <2>2, <2>3
<1>8. CASE AtThread(a) \/ InHands(a)
  BY <1>3, <1>4, <1>6, <1>8, FoundStays DEF Found
<1> QED BY <1>6, <1>7, <1>8 DEF Found

LEMMA resolveAllPendingFinds ==
  ASSUME IInv, PlaceInv, FreshInv, TalkInv, NoRequestForgotten, NEW s \in Prompts, resolveAllPending(s)
  PROVE  NoRequestForgotten'
<1> USE DEF IInv
<1>a. proc[s].pipe # <<>> /\ Line(s)[2] \in Prompts /\ Line(s)[1] = "turn/completed"
  BY LineParts DEF resolveAllPending, HasLine
<1>1. PICK t \in Prompts : t = Object(s)
  BY <1>a, NoneIsNoPrompt DEF resolveAllPending, IsKnown, Object, Owner, thread, Typed, BackendTyped, Servers
<1> DEFINE R == Results(object[t].pending)
<1>2. /\ AnswerAll(Rest(s), R) /\ Counted(object[t].srv, R) /\ UNCHANGED <<b, respond>>
      /\ object' = [object EXCEPT ![t].pending = {}]
  BY <1>1 DEF resolveAllPending
<1>3. \A p \in object[t].pending : \E q \in R : q[1] = p[1]
  <2>1. SUFFICES ASSUME NEW p \in object[t].pending PROVE \E q \in R : q[1] = p[1]
    OBVIOUS
  <2>2. <<p[1], approvalResult(p[2])>> \in R
    BY DEF Results
  <2> HIDE DEF R
  <2> QED BY <2>2
<1> HIDE DEF R
<1>4. Rest(s) \in [Prompts -> Processes] /\ h'.slips = h.slips
  BY <1>a, <1>2, RestParts, CountedParts
<1>5. \A u \in Prompts \ {t} : object'[u] = object[u]
  BY <1>2 DEF Typed, ObjectsTyped
<1>6. SUFFICES ASSUME h.slips = {}, NEW x \in Prompts, NEW a \in proc'[x].open
               PROVE  Found(x, a)'
  BY <1>4, FoundAll
<1>7. a \in proc[x].open /\ proc'[x].pipe = Rest(s)[x].pipe
  <2>1. proc'[x].open \subseteq Rest(s)[x].open /\ proc'[x].pipe = Rest(s)[x].pipe
    BY <1>2, <1>4, AnswerParts
  <2>2. Rest(s)[x].open = proc[x].open
    BY <1>a, RestAsks
  <2> QED BY <1>6, <2>1, <2>2
<1>8. x = b.server /\ CanAnswer /\ a[2] \in Prompts
  BY <1>6, <1>7, Waits
<1>9. \A q \in R : a[1] # q[1]
  BY <1>2, <1>4, <1>6, <1>8, AnswerParts
<1>10. Found(x, a)
  BY <1>6, <1>7, FoundAll
<1>11. CASE Unread(x, a)
  <2>0. PICK line : line = <<"request", a[2], a[1], a[3]>>
    OBVIOUS
  <2>1. line # Line(s)
    BY <1>a, <2>0
  <2>2. \E k \in DOMAIN proc[x].pipe : proc[x].pipe[k] = line
    BY <1>11, <2>0 DEF Unread
  <2>3. \E k \in DOMAIN Rest(s)[x].pipe : Rest(s)[x].pipe[k] = line
    <3>1. Typed /\ proc[s].pipe # <<>> /\ (x # s \/ line # Line(s))
      BY <1>a, <2>1
    <3> HIDE DEF IInv
    <3> QED BY <2>2, <3>1, RestUnread
  <2>4. Unread(x, a)'
    BY <1>7, <2>0, <2>3 DEF Unread
  <2> QED BY <2>4 DEF Found
<1>12. CASE AtThread(a)
  <2>1. PICK th \in Threads : th = b.byNative[a[2]]
    BY <1>8, <1>12, NoneIsNoPrompt DEF AtThread, Typed, BackendTyped
  <2>2. PICK u \in Prompts : u = thread(th) /\ <<a[1], a[3]>> \in object[u].pending
    BY <1>12, <2>1, NoneIsNoPrompt DEF AtThread, Typed, BackendTyped, thread, Servers
  <2>3. u # t
    BY <1>3, <1>9, <2>2
  <2>4. AtThread(a)'
    BY <1>2, <1>5, <1>12, <2>1, <2>2, <2>3 DEF AtThread, thread
  <2> QED BY <2>4 DEF Found
<1>13. CASE InHands(a)
  BY <1>2, <1>13 DEF Found, InHands
<1> QED BY <1>10, <1>11, <1>12, <1>13 DEF Found

LEMMA LoopFinds ==
  ASSUME IInv, PlaceInv, FreshInv, TalkInv, NoRequestForgotten, NEW s \in Prompts, LoopStep(s)
  PROVE  NoRequestForgotten'
BY onServerExitFinds, declineUnknownFinds, onRequestFinds, resolveAllPendingFinds, LoopFindsQuietly
   DEF LoopStep

Holds(pipe, line) == \E k \in DOMAIN pipe : pipe[k] = line

LEMMA WrittenHolds ==
  ASSUME NEW pipe \in Seq(Lines), NEW lines \in Seq(Lines), NEW line,
         Holds(pipe, line) \/ \E k \in DOMAIN lines : lines[k] = line
  PROVE  Holds(pipe \o lines, line)
<1> DEFINE all == pipe \o lines
<1>1. \A k \in DOMAIN pipe : k \in DOMAIN all /\ all[k] = pipe[k]
  OBVIOUS
<1>2. \A k \in DOMAIN lines : Len(pipe) + k \in DOMAIN all /\ all[Len(pipe) + k] = lines[k]
  OBVIOUS
<1> HIDE DEF all
<1>3. Holds(all, line)
  BY <1>1, <1>2 DEF Holds
<1> QED BY <1>3 DEF all

LEMMA WrittenKept ==
  ASSUME NEW x \in Prompts, proc[x].pipe \in Seq(Lines), NEW lines \in Seq(Lines),
         proc'[x].pipe = proc[x].pipe \o lines
  PROVE  UnreadKept(x)
<1>1. PICK pipe \in Seq(Lines) : pipe = proc[x].pipe
  OBVIOUS
<1>2. \A line : Holds(pipe, line) => Holds(pipe \o lines, line)
  BY WrittenHolds
<1> QED BY <1>1, <1>2 DEF UnreadKept, Holds

LEMMA RespondFinds ==
  ASSUME IInv, FreshInv, TalkInv, RespondInv, NoRequestForgotten, NEW o \in Owners, Respond(o)
  PROVE  NoRequestForgotten'
<1> USE DEF IInv
<1>1. /\ object \in [Prompts -> Objects] /\ proc \in [Prompts -> Processes] /\ UNCHANGED b
      /\ respond[o].th # None /\ respond' = [respond EXCEPT ![o] = NoResponse]
  BY DEF Typed, ObjectsTyped, ProcessesTyped, Respond
<1>2. \A p \in Owners \ {o} : respond'[p] = respond[p]
  BY <1>1 DEF RespondInv
<1>3. \A u \in Prompts : object'[u].pending = object[u].pending
  BY <1>1 DEF Respond, setState, Objects
<1>4. PICK p : p = respond[o].a
  OBVIOUS
<1> DEFINE R == Results({p})
<1>5. UNCHANGED proc \/ AnswerAll(proc, R)
  BY <1>4 DEF Respond
<1>6. CanAnswer => AnswerAll(proc, R)
  BY <1>4 DEF Respond
<1>7. h'.slips = h.slips
  BY CountedParts DEF Respond
<1>8. \E q \in R : q[1] = p[1]
  <2>1. <<p[1], approvalResult(p[2])>> \in R
    BY DEF Results
  <2> HIDE DEF R
  <2> QED BY <2>1
<1> HIDE DEF R
<1>9. \A x \in Prompts : proc'[x].pipe = proc[x].pipe /\ proc'[x].open \subseteq proc[x].open
  BY <1>1, <1>5, AnswerParts
<1>10. SUFFICES ASSUME h.slips = {}, NEW x \in Prompts, NEW a \in proc'[x].open
                PROVE  Found(x, a)'
  BY <1>7, FoundAll
<1>11. a \in proc[x].open
  BY <1>9, <1>10
<1>12. x = b.server /\ CanAnswer /\ a[2] \in Prompts
  BY <1>10, <1>11, Waits
<1>13. a[1] # p[1]
  BY <1>1, <1>6, <1>8, <1>10, <1>12, AnswerParts
<1>14. Found(x, a)
  BY <1>10, <1>11, FoundAll
<1>15. CASE Unread(x, a) \/ AtThread(a)
  BY <1>1, <1>3, <1>9, <1>12, <1>15, FoundStays DEF Found, UnreadKept
<1>16. CASE InHands(a)
  <2>1. PICK u \in Owners : respond[u].th # None /\ respond[u].a = <<a[1], a[3]>>
    BY <1>16 DEF InHands
  <2>2. u # o
    BY <1>4, <1>13, <2>1
  <2> QED BY <1>2, <2>1, <2>2 DEF Found, InHands
<1> QED BY <1>14, <1>15, <1>16 DEF Found

LEMMA RespondTakesFinds ==
  ASSUME IInv, RespondInv, NoRequestForgotten, NEW o \in Owners, NEW th \in Threads,
         NEW p \in Ids \X Methods, RespondTakes(o, th, p)
  PROVE  NoRequestForgotten'
<1> USE DEF IInv
<1>1. PICK t \in Prompts : t = thread(th)
  BY NoneIsNoPrompt DEF RespondTakes, Typed, BackendTyped, thread, Servers
<1>2. /\ respond[o].th = None
      /\ object' = [object EXCEPT ![t].pending = object[t].pending \ {p}]
      /\ respond' = [respond EXCEPT ![o] = [th |-> th, t |-> t, a |-> p, running |-> object[t].turn # None]]
      /\ UNCHANGED <<b, proc, h>>
  BY <1>1 DEF RespondTakes
<1>3. /\ \A u \in Prompts \ {t} : object'[u] = object[u]
      /\ object'[t].pending = object[t].pending \ {p}
  BY <1>2 DEF Typed, ObjectsTyped, Objects
<1>4. /\ \A u \in Owners \ {o} : respond'[u] = respond[u]
      /\ respond'[o].th = th /\ respond'[o].a = p
  BY <1>2 DEF RespondInv
<1>5. SUFFICES ASSUME h.slips = {}, NEW x \in Prompts, NEW a \in proc[x].open
               PROVE  Found(x, a)'
  BY <1>2, FoundAll
<1>6. Found(x, a) /\ a[2] \in Prompts
  BY <1>5, AskerTyped, FoundAll
<1>7. CASE Unread(x, a)
  BY <1>2, <1>7 DEF Found, Unread
<1>8. CASE AtThread(a)
  <2>1. PICK y \in Threads : y = b.byNative[a[2]]
    BY <1>6, <1>8, NoneIsNoPrompt DEF AtThread, Typed, BackendTyped
  <2>2. PICK u \in Prompts : u = thread(y) /\ <<a[1], a[3]>> \in object[u].pending
    BY <1>8, <2>1, NoneIsNoPrompt DEF AtThread, Typed, BackendTyped, thread, Servers
  <2>3. CASE <<a[1], a[3]>> = p
    BY <1>4, <2>3, NoneIsNoPrompt DEF Found, InHands
  <2>4. CASE <<a[1], a[3]>> # p
    <3>1. <<a[1], a[3]>> \in object'[u].pending
      BY <1>3, <2>2, <2>4
    <3>2. AtThread(a)'
      BY <1>2, <2>1, <2>2, <3>1, NoneIsNoPrompt DEF AtThread, thread
    <3> QED BY <3>2 DEF Found
  <2> QED BY <2>3, <2>4
<1>9. CASE InHands(a)
  BY <1>2, <1>4, <1>9 DEF Found, InHands
<1> QED BY <1>6, <1>7, <1>8, <1>9 DEF Found

LEMMA ServerAsksFinds ==
  ASSUME IInv, NoRequestForgotten, NEW s \in Prompts, NEW n \in Prompts, NEW method \in Methods,
         ServerAsks(s, n, method)
  PROVE  NoRequestForgotten'
<1> USE DEF IInv
<1>1. UNCHANGED <<b, object, respond, h>>
  BY DEF ServerAsks, ServerStep
<1>2. PICK id \in Ids : id = proc[s].asked + 1
  BY ServerAsksParts
<1> DEFINE pipe == proc[s].pipe
           line == <<"request", n, id, method>>
           lines == <<line>>
<1>3. /\ proc'[s].open = proc[s].open \cup {<<id, n, method>>} /\ proc'[s].pipe = pipe \o lines
      /\ \A x \in Prompts \ {s} : proc'[x] = proc[x]
  BY <1>2, ServerAsksParts
<1>4. pipe \in Seq(Lines)
  BY DEF Typed, ProcessesTyped, Processes
<1>5. lines \in Seq(Lines) /\ \E k \in DOMAIN lines : lines[k] = line
  BY <1>2 DEF Lines
<1> HIDE DEF lines
<1>6. UnreadKept(s) /\ Holds(proc'[s].pipe, line)
  <2>1. UnreadKept(s)
    BY <1>3, <1>4, <1>5, WrittenKept
  <2>2. Holds(pipe \o lines, line)
    BY <1>4, <1>5, WrittenHolds
  <2> QED BY <1>3, <2>1, <2>2
<1>a. \A x \in Prompts : UnreadKept(x)
  BY <1>3, <1>6 DEF UnreadKept
<1>7. SUFFICES ASSUME h.slips = {}, NEW x \in Prompts, NEW a \in proc'[x].open
               PROVE  Found(x, a)'
  BY <1>1, FoundAll
<1>8. CASE a \in proc[x].open
  <2>1. Found(x, a) /\ a[2] \in Prompts
    BY <1>7, <1>8, AskerTyped, FoundAll
  <2> QED BY <1>1, <1>a, <2>1, FoundStays DEF Found
<1>9. CASE x = s /\ a = <<id, n, method>>
  <2>1. a[1] = id /\ a[2] = n /\ a[3] = method
    BY <1>9
  <2>2. Unread(x, a)'
    BY <1>6, <1>9, <2>1 DEF Unread, Holds
  <2> QED BY <2>2 DEF Found
<1> QED BY <1>3, <1>7, <1>8, <1>9

LEMMA OutsideFinds ==
  ASSUME IInv, FreshInv, TalkInv, RespondInv, NoRequestForgotten, Outside
  PROVE  NoRequestForgotten'
<1> USE DEF IInv
<1>0. object \in [Prompts -> Objects] /\ UNCHANGED b /\ SlipsStay
  BY OutsideStays DEF Typed, ObjectsTyped
<1>1. ASSUME \A x \in Prompts : UnreadKept(x) /\ proc'[x].open \subseteq proc[x].open, UNCHANGED <<object, respond>>
      PROVE  NoRequestForgotten'
  BY <1>0, <1>1, NoneForgotten DEF FoundKept
<1>2. ASSUME NEW th \in Threads, Interrupt(th) PROVE NoRequestForgotten'
  <2>1. \A t \in Prompts : object'[t].pending = object[t].pending
    BY <1>0, <1>2 DEF Interrupt, Objects
  <2> QED BY <1>0, <1>2, <2>1, NoneForgotten DEF Interrupt, FoundKept, UnreadKept
<1>3. ASSUME NEW s \in Prompts, ServerDies(s) PROVE NoRequestForgotten'
  BY <1>1, <1>3, KilledParts DEF ServerDies, UnreadKept
<1>4. ASSUME NEW s \in Prompts, NEW m \in proc[s].inbox, ServerTakes(s, m) PROVE NoRequestForgotten'
  <2>1. PICK lines \in Seq(Lines) : /\ proc'[s].pipe = proc[s].pipe \o lines
                                    /\ \A k \in DOMAIN lines : lines[k][1] # "request"
                                    /\ m[1] = "initialize" => OnlyAnswers(lines)
    BY <1>4, ServerTakesParts
  <2>2. proc[s].pipe \in Seq(Lines)
    BY DEF Typed, ProcessesTyped, Processes
  <2>3. UnreadKept(s)
    BY <2>1, <2>2, WrittenKept
  <2>4. \A x \in Prompts : UnreadKept(x) /\ proc'[x].open \subseteq proc[x].open
    BY <1>4, <2>3, ServerTakesParts DEF UnreadKept
  <2> QED BY <1>1, <1>4, <2>4 DEF ServerTakes, ServerStep
<1>5. ASSUME NEW s \in Prompts, NEW n \in Prompts, ServerCompletes(s, n) PROVE NoRequestForgotten'
  <2>1. proc[s].pipe \in Seq(Lines)
    BY DEF Typed, ProcessesTyped, Processes
  <2> DEFINE lines == <<<<"turn/completed", n>>>>
  <2>2. lines \in Seq(Lines)
    BY DEF Lines
  <2>3. proc'[s].pipe = proc[s].pipe \o lines
    BY <1>5, ServerCompletesParts
  <2> HIDE DEF lines
  <2>4. UnreadKept(s)
    BY <2>1, <2>2, <2>3, WrittenKept
  <2>5. \A x \in Prompts : UnreadKept(x) /\ proc'[x].open \subseteq proc[x].open
    <3>1. /\ \A x \in Prompts \ {s} : proc'[x] = proc[x]
          /\ proc'[s].open \subseteq proc[s].open
      BY <1>5, ServerCompletesParts
    <3> QED BY <2>4, <3>1 DEF UnreadKept
  <2> QED BY <1>1, <1>5, <2>5 DEF ServerCompletes, ServerStep
<1>6. CASE UNCHANGED vars
  BY <1>1, <1>6 DEF vars, UnreadKept
<1> QED BY <1>2, <1>3, <1>4, <1>5, <1>6, RespondFinds, RespondTakesFinds, ServerAsksFinds DEF Outside, Ids

\* What is pending for a thread that is deleted is of its conversation, which
\* the server is told to give up.
LEMMA DiscardFinds ==
  ASSUME IInv, FreshInv, TalkInv, NoRequestForgotten, NEW th \in Threads, Discard(th)
  PROVE  NoRequestForgotten'
<1> USE DEF IInv
<1>1. PICK n : n = nativeOf[th]
  OBVIOUS
<1>2. /\ UNCHANGED <<object, respond, h>> /\ th \in known
      /\ \A m \in Prompts : b'.byNative[m] = IF m = n THEN None ELSE b.byNative[m]
      /\ \A y \in Threads : b'.threads[y] = IF y = th THEN None ELSE b.threads[y]
  BY <1>1 DEF Discard, Typed, BackendTyped
<1>3. SUFFICES ASSUME h.slips = {}, NEW x \in Prompts, NEW a \in proc'[x].open
               PROVE  Found(x, a)'
  BY <1>2, FoundAll
<1>4. a \in proc[x].open /\ proc'[x].pipe = proc[x].pipe
  BY <1>3, DiscardParts
<1>5. x = b.server /\ CanAnswer /\ a[2] \in Prompts /\ Used(a[2])
  BY <1>3, <1>4, Waits
<1>6. a[2] # n
  BY <1>1, <1>3, <1>5, DiscardParts
<1>7. Found(x, a)
  BY <1>3, <1>4, FoundAll
<1>8. CASE Unread(x, a) \/ InHands(a)
  BY <1>2, <1>4, <1>8 DEF Found, Unread, InHands
<1>9. CASE AtThread(a)
  <2>1. PICK y \in Threads : y = b.byNative[a[2]]
    BY <1>5, <1>9, NoneIsNoPrompt DEF AtThread, Typed, BackendTyped
  <2>2. call[a[2]].th = y
    BY <1>5, <2>1, NoneIsNoPrompt DEF TalkInv, NativeInv
  <2>3. y # th
    BY <1>1, <1>2, <1>3, <1>5, <1>6, <2>2 DEF TalkInv, UsedInv, Current
  <2>4. b'.byNative[a[2]] = y /\ b'.threads[y] = b.threads[y]
    BY <1>2, <1>5, <1>6, <2>1, <2>3
  <2>5. AtThread(a)'
    BY <1>2, <1>9, <2>1, <2>4 DEF AtThread, thread
  <2> QED BY <2>5 DEF Found
<1> QED BY <1>7, <1>8, <1>9 DEF Found

RequestInv == /\ PlaceInv /\ RespondInv /\ FreshInv /\ AskInv /\ TalkInv /\ NoRequestForgotten

LEMMA InitRequestInv == Init => RequestInv
<1>1. Init => NoRequestForgotten
  BY DEF Init, NoRequestForgotten, NoProcess
<1> QED BY <1>1, InitPlaceInv, InitRespondInv, InitFreshInv, InitAskInv, InitTalkInv DEF RequestInv

LEMMA NextRequestInv == IInv /\ RequestInv /\ [Next]_vars => RequestInv'
<1> SUFFICES ASSUME IInv, RequestInv, [Next]_vars PROVE RequestInv'
  OBVIOUS
<1>1. ASSUME NEW c \in Prompts, NEW th \in Threads, Arrive(c, th) PROVE NoRequestForgotten'
  BY <1>1, NoneForgotten DEF Arrive, FoundKept, UnreadKept, SlipsStay, RequestInv
<1>2. NoRequestForgotten'
  BY <1>1, PromptFinds, LoopFinds, OutsideFinds, DiscardFinds DEF Next, Outside, RequestInv
<1> QED BY <1>2, NextPlaceInv, NextRespondInv, NextFreshInv, NextAskInv, NextTalkInv DEF RequestInv

\* Whatever the server asks is answered once, in the form it asked for, and is
\* not forgotten while it waits: it is unread, at the thread it is for, or in
\* the hands of an owner; and where it is known, it is known as what it is.
THEOREM RequestsAreAnswered == Spec => []RequestsSound
<1>1. Init => IInv /\ RequestInv
  BY InitIInv, InitRequestInv
<1>2. IInv /\ RequestInv /\ [Next]_vars => (IInv /\ RequestInv)'
  BY NextIInv, NextRequestInv
<1>3. RequestInv => RequestsSound
  BY DEF RequestInv, AskInv, Late, RequestsSound, OneAnswerEach, AnswersFit
<1> QED BY <1>1, <1>2, <1>3, PTL DEF Spec
=============================================================================
