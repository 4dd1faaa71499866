---------------------------- MODULE CodexBackend ----------------------------
(***************************************************************************)
(* The Codex backend (agents/codex): one `codex app-server` process for    *)
(* every thread, started by the first prompt that needs it, forgotten with *)
(* all its live threads when it exits, and started again by the next       *)
(* prompt.  Prompts, answers to approvals and deletions come from request  *)
(* goroutines; everything the server says is handled, in order, by the one *)
(* read loop of its connection.                                            *)
(*                                                                         *)
(* What a prompt creates is named after it: the process it starts, the     *)
(* Codex conversation it opens and the *thread object it puts in the       *)
(* table.  What is done under one lock is one step.                        *)
(***************************************************************************)
EXTENDS Naturals, Sequences, FiniteSets

CONSTANTS Threads,  \* our thread ids
          Prompts,  \* the prompts the owner sends
          Owners,   \* request goroutines that answer approvals
          MaxAsks,  \* bound: approvals one server asks for
          MaxPipe,  \* bound: lines a server wrote that are not read yet
          None

ASSUME CodexAssumption == MaxAsks \in Nat /\ None \notin Threads \cup Prompts

VARIABLES
  nativeOf,  \* NativeID of each thread that has a record
  b,         \* the Backend: server, holder of starting, threads, byNative
  object,    \* the thread objects
  call,      \* the prompts under way
  proc,      \* the app-server processes and what they wrote
  loop,      \* the read loop of each process
  respond,   \* the answers under way
  h          \* history: cards open, answers received, turns ended, mishaps

vars == <<nativeOf, b, object, call, proc, loop, respond, h>>

\* interrupted names the turn the mark was put on; the code keeps a boolean.
newThread == [turn |-> None, turnID |-> FALSE, pending |-> {}, interrupted |-> None,
              state |-> "idle", srv |-> None]
NoCall == [pc |-> "new", th |-> None, nat |-> None, srv |-> None, t |-> None,
           answered |-> FALSE]
NoProcess == [alive |-> FALSE, inbox |-> {}, pipe |-> <<>>, convs |-> {},
              work |-> {}, asked |-> 0, open |-> {}]
NoResponse == [th |-> None, t |-> None, a |-> <<>>, running |-> FALSE]
NotStarted == [at |-> "none", th |-> None, t |-> None, to |-> "idle", lost |-> {}]
AtRead == [NotStarted EXCEPT !.at = "read"]

Init ==
  /\ nativeOf = [th \in Threads |-> None]
  /\ b = [server |-> None, starting |-> None,
          threads |-> [th \in Threads |-> None], byNative |-> [n \in Prompts |-> None]]
  /\ object = [t \in Prompts |-> newThread]
  /\ call = [c \in Prompts |-> NoCall]
  /\ proc = [s \in Prompts |-> NoProcess]
  /\ loop = [s \in Prompts |-> NotStarted]
  /\ respond = [o \in Owners |-> NoResponse]
  /\ h = [ended |-> {}, slips |-> {},
          answered |-> {}, wrong |-> {}]

known == DOMAIN nativeOf
thread(th) == b.threads[th]
Goto(c, pc) == call' = [call EXCEPT ![c].pc = pc]
Return(c, pc) == call' = [call EXCEPT ![c] = [NoCall EXCEPT !.pc = pc, !.th = call[c].th]]
setState(th, state) ==
  object' = IF thread(th) = None THEN object
            ELSE [object EXCEPT ![thread(th)].state = state]

-----------------------------------------------------------------------------
(* Prompt, with ensureServer and openThread                                *)

Arrive(c, th) ==
  LET t == thread(th) IN
  /\ call[c].pc = "new" /\ th \in known
  /\ call' = [call EXCEPT ![c] =
       IF t # None /\ object[t].turn # None
         THEN [NoCall EXCEPT !.th = th, !.pc = "failed"]
         ELSE [NoCall EXCEPT !.th = th, !.pc = "ensure", !.nat = nativeOf[th]]]
  /\ UNCHANGED <<nativeOf, b, object, proc, loop, respond, h>>

HasServer(c) == call' = [call EXCEPT ![c].pc = "open", ![c].srv = b.server]

ensureServer(c) ==
  /\ call[c].pc = "ensure"
  /\ IF b.server # None THEN HasServer(c) ELSE Goto(c, "lock")
  /\ UNCHANGED <<nativeOf, b, object, proc, loop, respond, h>>

\* A process is up and initialize is sent to it.
Dial(c) ==
  /\ b' = [b EXCEPT !.starting = c]
  /\ proc' = [proc EXCEPT ![c].alive = TRUE, ![c].inbox = {<<"initialize", c, None>>}]
  /\ call' = [call EXCEPT ![c].pc = "initialize", ![c].srv = c]
  /\ loop' = [loop EXCEPT ![c] = AtRead]

\* Mistake: no second look at b.server under the mutex.
MistakeStartServer(c) ==
  /\ call[c].pc = "lock" /\ b.starting = None /\ Dial(c)
  /\ UNCHANGED <<nativeOf, object, respond, h>>

\* The second look is taken under the mutex; dial may fail.
StartServer(c) ==
  /\ call[c].pc = "lock" /\ b.starting = None
  /\ \/ b.server # None /\ HasServer(c) /\ UNCHANGED <<b, proc, loop>>
     \/ b.server = None /\ Return(c, "failed") /\ UNCHANGED <<b, proc, loop>>
     \/ b.server = None /\ Dial(c)
  /\ UNCHANGED <<nativeOf, object, respond, h>>

\* A process that is stopped, or dies, drops what it was working on; what it
\* wrote stays readable.
Killed(s) == proc' = [proc EXCEPT ![s] =
  [NoProcess EXCEPT !.pipe = proc[s].pipe, !.asked = proc[s].asked]]

\* initialize answered, and `initialized` written to a process that lives.
Initialized(c) ==
  /\ call[c].pc = "initialize" /\ call[c].answered /\ proc[c].alive
  /\ call' = [call EXCEPT ![c].pc = "store", ![c].answered = FALSE]
  /\ UNCHANGED <<nativeOf, b, object, proc, loop, respond, h>>

InitializeFails(c) ==
  /\ call[c].pc = "initialize" /\ Goto(c, "stop") /\ Killed(c)
  /\ UNCHANGED <<nativeOf, b, object, loop, respond, h>>

\* stop returns when the read loop has closed `done`, before it calls onExit.
StopReturns(c) ==
  /\ call[c].pc = "stop" /\ loop[c].at \in {"closed", "lost", "gone"}
  /\ b' = [b EXCEPT !.starting = None] /\ Return(c, "failed")
  /\ UNCHANGED <<nativeOf, object, proc, loop, respond, h>>

StoreServer(c) ==
  /\ call[c].pc = "store" /\ Goto(c, "open")
  /\ b' = [b EXCEPT !.server = c, !.starting = None]
  /\ UNCHANGED <<nativeOf, object, proc, loop, respond, h>>

\* thread/start makes a conversation of its own.
Conversation(c) == IF call[c].nat = None THEN c ELSE call[c].nat

\* What a dead process cannot take, CallFails ends.
Request(c, method) ==
  LET s == call[c].srv IN
  proc' = [proc EXCEPT ![s].inbox =
    IF proc[s].alive THEN @ \cup {<<method, c, Conversation(c)>>} ELSE @]

openThread(c) ==
  /\ call[c].pc = "open"
  /\ IF thread(call[c].th) # None /\ call[c].nat # None
       THEN Goto(c, "claim") /\ UNCHANGED proc
       ELSE Goto(c, "opening") /\ Request(c, "thread/start")
  /\ UNCHANGED <<nativeOf, b, object, loop, respond, h>>

Opened(c) ==
  LET th == call[c].th
      n  == Conversation(c)
  IN
  /\ call[c].pc = "opening" /\ call[c].answered
  /\ call' = [call EXCEPT ![c].pc = "claim", ![c].nat = n, ![c].answered = FALSE]
  /\ b' = [b EXCEPT !.threads[th] = c, !.byNative[n] = th]
  /\ object' = [object EXCEPT ![c] = [newThread EXCEPT !.srv = call[c].srv]]
  /\ nativeOf' = IF th \in known THEN [nativeOf EXCEPT ![th] = n] ELSE nativeOf
  /\ h' = IF thread(th) = None /\ (th \in known => nativeOf[th] \in {None, n}) THEN h
          ELSE [h EXCEPT !.slips = @ \cup {"replaced"}]
  /\ UNCHANGED <<proc, loop, respond>>

\* Mistake: the mark of an earlier turn stays.
MistakeClaim(c) ==
  LET t == thread(call[c].th) IN
  /\ call[c].pc = "claim" /\ t # None
  /\ object' = [object EXCEPT ![t].turn = c]
  /\ call' = [call EXCEPT ![c].pc = "turn", ![c].t = t]
  /\ Request(c, "turn/start")
  /\ UNCHANGED <<nativeOf, b, loop, respond, h>>

\* The thread is looked up again.  When it is gone the code dereferences nil:
\* the request's goroutine panics and the prompt is never answered.
Claim(c) ==
  LET t == thread(call[c].th) IN
  /\ call[c].pc = "claim"
  /\ IF t = None
       THEN Return(c, "panicked") /\ UNCHANGED <<object, proc, h>>
       ELSE /\ object' = [object EXCEPT ![t].turn = c, ![t].interrupted = None]
            /\ call' = [call EXCEPT ![c].pc = "turn", ![c].t = t]
            /\ Request(c, "turn/start")
            /\ h' = IF object[t].turn = None THEN h
                    ELSE [h EXCEPT !.slips = @ \cup {"overlap"}]
  /\ UNCHANGED <<nativeOf, b, loop, respond>>

\* An error answer, the process gone, the timer, or the caller going away.
CallFails(c) ==
  /\ call[c].pc \in {"opening", "turn"} /\ Return(c, "failed")
  /\ IF call[c].pc = "turn"
       THEN /\ object' = [object EXCEPT ![call[c].t].turn = None]
            /\ h' = IF object[call[c].t].turn \in {c, None} THEN h
                    ELSE [h EXCEPT !.slips = @ \cup {"overlap"}]
       ELSE UNCHANGED <<object, h>>
  /\ UNCHANGED <<nativeOf, b, proc, loop, respond>>

PromptReturns(c) ==
  /\ call[c].pc = "turn" /\ call[c].answered /\ Return(c, "returned")
  /\ setState(call[c].th, "running")
  /\ UNCHANGED <<nativeOf, b, proc, loop, respond, h>>

-----------------------------------------------------------------------------
(* Interrupt, Respond, Discard                                             *)

\* live, and the mark.  turn/interrupt asks the server for what it may do at any
\* time, to complete the turn, so the call itself changes nothing here.
Interrupt(th) ==
  LET t == thread(th) IN
  /\ th \in known /\ b.server # None /\ t # None /\ nativeOf[th] # None
  /\ object[t].turn # None
  /\ object' = [object EXCEPT ![t].interrupted = object[t].turn]
  /\ UNCHANGED <<nativeOf, b, call, proc, loop, respond, h>>

\* What the server may ask, and the form of the result each is answered with.
Methods == {"approval", "question", "no question"}
approvalPayload(method) == method # "no question"
Form(method) == IF method = "approval" THEN "decision" ELSE "answers"
approvalResult(method) == Form(method)

CanAnswer == b.server # None /\ proc[b.server].alive
\* Results R, of requests by id, written to the server stored now.
AnswerAll(p, R) ==
  proc' = IF CanAnswer
            THEN [p EXCEPT ![b.server].open = {a \in @ : \A q \in R : a[1] # q[1]}] ELSE p
\* Of these, the ones that reach server s, which asked: answered before, or not
\* in the form it asked for.
Counted(s, R) ==
  LET mine == IF CanAnswer /\ s = b.server THEN {<<s, q[1]>> : q \in R} ELSE {}
      bad == {q \in R : mine # {} /\ \E a \in proc[s].open : a[1] = q[1] /\ q[2] # Form(a[3])}
  IN
  h' = [h EXCEPT !.answered = @ \cup mine,
                 !.wrong = @ \cup (IF mine \cap h.answered # {} THEN {"twice"} ELSE {})
                             \cup (IF bad # {} THEN {"form"} ELSE {})]
Results(pending) == {<<a[1], approvalResult(a[2])>> : a \in pending}

\* Mistake: the approval is read and stays pending.
MistakeRespondTakes(o, th, a) ==
  LET t == thread(th) IN
  /\ respond[o].th = None /\ t # None /\ a \in object[t].pending
  /\ respond' = [respond EXCEPT ![o] =
       [th |-> th, t |-> t, a |-> a, running |-> object[t].turn # None]]
  /\ UNCHANGED <<nativeOf, b, object, call, proc, loop, h>>

RespondTakes(o, th, a) ==
  LET t == thread(th) IN
  /\ respond[o].th = None /\ t # None /\ a \in object[t].pending
  /\ object' = [object EXCEPT ![t].pending = @ \ {a}]
  /\ respond' = [respond EXCEPT ![o] =
       [th |-> th, t |-> t, a |-> a, running |-> object[t].turn # None]]
  /\ UNCHANGED <<nativeOf, b, call, proc, loop, h>>

Respond(o) ==
  LET r == respond[o] IN
  /\ r.th # None /\ respond' = [respond EXCEPT ![o] = NoResponse]
  /\ IF CanAnswer
       THEN /\ AnswerAll(proc, Results({r.a})) /\ Counted(object[r.t].srv, Results({r.a}))
            /\ IF r.running THEN setState(r.th, "running") ELSE UNCHANGED object
       ELSE UNCHANGED <<proc, h, object>>
  /\ UNCHANGED <<nativeOf, b, call, loop>>

Discard(th) ==
  LET n == nativeOf[th] IN
  /\ th \in known /\ nativeOf' = [x \in known \ {th} |-> nativeOf[x]]
  /\ b' = [b EXCEPT !.threads[th] = None,
                    !.byNative = [m \in Prompts |-> IF m = n THEN None ELSE @[m]]]
  /\ proc' = IF CanAnswer
               THEN [proc EXCEPT ![b.server].work = @ \ {n}, ![b.server].convs = @ \ {n},
                                 ![b.server].open = {a \in @ : a[2] # n}]
               ELSE proc
  /\ UNCHANGED <<object, call, loop, respond, h>>

-----------------------------------------------------------------------------
(* The app-server (external)                                               *)

ServerStep(s, p, lines) ==
  /\ proc[s].alive /\ Len(proc[s].pipe) + Len(lines) <= MaxPipe
  /\ proc' = [proc EXCEPT ![s] = [p EXCEPT !.pipe = @ \o lines]]
  /\ UNCHANGED <<nativeOf, b, object, call, loop, respond, h>>

ServerTakes(s, m) ==
  LET n == m[3]
      answer == <<<<"answer", m[2]>>>>
      p == [proc[s] EXCEPT !.inbox = @ \ {m}]
  IN
  /\ m \in proc[s].inbox
  /\ \/ m[1] = "initialize" /\ ServerStep(s, p, answer)
     \/ m[1] = "thread/start" /\ ServerStep(s, [p EXCEPT !.convs = @ \cup {n}], answer)
     \/ /\ m[1] = "turn/start" /\ n \in proc[s].convs \ proc[s].work
        /\ ServerStep(s, [p EXCEPT !.work = @ \cup {n}],
                      answer \o <<<<"turn/started", n>>>>)

ServerAsks(s, n, method) ==
  LET id == proc[s].asked + 1 IN
  /\ n \in proc[s].work /\ id \in 1..MaxAsks
  /\ ServerStep(s, [proc[s] EXCEPT !.asked = id, !.open = @ \cup {<<id, n, method>>}],
                <<<<"request", n, id, method>>>>)

ServerCompletes(s, n) ==
  /\ n \in proc[s].work
  /\ ServerStep(s, [proc[s] EXCEPT !.work = @ \ {n}, !.open = {a \in @ : a[2] # n}],
                <<<<"turn/completed", n>>>>)

ServerDies(s) ==
  /\ proc[s].alive /\ Killed(s)
  /\ UNCHANGED <<nativeOf, b, object, call, loop, respond, h>>

-----------------------------------------------------------------------------
(* The read loop                                                           *)

Line(s) == Head(proc[s].pipe)
HasLine(s, kind) == loop[s].at = "read" /\ proc[s].pipe # <<>> /\ Line(s)[1] = kind
Rest(s) == [proc EXCEPT ![s].pipe = Tail(@)]
\* The thread a notification or a request is for, and its object.
Owner(s) == b.byNative[Line(s)[2]]
Object(s) == thread(Owner(s))
IsKnown(s) == Owner(s) # None /\ Object(s) # None
Then(s, at, to) == loop' = [loop EXCEPT ![s] =
  [@ EXCEPT !.at = at, !.th = Owner(s), !.t = Object(s), !.to = to]]

resolve(s) ==
  LET c == Line(s)[2] IN
  /\ HasLine(s, "answer") /\ proc' = Rest(s)
  /\ call' = IF call[c].pc \in {"initialize", "opening", "turn"}
               THEN [call EXCEPT ![c].answered = TRUE] ELSE call
  /\ UNCHANGED <<nativeOf, b, object, loop, respond, h>>

onUnknown(s) ==
  /\ HasLine(s, "turn/started") \/ HasLine(s, "turn/completed")
  /\ ~IsKnown(s) /\ proc' = Rest(s)
  /\ UNCHANGED <<nativeOf, b, object, call, loop, respond, h>>

Declines(s) == HasLine(s, "request") /\ ~(IsKnown(s) /\ approvalPayload(Line(s)[4]))

\* Mistake: what nothing can be done with is dropped.
MistakeDeclineUnknown(s) ==
  /\ Declines(s) /\ proc' = Rest(s)
  /\ UNCHANGED <<nativeOf, b, object, call, loop, respond, h>>

\* Mistake: whatever was asked is declined as an approval.
MistakeDeclineForm(s) ==
  LET R == {<<Line(s)[3], "decision">>} IN
  /\ Declines(s) /\ AnswerAll(Rest(s), R) /\ Counted(s, R)
  /\ UNCHANGED <<nativeOf, b, object, call, loop, respond>>

declineUnknown(s) ==
  LET R == {<<Line(s)[3], Form(Line(s)[4])>>} IN
  /\ Declines(s) /\ AnswerAll(Rest(s), R) /\ Counted(s, R)
  /\ UNCHANGED <<nativeOf, b, object, call, loop, respond>>

onTurnStarted(s) ==
  /\ HasLine(s, "turn/started") /\ IsKnown(s) /\ proc' = Rest(s)
  /\ object' = [object EXCEPT ![Object(s)].turnID = TRUE]
  /\ Then(s, "setState", "running")
  /\ UNCHANGED <<nativeOf, b, call, respond, h>>

onRequest(s) ==
  LET a == <<Line(s)[3], Line(s)[4]>> IN
  /\ HasLine(s, "request") /\ ~Declines(s) /\ proc' = Rest(s)
  /\ object' = [object EXCEPT ![Object(s)].pending = @ \cup {a}]
  /\ Then(s, "setState", "waiting_input")
  /\ UNCHANGED <<nativeOf, b, call, respond, h>>

resolveAllPending(s) ==
  LET t == Object(s) IN
  /\ HasLine(s, "turn/completed") /\ IsKnown(s)
  /\ AnswerAll(Rest(s), Results(object[t].pending))
  /\ Counted(object[t].srv, Results(object[t].pending))
  /\ object' = [object EXCEPT ![t].pending = {}]
  /\ Then(s, "finish", "idle")
  /\ UNCHANGED <<nativeOf, b, call, respond>>

Ended(t) == h' = [h EXCEPT
  !.ended = @ \cup ({object[t].turn} \ {None}),
  !.wrong = @ \cup (IF h.slips = {} /\ object[t].turn # None
                        /\ object[t].interrupted \notin {None, object[t].turn}
                      THEN {"interrupted"} ELSE {})]

\* Mistake: the server's id of the turn stays.
MistakeOnTurnCompleted(s) ==
  LET t == loop[s].t IN
  /\ loop[s].at = "finish"
  /\ object' = [object EXCEPT ![t].turn = None] /\ Ended(t)
  /\ loop' = [loop EXCEPT ![s].at = "setState"]
  /\ UNCHANGED <<nativeOf, b, call, proc, respond>>

onTurnCompleted(s) ==
  LET t == loop[s].t IN
  /\ loop[s].at = "finish"
  /\ object' = [object EXCEPT ![t].turn = None, ![t].turnID = FALSE, ![t].interrupted = None]
  /\ Ended(t)
  /\ loop' = [loop EXCEPT ![s].at = "setState"]
  /\ UNCHANGED <<nativeOf, b, call, proc, respond>>

HandlerReturns(s) ==
  /\ loop[s].at = "setState" /\ setState(loop[s].th, loop[s].to)
  /\ loop' = [loop EXCEPT ![s] = AtRead]
  /\ UNCHANGED <<nativeOf, b, call, proc, respond, h>>

readLoopEnds(s) ==
  /\ loop[s].at = "read" /\ proc[s].pipe = <<>> /\ ~proc[s].alive
  /\ loop' = [loop EXCEPT ![s].at = "closed"]
  /\ UNCHANGED <<nativeOf, b, object, call, proc, respond, h>>

onServerExit(s) ==
  /\ loop[s].at = "closed"
  /\ b' = [b EXCEPT !.server = None, !.threads = [th \in Threads |-> None]]
  /\ loop' = [loop EXCEPT ![s].at = "lost",
                          ![s].lost = {thread(th) : th \in Threads} \ {None}]
  /\ h' = IF b.server \in {None, s} THEN h
          ELSE [h EXCEPT !.slips = @ \cup {"lateExit"}]
  /\ UNCHANGED <<nativeOf, object, call, proc, respond>>

\* Mistake: only a thread that lost an approval is told.
MistakeExitTells(s) ==
  /\ loop[s].at = "lost"
  /\ h' = [h EXCEPT !.ended = @ \cup
       ({object[t].turn : t \in {u \in loop[s].lost : object[u].pending # {}}} \ {None})]
  /\ loop' = [loop EXCEPT ![s].at = "gone", ![s].lost = {}]
  /\ UNCHANGED <<nativeOf, b, object, call, proc, respond>>

\* A fatal stream_error for every lost thread that had a turn.
ExitTells(s) ==
  /\ loop[s].at = "lost"
  /\ h' = [h EXCEPT !.ended = @ \cup ({object[t].turn : t \in loop[s].lost} \ {None})]
  /\ loop' = [loop EXCEPT ![s].at = "gone", ![s].lost = {}]
  /\ UNCHANGED <<nativeOf, b, object, call, proc, respond>>

-----------------------------------------------------------------------------
PromptStep(c) ==
  \/ ensureServer(c) \/ StartServer(c) \/ Initialized(c) \/ InitializeFails(c)
  \/ StopReturns(c) \/ StoreServer(c) \/ openThread(c) \/ Opened(c) \/ Claim(c)
  \/ CallFails(c) \/ PromptReturns(c)

LoopStep(s) ==
  \/ resolve(s) \/ onUnknown(s) \/ declineUnknown(s) \/ onTurnStarted(s) \/ onRequest(s)
  \/ resolveAllPending(s) \/ onTurnCompleted(s) \/ HandlerReturns(s)
  \/ readLoopEnds(s) \/ onServerExit(s) \/ ExitTells(s)

Next ==
  \/ \E c \in Prompts : PromptStep(c) \/ LoopStep(c) \/ ServerDies(c)
  \/ \E c \in Prompts, th \in Threads : Arrive(c, th)
  \/ \E o \in Owners : \/ Respond(o)
                       \/ \E th \in Threads, n \in 1..MaxAsks, method \in Methods :
                             RespondTakes(o, th, <<n, method>>)
  \/ \E th \in Threads : Discard(th) \/ Interrupt(th)
  \/ \E s \in Prompts : \E m \in proc[s].inbox : ServerTakes(s, m)
  \/ \E s, n \in Prompts : \/ ServerCompletes(s, n)
                         \/ \E method \in Methods : ServerAsks(s, n, method)

Spec == Init /\ [][Next]_vars

-----------------------------------------------------------------------------
Servers == Prompts \cup {None}
TypeOK ==
  /\ known \subseteq Threads /\ \A th \in known : nativeOf[th] \in Servers
  /\ b \in [server : Servers, starting : Servers, threads : [Threads -> Servers],
            byNative : [Prompts -> Threads \cup {None}]]
  /\ object \in [Prompts -> [turn : Servers, turnID : BOOLEAN, interrupted : Servers,
                             pending : SUBSET ((1..MaxAsks) \X Methods),
                             state : {"idle", "running", "waiting_input"}, srv : Servers]]
  /\ \A c \in Prompts : call[c].pc \in {"turn"} => call[c].t \in Prompts
  /\ h.ended \subseteq Prompts

\* One app-server at a time: the mutex and the second look under it, and
\* onServerExit, keep a burst of prompts, retries and deaths from leaving two
\* running.  The exception is the window in which the exit of a start that
\* failed is handled after the next server took its place.
OneServer ==
  "lateExit" \in h.slips \/ Cardinality({s \in Prompts : proc[s].alive}) <= 1

\* The server is never left blocked on a reply that will not come: a request
\* it still waits on is unread, or among those its thread can still answer, or
\* in the hands of an owner.
NoRequestForgotten ==
  h.slips = {} =>
    \A s \in Prompts : \A a \in proc[s].open :
      \/ \E i \in DOMAIN proc[s].pipe : proc[s].pipe[i] = <<"request", a[2], a[1], a[3]>>
      \/ LET th == b.byNative[a[2]] IN
           /\ th # None /\ thread(th) # None /\ <<a[1], a[3]>> \in object[thread(th)].pending
      \/ \E o \in Owners : respond[o].th # None /\ respond[o].a = <<a[1], a[3]>>

\* A request gets at most one answer of those meant for it, whoever answers:
\* two owners, the end of the turn, or both at once.  (After a late exit two
\* servers live, and an answer may reach the one that did not ask.)
OneAnswerEach == "lateExit" \in h.slips \/ "twice" \notin h.wrong

\* A request is answered in the form it was made, by the owner, by the end of
\* its turn or because nothing can be done with it: a question never gets a
\* decision, nor an approval a list of answers.
AnswersFit == "lateExit" \in h.slips \/ "form" \notin h.wrong

\* A turn told as interrupted is one the owner interrupted, however prompts that
\* failed and turns that ended came between.
InterruptedIsTheOwners == "interrupted" \notin h.wrong

\* A prompt that was accepted ends with an event: its turn is still claimed by
\* the thread, or its end, or the fatal error of the server's exit, was told.
\* (Two prompts that overlap on one thread break it: the README's windows.)
NoTurnIsDropped ==
  h.slips = {} =>
    \A c \in Prompts :
      call[c].pc = "returned" /\ c \notin h.ended /\ call[c].th \in known =>
        \E t \in Prompts : /\ object[t].turn = c
                           /\ t = thread(call[c].th) \/ \E s \in Prompts : t \in loop[s].lost

\* A turn the server reported started keeps its row off idle until the server
\* reports it completed, however the prompt, the answers and the end of an
\* earlier turn set the state meanwhile; the handler that saw it start has yet
\* to set the state, at most.  (After a late exit a server that was forgotten
\* still speaks, and ends turns of the next one's.)
StartedIsNotIdle ==
  \/ "lateExit" \in h.slips
  \/ \A th \in Threads : thread(th) # None =>
       LET t == object[thread(th)] IN
       t.turnID /\ t.state = "idle" =>
         \E s \in Prompts : loop[s].at = "setState" /\ loop[s].to # "idle" /\ loop[s].th = th

\* Types, and one server for all threads.
ServersSound == TypeOK /\ OneServer

\* Whatever the server asks is answered: once, in its form, and not forgotten.
RequestsSound == NoRequestForgotten /\ OneAnswerEach /\ AnswersFit

\* Every turn that was accepted is told to its end, as what it was.
TurnsTold == NoTurnIsDropped /\ InterruptedIsTheOwners
=============================================================================
