--------------------------- MODULE ClaudeSession ---------------------------
(***************************************************************************)
(* One thread's session with the `claude` CLI                              *)
(* (backend/internal/agents/claudecode/session.go), together with the      *)
(* goroutines of the backend that reach into it: the HTTP handlers that    *)
(* prompt, answer and discard, the idle reaper, the read loop of each      *)
(* subprocess, and one waiter per request put to the owner.                *)
(*                                                                         *)
(* session.mu guards the fields, but every operation takes it several      *)
(* times: an action is what happens between two releases.  The channel to  *)
(* a subprocess is ControlChannel; here it is ready, and then gone.        *)
(***************************************************************************)
EXTENDS Naturals, Sequences, FiniteSets

CONSTANTS Prompts,      \* the prompts sent to the thread
          Efforts,      \* the values of the effort option
          Requests,     \* the can_use_tool requests the CLI may make
          Owners,       \* the owner's tabs that may answer them
          MaxInFlight,  \* bound: prompts being handled at the same time
          MaxProcs,     \* bound: subprocesses started in a run
          MaxDeaths,    \* bound: subprocesses that end by themselves
          MaxReaps,     \* bound: subprocesses the reaper stops
          MaxOwnTurns,  \* bound: turns the CLI opens by itself
          MaxDiscards,  \* bound: 1 when the thread may be deleted, or 0
          MaxInterrupts \* bound: 1 when the owner may interrupt turns, or 0

ASSUME SessionAssumption ==
    /\ {MaxInFlight, MaxProcs, MaxDeaths, MaxReaps, MaxOwnTurns} \subseteq Nat
    /\ {MaxDiscards, MaxInterrupts} \subseteq {0, 1}
    /\ {"none", "own"} \cap Prompts = {}
    /\ {"the turn ended", "unsettled"} \cap Owners = {}

Procs == 1..MaxProcs
NoProc == 0

VARIABLES
    \* the session's fields
    proc,      \* session.proc
    launched,  \* session.launchedEffort
    turn,      \* session.turn and session.running in one: "none" when no turn
               \* runs, "own" for a turn the CLI opened
    state,     \* session.state
    working,   \* session.backgroundTasks holds a task that is not ambient
    quiet,     \* session.lastActive is longer ago than the idle timeout
    interrupted, \* the turn session.interrupted was set for; the code has a
                 \* boolean, which is FALSE for "none"
    \* the goroutines inside prompt
    at, wants, inHand,
    \* the subprocesses and their read loops
    born,      \* how many were started
    alive,     \* those that still run
    hungUp,    \* those whose stdin we closed
    inbox,     \* the prompts written to each
    cli,       \* the turn each of them is in
    ready,     \* those that answered initialize
    reader,    \* where its read loop is
    held,      \* what the read loop holds between two steps
    \* the requests to the owner
    pending,   \* session.pending
    buffer,    \* what is in pending.answered, a channel with one slot
    ended,     \* the requests whose channel was closed
    waiter,    \* where the goroutine of each request is
    got,       \* what it received
    resume,    \* what it read of session.running, while it needs it
    \* the goroutines inside respond
    tab, choice,
    \* the reaper, and the handler inside Discard
    reaper, discard, stopping,
    \* history
    died,      \* the subprocesses that ended by themselves
    reaped,    \* those the reaper took
    told,      \* the prompts whose end was published: the turn's, or a fatal error
    owns,      \* how many turns the CLI opened
    crashed,   \* a goroutine of ours panicked: the server is gone
    misled     \* a prompt was told as interrupted by a mark put on another turn

fields   == <<proc, launched, turn, state, working, quiet>>
prompter == <<at, wants, inHand>>
child    == <<born, alive, hungUp, inbox, cli, ready>>
loop     == <<reader, held>>
request  == <<pending, buffer, ended, waiter, got, resume>>
marks    == <<interrupted, misled>>
tabs     == <<tab, choice, marks>>
stopper  == <<reaper, discard, stopping>>
history  == <<died, reaped, told, owns, crashed>>

vars == <<fields, prompter, child, loop, request, tabs, stopper, history>>

Turns == Prompts \union {"none", "own"}

RunStates == {"starting", "idle", "running", "waiting_input", "background"}

PromptSteps == {"new", "ensure", "stop", "stopping", "start", "launch", "keep",
                "init", "fail", "failing", "ready", "claim", "write", "unclaim",
                "sent", "announce", "accepted", "refused"}

ReaderSteps == {"none", "reading", "open", "opened", "content", "ask", "asked",
                "result", "finish", "tasks", "settle", "background", "idle",
                "exiting", "cleared", "denied", "over"}

\* The read loop closed process.done: stop returns, and control and writeJSON
\* fail.
Gone == {"exiting", "cleared", "denied", "over"}

WaiterSteps == {"none", "waiting", "woken", "forgot", "resuming", "resolved"}

TypeOK ==
    /\ proc \in Procs \union {NoProc}
    /\ launched \in Efforts \union {"none"}
    /\ turn \in Turns
    /\ state \in RunStates
    /\ working \in BOOLEAN
    /\ quiet \in BOOLEAN
    /\ at \in [Prompts -> PromptSteps]
    /\ wants \in [Prompts -> Efforts \union {"none"}]
    /\ inHand \in [Prompts -> Procs \union {NoProc}]
    /\ born \in 0..MaxProcs
    /\ alive \in SUBSET Procs
    /\ hungUp \in SUBSET Procs
    /\ inbox \in [Procs -> Seq(Prompts)]
    /\ cli \in [Procs -> Turns]
    /\ ready \in SUBSET Procs
    /\ reader \in [Procs -> ReaderSteps]
    /\ held \in [Procs -> Turns \union Requests]
    /\ pending \in SUBSET Requests
    /\ buffer \in [Requests -> SUBSET Owners]
    /\ ended \in SUBSET Requests
    /\ waiter \in [Requests -> WaiterSteps]
    /\ got \in [Requests -> Owners \union {"the turn ended", "unsettled"}]
    /\ resume \in [Requests -> BOOLEAN]
    /\ tab \in [Owners -> {"new", "sending", "accepted", "refused"}]
    /\ choice \in [Owners -> Requests \union {"none"}]
    /\ \A o \in Owners : tab[o] = "sending" => choice[o] \in Requests
    /\ reaper \in {"asleep", "decided", "stopping"}
    /\ discard \in {"none", "dropped", "stopping", "done"}
    /\ stopping \in [{"reaper", "discard"} -> Procs \union {NoProc}]
    /\ died \in SUBSET Procs
    /\ reaped \in SUBSET Procs
    /\ told \in SUBSET Prompts
    /\ owns \in 0..MaxOwnTurns
    /\ crashed \in BOOLEAN
    /\ interrupted \in Turns
    /\ misled \in BOOLEAN

Init ==
    /\ proc = NoProc
    /\ launched = "none"
    /\ turn = "none"
    /\ state = "idle"
    /\ working = FALSE
    /\ quiet = FALSE
    /\ at = [p \in Prompts |-> "new"]
    /\ wants = [p \in Prompts |-> "none"]
    /\ inHand = [p \in Prompts |-> NoProc]
    /\ born = 0
    /\ alive = {}
    /\ hungUp = {}
    /\ inbox = [n \in Procs |-> <<>>]
    /\ cli = [n \in Procs |-> "none"]
    /\ ready = {}
    /\ reader = [n \in Procs |-> "none"]
    /\ held = [n \in Procs |-> "none"]
    /\ pending = {}
    /\ buffer = [r \in Requests |-> {}]
    /\ ended = {}
    /\ waiter = [r \in Requests |-> "none"]
    /\ got = [r \in Requests |-> "unsettled"]
    /\ resume = [r \in Requests |-> FALSE]
    /\ tab = [o \in Owners |-> "new"]
    /\ choice = [o \in Owners |-> "none"]
    /\ reaper = "asleep"
    /\ discard = "none"
    /\ stopping = [g \in {"reaper", "discard"} |-> NoProc]
    /\ died = {}
    /\ reaped = {}
    /\ told = {}
    /\ owns = 0
    /\ crashed = FALSE
    /\ interrupted = "none"
    /\ misled = FALSE

-----------------------------------------------------------------------------
(* stopProcess, whoever calls it: the session lets go of its process and   *)
(* closes its stdin, then waits until the read loop is through with it.    *)

LetGo == /\ proc' = NoProc
         /\ hungUp' = hungUp \union ({proc} \ {NoProc})

Stopped(n) == n # NoProc => reader[n] \in Gone

-----------------------------------------------------------------------------
(* prompt.                                                                 *)

\* A goroutine goes on, as long as the server does.
Goto(p, step) == ~crashed /\ at' = [at EXCEPT ![p] = step]

\* It is answered, and its locals are gone.
Leave(p, answer) == /\ Goto(p, answer)
                    /\ wants' = [wants EXCEPT ![p] = "none"]
                    /\ inHand' = [inHand EXCEPT ![p] = NoProc]

InFlight == {p \in Prompts : at[p] \notin {"new", "accepted", "refused"}}

\* A prompt comes in, and is refused while a turn runs.
Arrive(p, effort) ==
    /\ at[p] = "new"
    /\ Cardinality(InFlight) < MaxInFlight
    /\ discard = "none"
    /\ IF turn # "none" THEN Leave(p, "refused")
       ELSE /\ Goto(p, "ensure")
            /\ wants' = [wants EXCEPT ![p] = effort]
            /\ UNCHANGED inHand
    /\ UNCHANGED <<fields, child, loop, request, tabs, stopper, history>>

\* ensureRunning: there is a process with the effort asked for, or one with
\* another, or none.
EnsureRunning(p) ==
    /\ at[p] = "ensure"
    /\ Goto(p, IF proc = NoProc THEN "start"
               ELSE IF launched = wants[p] THEN "claim" ELSE "stop")
    /\ UNCHANGED <<fields, wants, inHand, child, loop, request, tabs, stopper, history>>

\* stopProcess, before a restart or after an initialize that failed.
StopProcess(p) ==
    /\ at[p] \in {"stop", "fail"}
    /\ LetGo
    /\ inHand' = [inHand EXCEPT ![p] = proc]
    /\ Goto(p, IF at[p] = "stop" THEN "stopping" ELSE "failing")
    /\ UNCHANGED <<launched, turn, state, working, quiet, wants, born, alive, inbox,
                   cli, ready, loop, request, tabs, stopper, history>>

StopReturns(p) ==
    /\ at[p] \in {"stopping", "failing"}
    /\ Stopped(inHand[p])
    /\ IF at[p] = "stopping" THEN Goto(p, "start") /\ UNCHANGED <<wants, inHand>>
                             ELSE Leave(p, "refused")
    /\ UNCHANGED <<fields, child, loop, request, tabs, stopper, history>>

\* startProcess.
Start(p) ==
    /\ at[p] = "start"
    /\ state' = "starting"
    /\ working' = FALSE
    /\ Goto(p, "launch")
    /\ UNCHANGED <<proc, launched, turn, quiet, wants, inHand, child, loop, request,
                   tabs, stopper, history>>

Launch(p) ==
    LET n == born + 1 IN
    /\ at[p] = "launch"
    /\ born < MaxProcs
    /\ born' = n
    /\ alive' = alive \union {n}
    /\ reader' = [reader EXCEPT ![n] = "reading"]
    /\ inHand' = [inHand EXCEPT ![p] = n]
    /\ Goto(p, "keep")
    /\ UNCHANGED <<fields, wants, hungUp, inbox, cli, ready, held, request, tabs, stopper, history>>

LaunchFails(p) ==
    /\ at[p] = "launch"
    /\ state' = "idle"
    /\ Leave(p, "refused")
    /\ UNCHANGED <<proc, launched, turn, working, quiet, child, loop,
                   request, tabs, stopper, history>>

Keep(p) ==
    /\ at[p] = "keep"
    /\ proc' = inHand[p]
    /\ launched' = wants[p]
    /\ Goto(p, "init")
    /\ UNCHANGED <<turn, state, working, quiet, wants, inHand, child, loop, request,
                   tabs, stopper, history>>

\* The initialize request is answered, or fails: the process is gone, the
\* request's context is done, the timer fires.
Initialized(p) ==
    /\ at[p] = "init"
    /\ reader[inHand[p]] = "reading"
    /\ ready' = ready \union {inHand[p]}
    /\ Goto(p, "ready")
    /\ UNCHANGED <<fields, wants, inHand, born, alive, hungUp, inbox, cli, loop, request,
                   tabs, stopper, history>>

\* Mistake: the error of initialize is overlooked.
InitializeFailsUnnoticed(p) ==
    /\ at[p] = "init"
    /\ Goto(p, "ready")
    /\ UNCHANGED <<fields, wants, inHand, child, loop, request, tabs, stopper, history>>

InitializeFails(p) ==
    /\ at[p] = "init"
    /\ Goto(p, "fail")
    /\ UNCHANGED <<fields, wants, inHand, child, loop, request, tabs, stopper, history>>

Ready(p) ==
    /\ at[p] = "ready"
    /\ state' = "idle"
    /\ Goto(p, "claim")
    /\ UNCHANGED <<proc, launched, turn, working, quiet, wants, inHand, child, loop,
                   request, tabs, stopper, history>>

\* Mistake: the mark of an interrupt is left to the next turn.
ClaimKeepsMark(p) ==
    /\ at[p] = "claim"
    /\ turn' = p
    /\ quiet' = FALSE
    /\ IF proc = NoProc THEN Leave(p, "refused")
       ELSE /\ Goto(p, "write")
            /\ inHand' = [inHand EXCEPT ![p] = proc]
            /\ UNCHANGED wants
    /\ UNCHANGED <<proc, launched, state, working, child, loop, request, tabs,
                   stopper, history>>

\* The turn is claimed, whether or not there still is a process.
Claim(p) ==
    /\ at[p] = "claim"
    /\ turn' = p
    /\ quiet' = FALSE
    /\ interrupted' = "none"
    /\ IF proc = NoProc THEN Leave(p, "refused")
       ELSE /\ Goto(p, "write")
            /\ inHand' = [inHand EXCEPT ![p] = proc]
            /\ UNCHANGED wants
    /\ UNCHANGED <<proc, launched, state, working, child, loop, request, tab,
                   choice, misled, stopper, history>>

Write(p) ==
    LET n == inHand[p] IN
    /\ at[p] = "write"
    /\ n \notin hungUp /\ reader[n] \notin Gone
    /\ inbox' = [inbox EXCEPT ![n] = Append(@, p)]
    /\ Goto(p, "sent")
    /\ UNCHANGED <<fields, wants, inHand, born, alive, hungUp, cli, ready, loop, request,
                   tabs, stopper, history>>

WriteFails(p) ==
    /\ at[p] = "write"
    /\ inHand[p] \in hungUp \/ inHand[p] \notin alive
    /\ Goto(p, "unclaim")
    /\ UNCHANGED <<fields, wants, inHand, child, loop, request, tabs, stopper, history>>

Unclaim(p) ==
    /\ at[p] = "unclaim"
    /\ turn' = "none"
    /\ Leave(p, "refused")
    /\ UNCHANGED <<proc, launched, state, working, quiet, child, loop,
                   request, tabs, stopper, history>>

SetRunning(p) ==
    /\ at[p] = "sent"
    /\ state' = "running"
    /\ Goto(p, "announce")
    /\ UNCHANGED <<proc, launched, turn, working, quiet, wants, inHand, child, loop,
                   request, tabs, stopper, history>>

\* turn_started and the echo of the prompt are published.
Announce(p) ==
    /\ at[p] = "announce"
    /\ Leave(p, "accepted")
    /\ UNCHANGED <<fields, child, loop, request, tabs, stopper, history>>

-----------------------------------------------------------------------------
(* The CLI, which is external: it runs the prompts it is written one after *)
(* the other, opens turns of its own, and may die.  Its messages are read  *)
(* where it says them: the pipe keeps their order.                         *)

CliTakesPrompt(n) ==
    /\ n \in alive /\ cli[n] = "none" /\ inbox[n] # <<>>
    /\ cli' = [cli EXCEPT ![n] = Head(inbox[n])]
    /\ inbox' = [inbox EXCEPT ![n] = Tail(@)]
    /\ UNCHANGED <<fields, prompter, born, alive, hungUp, ready, loop, request, tabs, stopper,
                   history>>

CliOpensTurn(n) ==
    /\ n \in alive /\ cli[n] = "none"
    /\ owns < MaxOwnTurns
    /\ owns' = owns + 1
    /\ cli' = [cli EXCEPT ![n] = "own"]
    /\ UNCHANGED <<fields, prompter, born, alive, hungUp, inbox, ready, loop, request,
                   tabs, stopper, died, reaped, told, crashed>>

\* It exits because we closed its stdin, or is killed for not doing so ...
CliStops(n) ==
    /\ n \in alive \cap hungUp
    /\ alive' = alive \ {n}
    /\ UNCHANGED <<fields, prompter, born, hungUp, inbox, cli, ready, loop, request, tabs,
                   stopper, history>>

\* ... or by itself.
CliDies(n) ==
    /\ n \in alive \ hungUp
    /\ Cardinality(died) < MaxDeaths
    /\ alive' = alive \ {n}
    /\ died' = died \union {n}
    /\ UNCHANGED <<fields, prompter, born, hungUp, inbox, cli, ready, loop, request, tabs,
                   stopper, reaped, told, owns, crashed>>

-----------------------------------------------------------------------------
(* The read loop: onMessage, onControlRequest and onExit.                  *)

Step(n, step) == ~crashed /\ reader' = [reader EXCEPT ![n] = step]

\* resolveAllPending: the channel of every request in the table is closed.
\* Closing one that is closed already is a panic.
ResolveAllPending ==
    /\ ended' = ended \union pending
    /\ crashed' = (pending \cap ended # {})

\* Turn content: a stream_event, assistant or user message.
ReadContent(n) ==
    /\ reader[n] = "reading"
    /\ cli[n] # "none"
    /\ quiet' = FALSE
    /\ Step(n, "open")
    /\ UNCHANGED <<proc, launched, turn, state, working, prompter, child, held, request,
                   tabs, stopper, history>>

\* openTurn: without a turn under way the content opens one.
OpenTurn(n) ==
    /\ reader[n] = "open"
    /\ IF turn # "none" THEN Step(n, "content") /\ UNCHANGED turn
                        ELSE Step(n, "opened") /\ turn' = "own"
    /\ UNCHANGED <<proc, launched, state, working, quiet, prompter, child, held, request,
                   tabs, stopper, history>>

TurnOpened(n) ==
    /\ reader[n] = "opened"
    /\ state' = "running"
    /\ Step(n, "content")
    /\ UNCHANGED <<proc, launched, turn, working, quiet, prompter, child, held, request,
                   tabs, stopper, history>>

PublishContent(n) ==
    /\ reader[n] = "content"
    /\ Step(n, "reading")
    /\ UNCHANGED <<fields, prompter, child, held, request, tabs, stopper, history>>

\* onResult: the requests still open are ended, the turn is closed, and the
\* session settles.
ReadResult(n) ==
    /\ reader[n] = "reading"
    /\ cli[n] # "none"
    /\ cli' = [cli EXCEPT ![n] = "none"]
    /\ quiet' = FALSE
    /\ Step(n, "result")
    /\ UNCHANGED <<proc, launched, turn, state, working, prompter, born, alive, hungUp,
                   inbox, ready, held, request, tabs, stopper, history>>

ResultEndsRequests(n) ==
    /\ reader[n] = "result"
    /\ ResolveAllPending
    /\ Step(n, "finish")
    /\ UNCHANGED <<fields, prompter, child, held, pending, buffer, waiter, got, resume,
                   tabs, stopper, died, reaped, told, owns>>

\* Mistake: the turn is published as finished and still counts as running.
FinishTurnKeeps(n) ==
    /\ reader[n] = "finish"
    /\ Step(n, "settle")
    /\ UNCHANGED <<fields, prompter, child, held, request, tabs, stopper, history>>

FinishTurn(n) ==
    /\ reader[n] = "finish"
    /\ turn' = "none"
    /\ interrupted' = "none"
    /\ misled' = (misled \/ (turn \in Prompts /\ interrupted \notin {"none", turn}))
    /\ told' = told \union ({turn} \cap Prompts)
    /\ Step(n, "settle")
    /\ UNCHANGED <<proc, launched, state, working, quiet, prompter, child, held, request,
                   tab, choice, stopper, died, reaped, owns, crashed>>

\* background_tasks_changed, with a task that is not ambient among them or not.
ReadTasks(n, some) ==
    /\ reader[n] = "reading"
    /\ working' = some
    /\ quiet' = FALSE
    /\ Step(n, "tasks")
    /\ UNCHANGED <<proc, launched, turn, state, prompter, child, held, request, tabs,
                   stopper, history>>

TasksRead(n) ==
    /\ reader[n] = "tasks"
    /\ Step(n, IF turn # "none" THEN "reading" ELSE "settle")
    /\ UNCHANGED <<fields, prompter, child, held, request, tabs, stopper, history>>

\* settle: the tasks are looked at under the lock, the state is set under the
\* next one.
Settle(n) ==
    /\ reader[n] = "settle"
    /\ Step(n, IF working THEN "background" ELSE "idle")
    /\ UNCHANGED <<fields, prompter, child, held, request, tabs, stopper, history>>

Settled(n) ==
    /\ reader[n] \in {"background", "idle"}
    /\ state' = reader[n]
    /\ Step(n, "reading")
    /\ UNCHANGED <<proc, launched, turn, working, quiet, prompter, child, held, request,
                   tabs, stopper, history>>

\* onControlRequest: the CLI asks the owner something in the middle of a turn.
\* A session that has let go of its process drops the request.
ReadRequest(n, r) ==
    /\ reader[n] = "reading"
    /\ cli[n] # "none"
    /\ proc # NoProc
    /\ waiter[r] = "none" /\ r \notin pending
    /\ \A m \in Procs : held[m] # r
    /\ held' = [held EXCEPT ![n] = r]
    /\ Step(n, "ask")
    /\ UNCHANGED <<fields, prompter, child, request, tabs, stopper, history>>

AddPending(n) ==
    /\ reader[n] = "ask"
    /\ pending' = pending \union {held[n]}
    /\ Step(n, "asked")
    /\ UNCHANGED <<fields, prompter, child, held, buffer, ended, waiter, got, resume,
                   tabs, stopper, history>>

WaitForOwner(n) ==
    /\ reader[n] = "asked"
    /\ state' = "waiting_input"
    /\ waiter' = [waiter EXCEPT ![held[n]] = "waiting"]
    /\ held' = [held EXCEPT ![n] = "none"]
    /\ Step(n, "reading")
    /\ UNCHANGED <<proc, launched, turn, working, quiet, prompter, child, pending,
                   buffer, ended, got, resume, tabs, stopper, history>>

\* The stream ended and the child was reaped; whoever waits for it is woken.
ReadEnds(n) ==
    /\ reader[n] = "reading"
    /\ n \notin alive
    /\ Step(n, "exiting")
    /\ UNCHANGED <<fields, prompter, child, held, request, tabs, stopper, history>>

\* Mistake: the session keeps the process whose end it handles.
ExitKeepsProcess(n) ==
    /\ reader[n] = "exiting"
    /\ held' = [held EXCEPT ![n] = turn]
    /\ turn' = "none"
    /\ Step(n, "cleared")
    /\ UNCHANGED <<proc, launched, state, working, quiet, prompter, child, request, tabs,
                   stopper, history>>

\* onExit clears the session's process and turn, whatever they are by now ...
ExitClears(n) ==
    /\ reader[n] = "exiting"
    /\ held' = [held EXCEPT ![n] = turn]
    /\ proc' = NoProc
    /\ turn' = "none"
    /\ Step(n, "cleared")
    /\ UNCHANGED <<launched, state, working, quiet, prompter, child, request, tabs,
                   stopper, history>>

\* Mistake: the requests are left to the owner.
ExitForgetsRequests(n) ==
    /\ reader[n] = "cleared"
    /\ working' = FALSE
    /\ Step(n, "denied")
    /\ UNCHANGED <<proc, launched, turn, state, quiet, prompter, child, held, request,
                   tabs, stopper, history>>

\* ... ends the requests and drops the tasks ...
ExitEndsRequests(n) ==
    /\ reader[n] = "cleared"
    /\ ResolveAllPending
    /\ working' = FALSE
    /\ Step(n, "denied")
    /\ UNCHANGED <<proc, launched, turn, state, quiet, prompter, child, held, pending,
                   buffer, waiter, got, resume, tabs, stopper, died, reaped, told, owns>>

\* Mistake: the row's state is set only for a turn that was cut short.
ExitIdlesRunning(n) ==
    /\ reader[n] = "denied"
    /\ told' = told \union ({held[n]} \cap Prompts)
    /\ state' = IF held[n] # "none" THEN "idle" ELSE state
    /\ held' = [held EXCEPT ![n] = "none"]
    /\ inbox' = [inbox EXCEPT ![n] = <<>>]
    /\ cli' = [cli EXCEPT ![n] = "none"]
    /\ Step(n, "over")
    /\ UNCHANGED <<proc, launched, turn, working, quiet, prompter, born, alive, hungUp,
                   ready, request, tabs, stopper, died, reaped, owns, crashed>>

\* Mistake: the end of the turn is not published.
ExitIdlesSilently(n) ==
    /\ reader[n] = "denied"
    /\ state' = "idle"
    /\ held' = [held EXCEPT ![n] = "none"]
    /\ inbox' = [inbox EXCEPT ![n] = <<>>]
    /\ cli' = [cli EXCEPT ![n] = "none"]
    /\ Step(n, "over")
    /\ UNCHANGED <<proc, launched, turn, working, quiet, prompter, born, alive, hungUp,
                   ready, request, tabs, stopper, history>>

\* ... and publishes the end of a turn it cut short.  What the process had not
\* done is gone with it.
ExitIdles(n) ==
    /\ reader[n] = "denied"
    /\ told' = told \union ({held[n]} \cap Prompts)
    /\ state' = "idle"
    /\ held' = [held EXCEPT ![n] = "none"]
    /\ inbox' = [inbox EXCEPT ![n] = <<>>]
    /\ cli' = [cli EXCEPT ![n] = "none"]
    /\ Step(n, "over")
    /\ UNCHANGED <<proc, launched, turn, working, quiet, prompter, born, alive, hungUp,
                   ready, request, tabs, stopper, died, reaped, owns, crashed>>

-----------------------------------------------------------------------------
(* The goroutine that waits for the owner on behalf of one request.        *)

Waiter(r, step) == ~crashed /\ waiter' = [waiter EXCEPT ![r] = step]

\* Mistake: a turn that ended wins over a decision that is already there.
WakeDenies(r) ==
    /\ waiter[r] = "waiting"
    /\ \/ /\ r \in ended
          /\ got' = [got EXCEPT ![r] = "the turn ended"]
       \/ \E o \in buffer[r] : r \notin ended /\ got' = [got EXCEPT ![r] = o]
    /\ buffer' = [buffer EXCEPT ![r] = {}]
    /\ Waiter(r, "woken")
    /\ UNCHANGED <<fields, prompter, child, loop, pending, ended, resume, tabs, stopper, history>>

\* A channel that is closed still gives what is in it first.
Wake(r) ==
    /\ waiter[r] = "waiting"
    /\ \/ \E o \in buffer[r] : got' = [got EXCEPT ![r] = o]
       \/ /\ buffer[r] = {} /\ r \in ended
          /\ got' = [got EXCEPT ![r] = "the turn ended"]
    /\ buffer' = [buffer EXCEPT ![r] = {}]
    /\ Waiter(r, "woken")
    /\ UNCHANGED <<fields, prompter, child, loop, pending, ended, resume, tabs, stopper, history>>

\* Mistake: the request stays in the table.
ForgetKeeps(r) ==
    /\ waiter[r] = "woken"
    /\ resume' = [resume EXCEPT ![r] = turn # "none"]
    /\ Waiter(r, "forgot")
    /\ UNCHANGED <<fields, prompter, child, loop, pending, buffer, ended, got, tabs,
                   stopper, history>>

Forget(r) ==
    /\ waiter[r] = "woken"
    /\ pending' = pending \ {r}
    /\ resume' = [resume EXCEPT ![r] = turn # "none"]
    /\ Waiter(r, "forgot")
    /\ UNCHANGED <<fields, prompter, child, loop, buffer, ended, got, tabs, stopper, history>>

\* The CLI is replied to and interaction_resolved published.
Reply(r) ==
    /\ waiter[r] = "forgot"
    /\ Waiter(r, IF got[r] \in Owners /\ resume[r] THEN "resuming" ELSE "resolved")
    /\ resume' = [resume EXCEPT ![r] = FALSE]
    /\ UNCHANGED <<fields, prompter, child, loop, pending, buffer, ended, got, tabs,
                   stopper, history>>

ResumeTurn(r) ==
    /\ waiter[r] = "resuming"
    /\ state' = "running"
    /\ Waiter(r, "resolved")
    /\ UNCHANGED <<proc, launched, turn, working, quiet, prompter, child, loop, pending,
                   buffer, ended, got, resume, tabs, stopper, history>>

-----------------------------------------------------------------------------
(* respond: the request is looked up under the lock, and sent to after it. *)

Respond(o, r) ==
    /\ ~crashed
    /\ tab[o] = "new"
    /\ discard = "none"
    /\ waiter[r] # "none" \/ r \in pending
    /\ IF r \in pending
       THEN /\ choice' = [choice EXCEPT ![o] = r]
            /\ tab' = [tab EXCEPT ![o] = "sending"]
       ELSE /\ tab' = [tab EXCEPT ![o] = "refused"]
            /\ UNCHANGED choice
    /\ UNCHANGED <<fields, prompter, child, loop, request, marks, stopper, history>>

\* Mistake: a later decision replaces the one that waits to be taken.
SendDecisionReplaces(o) ==
    LET r == choice[o]
        free == r \notin ended
    IN /\ ~crashed
       /\ tab[o] = "sending"
       /\ buffer' = IF free THEN [buffer EXCEPT ![r] = {o}] ELSE buffer
       /\ tab' = [tab EXCEPT ![o] = IF free THEN "accepted" ELSE "refused"]
       /\ choice' = IF free THEN choice ELSE [choice EXCEPT ![o] = "none"]
       /\ UNCHANGED <<fields, prompter, child, loop, pending, ended, waiter, got, resume,
                      marks, stopper, history>>

\* The slot is free, or is taken, or the channel is closed: a send on it panics,
\* which costs the HTTP request and no more.
SendDecision(o) ==
    LET r == choice[o]
        free == buffer[r] = {} /\ r \notin ended
    IN /\ ~crashed
       /\ tab[o] = "sending"
       /\ buffer' = IF free THEN [buffer EXCEPT ![r] = {o}] ELSE buffer
       /\ tab' = [tab EXCEPT ![o] = IF free THEN "accepted" ELSE "refused"]
       /\ choice' = IF free THEN choice ELSE [choice EXCEPT ![o] = "none"]
       /\ UNCHANGED <<fields, prompter, child, loop, pending, ended, waiter, got, resume,
                      marks, stopper, history>>

\* interrupt marks the turn that runs, if one does.  What the request makes the
\* CLI do, end the turn it is in by then, it may do at any time.
Interrupt ==
    /\ ~crashed
    /\ MaxInterrupts = 1
    /\ discard = "none"
    /\ turn # "none"
    /\ interrupted' = turn
    /\ UNCHANGED <<fields, prompter, child, loop, request, tab, choice, stopper,
                   history, misled>>

-----------------------------------------------------------------------------
(* The reaper, and Discard.                                                *)

\* The idle timeout is minutes: no goroutine stands inside prompt that long.
TimePasses ==
    /\ ~quiet
    /\ Cardinality(reaped) < MaxReaps
    /\ InFlight = {}
    /\ quiet' = TRUE
    /\ UNCHANGED <<proc, launched, turn, state, working, prompter, child, loop, request,
                   tabs, stopper, history>>

\* idleSince
FindIdle ==
    /\ ~crashed /\ reaper = "asleep"
    /\ Cardinality(reaped) < MaxReaps
    /\ proc # NoProc /\ state = "idle" /\ quiet
    /\ reaper' = "decided"
    /\ UNCHANGED <<fields, prompter, child, loop, request, tabs, discard, stopping, history>>

Reap ==
    /\ ~crashed /\ reaper = "decided"
    /\ LetGo
    /\ stopping' = [stopping EXCEPT !["reaper"] = proc]
    /\ reaped' = reaped \union ({proc} \ {NoProc})
    /\ reaper' = "stopping"
    /\ UNCHANGED <<launched, turn, state, working, quiet, prompter, born, alive, inbox,
                   cli, ready, loop, request, tabs, discard, died, told, owns, crashed>>

ReapReturns ==
    /\ ~crashed /\ reaper = "stopping"
    /\ Stopped(stopping["reaper"])
    /\ reaper' = "asleep"
    /\ stopping' = [stopping EXCEPT !["reaper"] = NoProc]
    /\ UNCHANGED <<fields, prompter, child, loop, request, tabs, discard, history>>

\* Discard takes the session out of the backend's map, and closes it.
DropSession ==
    /\ ~crashed /\ discard = "none"
    /\ MaxDiscards = 1
    /\ discard' = "dropped"
    /\ UNCHANGED <<fields, prompter, child, loop, request, tabs, reaper, stopping, history>>

CloseSession ==
    /\ ~crashed /\ discard = "dropped"
    /\ LetGo
    /\ stopping' = [stopping EXCEPT !["discard"] = proc]
    /\ discard' = "stopping"
    /\ UNCHANGED <<launched, turn, state, working, quiet, prompter, born, alive, inbox,
                   cli, ready, loop, request, tabs, reaper, history>>

DiscardReturns ==
    /\ ~crashed /\ discard = "stopping"
    /\ Stopped(stopping["discard"])
    /\ discard' = "done"
    /\ UNCHANGED <<fields, prompter, child, loop, request, tabs, reaper, stopping, history>>

-----------------------------------------------------------------------------

Prompt(p) ==
    \/ EnsureRunning(p) \/ StopProcess(p) \/ StopReturns(p)
    \/ Start(p) \/ Launch(p) \/ LaunchFails(p) \/ Keep(p)
    \/ Initialized(p) \/ InitializeFails(p) \/ Ready(p)
    \/ Claim(p) \/ Write(p) \/ WriteFails(p) \/ Unclaim(p)
    \/ SetRunning(p) \/ Announce(p)

Cli(n) == CliTakesPrompt(n) \/ CliOpensTurn(n) \/ CliStops(n) \/ CliDies(n)

ReadMessage(n) ==
    \/ ReadContent(n) \/ ReadResult(n)
    \/ \E some \in BOOLEAN : ReadTasks(n, some)
    \/ \E r \in Requests : ReadRequest(n, r)

\* What the read loop does between two messages, and after the last one.
HandleMessage(n) ==
    \/ OpenTurn(n) \/ TurnOpened(n) \/ PublishContent(n)
    \/ ResultEndsRequests(n) \/ FinishTurn(n)
    \/ TasksRead(n) \/ Settle(n) \/ Settled(n)
    \/ AddPending(n) \/ WaitForOwner(n)
    \/ ReadEnds(n) \/ ExitClears(n) \/ ExitEndsRequests(n) \/ ExitIdles(n)

Wait(r) == Wake(r) \/ Forget(r) \/ Reply(r) \/ ResumeTurn(r)

Stopper == \/ FindIdle \/ Reap \/ ReapReturns
           \/ DropSession \/ CloseSession \/ DiscardReturns

Next ==
    \/ \E p \in Prompts : Prompt(p) \/ \E effort \in Efforts : Arrive(p, effort)
    \/ \E n \in Procs : Cli(n) \/ ReadMessage(n) \/ HandleMessage(n)
    \/ \E r \in Requests : Wait(r)
    \/ \E o \in Owners : SendDecision(o) \/ \E r \in Requests : Respond(o, r)
    \/ Interrupt
    \/ TimePasses
    \/ Stopper

Spec == Init /\ [][Next]_vars

(* Goroutines keep running, a subprocess whose stdin is closed is killed if it
   does not exit, and the read loop sees the end of the finite output of one that
   is dead.  Nothing makes a prompt arrive, the CLI say or finish anything, or an
   owner answer.                                                             *)
FairSpec ==
    /\ Spec
    /\ \A p \in Prompts : WF_vars(Prompt(p))
    /\ \A n \in Procs : WF_vars(HandleMessage(n)) /\ SF_vars(ReadEnds(n)) /\ WF_vars(CliStops(n))
    /\ \A r \in Requests : WF_vars(Wait(r))

-----------------------------------------------------------------------------
(* Properties: the requests put to the owner.                              *)

InSlot(slot) == CHOOSE o \in Owners : o \in slot

OutcomeOf(r) ==
    IF got[r] # "unsettled" THEN got[r]
    ELSE IF buffer[r] # {} THEN InSlot(buffer[r])
    ELSE IF r \in ended THEN "the turn ended" ELSE "unsettled"

PhaseOf(r) ==
    IF waiter[r] \in {"resuming", "resolved"} THEN "resolved"
    ELSE IF OutcomeOf(r) # "unsettled" THEN "settled"
    ELSE IF r \in pending THEN "open" ELSE "unasked"

Promise == INSTANCE Interactions WITH
              phase   <- [r \in Requests |-> PhaseOf(r)],
              outcome <- [r \in Requests |-> OutcomeOf(r)]

\* Whatever tabs, turn ends and exits do at the same time, each request is
\* settled once, and answered and reported once, with what settled it
\* (session.go:399-478).
KeepsPromise == Promise!Spec

\* A decision the owner's tab was told is taken is never turned into the denial
\* of a turn that ended, though the two race for the same channel
\* (session.go:405-455).
AcceptedIsNotDenied ==
    \A o \in Owners : tab[o] = "accepted" => OutcomeOf(choice[o]) \in Owners

\* What LiveState shows the owner as pending has a goroutine that will take the
\* answer (session.go:437-449).
PendingHasWaiter ==
    \A r \in pending : \/ waiter[r] \in {"waiting", "woken"}
                       \/ \E n \in Procs : reader[n] = "asked" /\ held[n] = r

\* The two together, in a session whose fields are of their types: what is on
\* offer can be answered, and what was answered stays answered.
RequestsSound == TypeOK /\ PendingHasWaiter /\ AcceptedIsNotDenied

\* A request that nobody answers does not outlive its process: once no process
\* is left it is denied and gone (session.go:220-229, 466-478).
RequestsEndWithProcess ==
    \A r \in Requests : (r \in pending /\ alive = {}) ~> (r \notin pending \/ crashed)

\* "A death mid-turn is a fatal stream error the client reconnects from"
\* (session.go:220-221): it does not take the server with it.
NeverCrashes == ~crashed

-----------------------------------------------------------------------------
(* Properties: the process and the turn.                                   *)

\* With no prompt on its way in, the session does not hold on to a process whose
\* end it has handled: the next prompt would write to nobody (session.go:188-242).
RestsOnNoDeadProcess ==
    InFlight = {} /\ proc # NoProc => reader[proc] # "over"

\* No prompt leaves the thread "starting": when none is on its way in and every
\* process that was let go of is over, the row says something else
\* (session.go:176-208).
StartingEnds ==
    InFlight = {} /\ (\A n \in 1..born : n \in hungUp \union died => reader[n] = "over")
        => state # "starting"

\* A prompt is written to a process that speaks the control protocol: "until it
\* answers, can_use_tool prompts would have nowhere to go" (session.go:196-197).
PromptedAfterInitialize ==
    \A p \in Prompts : at[p] \in {"write", "sent"} => inHand[p] \in ready

\* A start that failed half way leaves neither the row nor a prompt behind.
StartsComplete == StartingEnds /\ PromptedAfterInitialize

\* The thread is busy only for a turn that was accepted or that the CLI opened,
\* and while the CLI has work to do, says that it is done, or is gone and its end
\* being handled (session.go:220-228, 265-313, 649-662).
BusyMeansWorking ==
    InFlight = {} /\ turn # "none" /\ (turn \in Prompts => at[turn] = "accepted") =>
        \E n \in 1..born : \/ reader[n] \in {"result", "finish", "exiting"}
                           \/ reader[n] \notin Gone /\ (cli[n] # "none" \/ inbox[n] # <<>>)

\* Prompts sent one at a time: one that was accepted is the thread's turn until its
\* end is published, as the turn's or as a fatal error.  Whatever ends the process,
\* and whoever handles it, no turn is dropped without a word (session.go:220-242,
\* 649-671).
NoTurnIsDropped ==
    \A p \in Prompts : at[p] = "accepted" =>
        p \in told \/ turn = p \/ \E n \in Procs : held[n] = p

\* A prompt whose turn is told as interrupted is one the owner interrupted: not
\* the one that ran when its process died, nor the one before (session.go:279-283,
\* 343-358, 655-673).
InterruptedIsTheOwners == ~misled

\* Every turn is told to its end, and as what it was.
TurnsTold == NoTurnIsDropped /\ InterruptedIsTheOwners

\* "A process that died is resumed by the next Prompt" (chat/backend.go:28): with
\* no process left, no turn keeps the next prompt out.
DeathLeavesNoTurn ==
    InFlight = {} /\ (\A n \in 1..born : reader[n] = "over") => turn = "none"

\* "One turn runs per thread at a time" (README.md:310): a prompt reaches the CLI
\* only when the ones before it are through.
OneTurnAtATime ==
    Cardinality({p \in Prompts : \E n \in alive :
        cli[n] = p \/ \E i \in 1..Len(inbox[n]) : inbox[n][i] = p}) <= 1

\* "One subprocess per live thread" (README.md:262-263).
OneProcess == Cardinality(alive) <= 1

=============================================================================
