------------------------ MODULE ClaudeSessionProofs ------------------------
(***************************************************************************)
(* What a session promises about the requests put to the owner, for any    *)
(* number of prompts, processes, requests and tabs: a request on offer has *)
(* a goroutine that takes its answer, an answer that was taken is never    *)
(* turned into a denial, and the session implements Interactions.  Then    *)
(* what it promises about its process and its turns: that a busy thread    *)
(* works, again for any number of prompts, and more for prompts that come  *)
(* one at a time.                                                          *)
(***************************************************************************)
EXTENDS ClaudeSession, FiniteSetTheorems, TLAPS

-----------------------------------------------------------------------------
(* The inductive invariant: the types, group by group ...                  *)

FieldsTyped ==
    /\ proc \in Procs \union {NoProc}
    /\ launched \in Efforts \union {"none"}
    /\ turn \in Turns
    /\ state \in RunStates
    /\ working \in BOOLEAN
    /\ quiet \in BOOLEAN

\* A prompt that has launched a process has it in its hand.
PrompterTyped ==
    /\ at \in [Prompts -> PromptSteps]
    /\ wants \in [Prompts -> Efforts \union {"none"}]
    /\ inHand \in [Prompts -> Procs \union {NoProc}]
    /\ \A p \in Prompts : at[p] \in {"keep", "init"} => inHand[p] \in Procs

ChildTyped ==
    /\ born \in 0..MaxProcs
    /\ alive \in SUBSET Procs
    /\ hungUp \in SUBSET Procs
    /\ inbox \in [Procs -> Seq(Prompts)]
    /\ cli \in [Procs -> Turns]
    /\ ready \in SUBSET Procs

LoopTyped ==
    /\ reader \in [Procs -> ReaderSteps]
    /\ held \in [Procs -> Turns \union Requests]

RequestTyped ==
    /\ pending \in SUBSET Requests
    /\ buffer \in [Requests -> SUBSET Owners]
    /\ ended \in SUBSET Requests
    /\ waiter \in [Requests -> WaiterSteps]
    /\ got \in [Requests -> Owners \union {"the turn ended", "unsettled"}]
    /\ resume \in [Requests -> BOOLEAN]

TabsTyped ==
    /\ tab \in [Owners -> {"new", "sending", "accepted", "refused"}]
    /\ choice \in [Owners -> Requests \union {"none"}]
    /\ \A o \in Owners : tab[o] = "sending" => choice[o] \in Requests

MarksTyped == interrupted \in Turns /\ misled \in BOOLEAN

StopperTyped ==
    /\ reaper \in {"asleep", "decided", "stopping"}
    /\ discard \in {"none", "dropped", "stopping", "done"}
    /\ stopping \in [{"reaper", "discard"} -> Procs \union {NoProc}]

HistoryTyped ==
    /\ died \in SUBSET Procs
    /\ reaped \in SUBSET Procs
    /\ told \in SUBSET Prompts
    /\ owns \in 0..MaxOwnTurns
    /\ crashed \in BOOLEAN

Typed == /\ FieldsTyped /\ PrompterTyped /\ ChildTyped /\ LoopTyped /\ RequestTyped
         /\ TabsTyped /\ MarksTyped /\ StopperTyped /\ HistoryTyped

\* ... the read loops that put a request to the owner: each has one of its own,
\* which nobody waits for yet ...
LoopInv ==
    /\ \A n \in Procs : reader[n] # "none" => n <= born
    /\ \A n \in Procs : reader[n] \in {"ask", "asked"} =>
          held[n] \in Requests /\ waiter[held[n]] = "none"
    /\ \A n \in Procs : reader[n] = "ask" => held[n] \notin pending
    /\ \A m, n \in Procs : /\ reader[m] \in {"ask", "asked"}
                           /\ reader[n] \in {"ask", "asked"}
                           /\ held[m] = held[n]
                           => m = n

\* ... the requests: one that was not put to the owner is untouched, one that
\* was woken has what woke it and is taken out of the table ...
WaiterInv ==
    \A r \in Requests :
       /\ waiter[r] = "none" /\ r \notin pending => buffer[r] = {} /\ r \notin ended
       /\ got[r] = "unsettled" <=> waiter[r] \in {"none", "waiting"}
       /\ waiter[r] \in {"forgot", "resuming", "resolved"} => r \notin pending
       /\ got[r] = "the turn ended" => r \in ended
       /\ buffer[r] # {} => \E o \in Owners : buffer[r] = {o}

\* ... and the tabs: what one is about to answer was on offer, and its answer is
\* in the channel until it is what the waiter got.
TabInv ==
    /\ \A o \in Owners : tab[o] = "sending" =>
          choice[o] \in pending \/ got[choice[o]] # "unsettled"
    /\ \A o \in Owners : tab[o] = "accepted" =>
          /\ choice[o] \in Requests
          /\ \/ got[choice[o]] \in Owners
             \/ got[choice[o]] = "unsettled" /\ buffer[choice[o]] # {}

AskInv == LoopInv /\ WaiterInv /\ TabInv /\ PendingHasWaiter

IInv == Typed /\ AskInv

\* What AskInv is about.
asking == <<reader, held, born, pending, buffer, ended, waiter, got, tab, choice>>

-----------------------------------------------------------------------------
(* Types.                                                                  *)

LEMMA TypedIsTypeOK == Typed => TypeOK
BY DEF Typed, FieldsTyped, PrompterTyped, ChildTyped, LoopTyped, RequestTyped, TabsTyped,
       MarksTyped, StopperTyped, HistoryTyped, TypeOK

LEMMA Bounds == MaxProcs \in Nat /\ MaxOwnTurns \in Nat
BY SessionAssumption

LEMMA AppendTyped == \A s \in Seq(Prompts), p \in Prompts : Append(s, p) \in Seq(Prompts)
OBVIOUS

\* Groups that a step leaves alone keep their types.
LEMMA GroupsStay ==
    ASSUME Typed
    PROVE  /\ UNCHANGED fields => FieldsTyped'
           /\ UNCHANGED prompter => PrompterTyped'
           /\ UNCHANGED child => ChildTyped'
           /\ UNCHANGED loop => LoopTyped'
           /\ UNCHANGED request => RequestTyped'
           /\ UNCHANGED <<tab, choice>> => TabsTyped'
           /\ UNCHANGED marks => MarksTyped'
           /\ UNCHANGED stopper => StopperTyped'
           /\ UNCHANGED history => HistoryTyped'
<1>1. UNCHANGED fields => FieldsTyped'
  BY DEF Typed, FieldsTyped, fields
<1>2. UNCHANGED prompter => PrompterTyped'
  BY DEF Typed, PrompterTyped, prompter
<1>3. UNCHANGED child => ChildTyped'
  BY DEF Typed, ChildTyped, child
<1>4. UNCHANGED loop => LoopTyped'
  BY DEF Typed, LoopTyped, loop
<1>5. UNCHANGED request => RequestTyped'
  BY DEF Typed, RequestTyped, request
<1>6. UNCHANGED <<tab, choice>> => TabsTyped'
  BY DEF Typed, TabsTyped
<1>7. UNCHANGED marks => MarksTyped'
  BY DEF Typed, MarksTyped, marks
<1>8. UNCHANGED stopper => StopperTyped'
  BY DEF Typed, StopperTyped, stopper
<1>9. UNCHANGED history => HistoryTyped'
  BY DEF Typed, HistoryTyped, history
<1> QED BY <1>1, <1>2, <1>3, <1>4, <1>5, <1>6, <1>7, <1>8, <1>9

\* The goroutines inside prompt, but for the launch of a process.
LEMMA PromptTypes ==
    ASSUME Typed, NEW p \in Prompts, ~Launch(p),
           Prompt(p) \/ \E effort \in Efforts : Arrive(p, effort)
    PROVE  Typed' /\ UNCHANGED asking
<1>1. ASSUME NEW effort \in Efforts, Arrive(p, effort) PROVE Typed' /\ UNCHANGED asking
  <2>1. PrompterTyped'
    BY <1>1 DEF Arrive, Leave, Goto, Typed, PrompterTyped, PromptSteps
  <2>2. UNCHANGED <<fields, child, loop, request, tab, choice, marks, stopper, history>>
    BY <1>1 DEF Arrive, Leave, Goto, tabs
  <2>3. UNCHANGED asking
    BY <1>1 DEF Arrive, Leave, Goto, asking, loop, child, request, tabs
  <2> QED
    BY <2>1, <2>2, <2>3, GroupsStay DEF Typed
<1>2. CASE EnsureRunning(p)
  <2>1. PrompterTyped'
    BY <1>2 DEF EnsureRunning, Goto, Typed, PrompterTyped, PromptSteps
  <2>2. UNCHANGED <<fields, child, loop, request, tab, choice, marks, stopper, history>>
    BY <1>2 DEF EnsureRunning, Goto, tabs
  <2>3. UNCHANGED asking
    BY <1>2 DEF EnsureRunning, Goto, asking, loop, child, request, tabs
  <2> QED
    BY <2>1, <2>2, <2>3, GroupsStay DEF Typed
<1>3. CASE StopProcess(p)
  <2>1. FieldsTyped'
    BY <1>3 DEF StopProcess, Goto, LetGo, Typed, FieldsTyped, RunStates, Turns, Procs,
       NoProc
  <2>2. PrompterTyped'
    BY <1>3 DEF StopProcess, Goto, LetGo, Typed, PrompterTyped, PromptSteps, FieldsTyped,
       Procs, NoProc
  <2>3. ChildTyped'
    BY <1>3 DEF StopProcess, Goto, LetGo, Typed, ChildTyped, Turns, Procs, FieldsTyped,
       NoProc
  <2>4. UNCHANGED <<loop, request, tab, choice, marks, stopper, history>>
    BY <1>3 DEF StopProcess, Goto, LetGo, tabs
  <2>5. UNCHANGED asking
    BY <1>3 DEF StopProcess, Goto, LetGo, asking, loop, child, request, tabs
  <2> QED
    BY <2>1, <2>2, <2>3, <2>4, <2>5, GroupsStay DEF Typed
<1>4. CASE StopReturns(p)
  <2>1. PrompterTyped'
    BY <1>4 DEF StopReturns, Leave, Goto, Typed, PrompterTyped, PromptSteps, Procs, NoProc
  <2>2. UNCHANGED <<fields, child, loop, request, tab, choice, marks, stopper, history>>
    BY <1>4 DEF StopReturns, Leave, Goto, tabs
  <2>3. UNCHANGED asking
    BY <1>4 DEF StopReturns, Leave, Goto, asking, loop, child, request, tabs
  <2> QED
    BY <2>1, <2>2, <2>3, GroupsStay DEF Typed
<1>5. CASE Start(p)
  <2>1. FieldsTyped'
    BY <1>5 DEF Start, Goto, Typed, FieldsTyped, RunStates, Turns
  <2>2. PrompterTyped'
    BY <1>5 DEF Start, Goto, Typed, PrompterTyped, PromptSteps
  <2>3. UNCHANGED <<child, loop, request, tab, choice, marks, stopper, history>>
    BY <1>5 DEF Start, Goto, tabs
  <2>4. UNCHANGED asking
    BY <1>5 DEF Start, Goto, asking, loop, child, request, tabs
  <2> QED
    BY <2>1, <2>2, <2>3, <2>4, GroupsStay DEF Typed
<1>6. CASE LaunchFails(p)
  <2>1. FieldsTyped'
    BY <1>6 DEF LaunchFails, Leave, Goto, Typed, FieldsTyped, RunStates, Turns
  <2>2. PrompterTyped'
    BY <1>6 DEF LaunchFails, Leave, Goto, Typed, PrompterTyped, PromptSteps, Procs, NoProc
  <2>3. UNCHANGED <<child, loop, request, tab, choice, marks, stopper, history>>
    BY <1>6 DEF LaunchFails, Leave, Goto, tabs
  <2>4. UNCHANGED asking
    BY <1>6 DEF LaunchFails, Leave, Goto, asking, loop, child, request, tabs
  <2> QED
    BY <2>1, <2>2, <2>3, <2>4, GroupsStay DEF Typed
<1>7. CASE Keep(p)
  <2>1. FieldsTyped'
    BY <1>7 DEF Keep, Goto, Typed, FieldsTyped, RunStates, Turns, PrompterTyped
  <2>2. PrompterTyped'
    BY <1>7 DEF Keep, Goto, Typed, PrompterTyped, PromptSteps
  <2>3. UNCHANGED <<child, loop, request, tab, choice, marks, stopper, history>>
    BY <1>7 DEF Keep, Goto, tabs
  <2>4. UNCHANGED asking
    BY <1>7 DEF Keep, Goto, asking, loop, child, request, tabs
  <2> QED
    BY <2>1, <2>2, <2>3, <2>4, GroupsStay DEF Typed
<1>8. CASE Initialized(p)
  <2>1. PrompterTyped'
    BY <1>8 DEF Initialized, Goto, Typed, PrompterTyped, PromptSteps
  <2>2. ChildTyped'
    BY <1>8 DEF Initialized, Goto, Typed, ChildTyped, Turns, Procs, PrompterTyped
  <2>3. UNCHANGED <<fields, loop, request, tab, choice, marks, stopper, history>>
    BY <1>8 DEF Initialized, Goto, tabs
  <2>4. UNCHANGED asking
    BY <1>8 DEF Initialized, Goto, asking, loop, child, request, tabs
  <2> QED
    BY <2>1, <2>2, <2>3, <2>4, GroupsStay DEF Typed
<1>9. CASE InitializeFails(p)
  <2>1. PrompterTyped'
    BY <1>9 DEF InitializeFails, Goto, Typed, PrompterTyped, PromptSteps
  <2>2. UNCHANGED <<fields, child, loop, request, tab, choice, marks, stopper, history>>
    BY <1>9 DEF InitializeFails, Goto, tabs
  <2>3. UNCHANGED asking
    BY <1>9 DEF InitializeFails, Goto, asking, loop, child, request, tabs
  <2> QED
    BY <2>1, <2>2, <2>3, GroupsStay DEF Typed
<1>10. CASE Ready(p)
  <2>1. FieldsTyped'
    BY <1>10 DEF Ready, Goto, Typed, FieldsTyped, RunStates, Turns
  <2>2. PrompterTyped'
    BY <1>10 DEF Ready, Goto, Typed, PrompterTyped, PromptSteps
  <2>3. UNCHANGED <<child, loop, request, tab, choice, marks, stopper, history>>
    BY <1>10 DEF Ready, Goto, tabs
  <2>4. UNCHANGED asking
    BY <1>10 DEF Ready, Goto, asking, loop, child, request, tabs
  <2> QED
    BY <2>1, <2>2, <2>3, <2>4, GroupsStay DEF Typed
<1>11. CASE Claim(p)
  <2>1. FieldsTyped'
    BY <1>11 DEF Claim, Leave, Goto, Typed, FieldsTyped, RunStates, Turns
  <2>2. PrompterTyped'
    BY <1>11 DEF Claim, Leave, Goto, Typed, PrompterTyped, PromptSteps, FieldsTyped, Procs,
       NoProc
  <2>3. MarksTyped'
    BY <1>11 DEF Claim, Leave, Goto, Typed, MarksTyped, Turns
  <2>4. UNCHANGED <<child, loop, request, tab, choice, stopper, history>>
    BY <1>11 DEF Claim, Leave, Goto, tabs
  <2>5. UNCHANGED asking
    BY <1>11 DEF Claim, Leave, Goto, asking, loop, child, request, tabs
  <2> QED
    BY <2>1, <2>2, <2>3, <2>4, <2>5, GroupsStay DEF Typed
<1>12. CASE Write(p)
  <2>1. PrompterTyped'
    BY <1>12 DEF Write, Goto, Typed, PrompterTyped, PromptSteps
  <2>2. ChildTyped'
    BY <1>12, AppendTyped DEF Write, Goto, Typed, ChildTyped, Turns, Procs
  <2>3. UNCHANGED <<fields, loop, request, tab, choice, marks, stopper, history>>
    BY <1>12 DEF Write, Goto, tabs
  <2>4. UNCHANGED asking
    BY <1>12 DEF Write, Goto, asking, loop, child, request, tabs
  <2> QED
    BY <2>1, <2>2, <2>3, <2>4, GroupsStay DEF Typed
<1>13. CASE WriteFails(p)
  <2>1. PrompterTyped'
    BY <1>13 DEF WriteFails, Goto, Typed, PrompterTyped, PromptSteps
  <2>2. UNCHANGED <<fields, child, loop, request, tab, choice, marks, stopper, history>>
    BY <1>13 DEF WriteFails, Goto, tabs
  <2>3. UNCHANGED asking
    BY <1>13 DEF WriteFails, Goto, asking, loop, child, request, tabs
  <2> QED
    BY <2>1, <2>2, <2>3, GroupsStay DEF Typed
<1>14. CASE Unclaim(p)
  <2>1. FieldsTyped'
    BY <1>14 DEF Unclaim, Leave, Goto, Typed, FieldsTyped, RunStates, Turns
  <2>2. PrompterTyped'
    BY <1>14 DEF Unclaim, Leave, Goto, Typed, PrompterTyped, PromptSteps, Procs, NoProc
  <2>3. UNCHANGED <<child, loop, request, tab, choice, marks, stopper, history>>
    BY <1>14 DEF Unclaim, Leave, Goto, tabs
  <2>4. UNCHANGED asking
    BY <1>14 DEF Unclaim, Leave, Goto, asking, loop, child, request, tabs
  <2> QED
    BY <2>1, <2>2, <2>3, <2>4, GroupsStay DEF Typed
<1>15. CASE SetRunning(p)
  <2>1. FieldsTyped'
    BY <1>15 DEF SetRunning, Goto, Typed, FieldsTyped, RunStates, Turns
  <2>2. PrompterTyped'
    BY <1>15 DEF SetRunning, Goto, Typed, PrompterTyped, PromptSteps
  <2>3. UNCHANGED <<child, loop, request, tab, choice, marks, stopper, history>>
    BY <1>15 DEF SetRunning, Goto, tabs
  <2>4. UNCHANGED asking
    BY <1>15 DEF SetRunning, Goto, asking, loop, child, request, tabs
  <2> QED
    BY <2>1, <2>2, <2>3, <2>4, GroupsStay DEF Typed
<1>16. CASE Announce(p)
  <2>1. PrompterTyped'
    BY <1>16 DEF Announce, Leave, Goto, Typed, PrompterTyped, PromptSteps, Procs, NoProc
  <2>2. UNCHANGED <<fields, child, loop, request, tab, choice, marks, stopper, history>>
    BY <1>16 DEF Announce, Leave, Goto, tabs
  <2>3. UNCHANGED asking
    BY <1>16 DEF Announce, Leave, Goto, asking, loop, child, request, tabs
  <2> QED
    BY <2>1, <2>2, <2>3, GroupsStay DEF Typed
<1> QED
  BY <1>1, <1>2, <1>3, <1>4, <1>5, <1>6, <1>7, <1>8, <1>9, <1>10, <1>11, <1>12, <1>13,
     <1>14, <1>15, <1>16 DEF Prompt

LEMMA LaunchTypes ==
    ASSUME Typed, NEW p \in Prompts, Launch(p)
    PROVE  Typed'
<1>0. born + 1 \in Procs
  BY Bounds DEF Launch, Typed, ChildTyped, Procs
<1>1. CASE Launch(p)
  <2>1. PrompterTyped'
    BY <1>1, <1>0 DEF Launch, Goto, Typed, PrompterTyped, PromptSteps, NoProc
  <2>2. ChildTyped'
    BY <1>1, <1>0, Bounds DEF Launch, Goto, Typed, ChildTyped, Turns, Procs
  <2>3. LoopTyped'
    BY <1>1 DEF Launch, Goto, Typed, LoopTyped, ReaderSteps, Turns
  <2>4. UNCHANGED <<fields, request, tab, choice, marks, stopper, history>>
    BY <1>1 DEF Launch, Goto, tabs
  <2> QED
    BY <2>1, <2>2, <2>3, <2>4, GroupsStay DEF Typed
<1> QED
  BY <1>1

\* The CLI.
LEMMA CliTypes ==
    ASSUME Typed, NEW n \in Procs, Cli(n)
    PROVE  Typed' /\ UNCHANGED asking
<1>1. CASE CliTakesPrompt(n)
  <2>1. ChildTyped'
    BY <1>1 DEF CliTakesPrompt, Typed, ChildTyped, Turns, Procs
  <2>2. UNCHANGED <<fields, prompter, loop, request, tab, choice, marks, stopper, history>>
    BY <1>1 DEF CliTakesPrompt, tabs
  <2>3. UNCHANGED asking
    BY <1>1 DEF CliTakesPrompt, asking, loop, child, request, tabs
  <2> QED
    BY <2>1, <2>2, <2>3, GroupsStay DEF Typed
<1>2. CASE CliOpensTurn(n)
  <2>1. ChildTyped'
    BY <1>2 DEF CliOpensTurn, Typed, ChildTyped, Turns, Procs
  <2>2. HistoryTyped'
    BY <1>2, Bounds DEF CliOpensTurn, Typed, HistoryTyped
  <2>3. UNCHANGED <<fields, prompter, loop, request, tab, choice, marks, stopper>>
    BY <1>2 DEF CliOpensTurn, tabs
  <2>4. UNCHANGED asking
    BY <1>2 DEF CliOpensTurn, asking, loop, child, request, tabs
  <2> QED
    BY <2>1, <2>2, <2>3, <2>4, GroupsStay DEF Typed
<1>3. CASE CliStops(n)
  <2>1. ChildTyped'
    BY <1>3 DEF CliStops, Typed, ChildTyped, Turns, Procs
  <2>2. UNCHANGED <<fields, prompter, loop, request, tab, choice, marks, stopper, history>>
    BY <1>3 DEF CliStops, tabs
  <2>3. UNCHANGED asking
    BY <1>3 DEF CliStops, asking, loop, child, request, tabs
  <2> QED
    BY <2>1, <2>2, <2>3, GroupsStay DEF Typed
<1>4. CASE CliDies(n)
  <2>1. ChildTyped'
    BY <1>4 DEF CliDies, Typed, ChildTyped, Turns, Procs
  <2>2. HistoryTyped'
    BY <1>4 DEF CliDies, Typed, HistoryTyped
  <2>3. UNCHANGED <<fields, prompter, loop, request, tab, choice, marks, stopper>>
    BY <1>4 DEF CliDies, tabs
  <2>4. UNCHANGED asking
    BY <1>4 DEF CliDies, asking, loop, child, request, tabs
  <2> QED
    BY <2>1, <2>2, <2>3, <2>4, GroupsStay DEF Typed
<1> QED
  BY <1>1, <1>2, <1>3, <1>4 DEF Cli

\* The read loops.
LEMMA ReadTypes ==
    ASSUME Typed, AskInv, NEW n \in Procs, ReadMessage(n) \/ HandleMessage(n)
    PROVE  Typed'
<1>1. CASE ReadContent(n)
  <2>1. FieldsTyped'
    BY <1>1 DEF ReadContent, Step, Typed, FieldsTyped, RunStates, Turns
  <2>2. LoopTyped'
    BY <1>1 DEF ReadContent, Step, Typed, LoopTyped, ReaderSteps, Turns
  <2>3. UNCHANGED <<prompter, child, request, tab, choice, marks, stopper, history>>
    BY <1>1 DEF ReadContent, Step, tabs
  <2> QED
    BY <2>1, <2>2, <2>3, GroupsStay DEF Typed
<1>2. CASE ReadResult(n)
  <2>1. FieldsTyped'
    BY <1>2 DEF ReadResult, Step, Typed, FieldsTyped, RunStates, Turns
  <2>2. ChildTyped'
    BY <1>2 DEF ReadResult, Step, Typed, ChildTyped, Turns, Procs
  <2>3. LoopTyped'
    BY <1>2 DEF ReadResult, Step, Typed, LoopTyped, ReaderSteps, Turns
  <2>4. UNCHANGED <<prompter, request, tab, choice, marks, stopper, history>>
    BY <1>2 DEF ReadResult, Step, tabs
  <2> QED
    BY <2>1, <2>2, <2>3, <2>4, GroupsStay DEF Typed
<1>3. ASSUME NEW some \in BOOLEAN, ReadTasks(n, some) PROVE Typed'
  <2>1. FieldsTyped'
    BY <1>3 DEF ReadTasks, Step, Typed, FieldsTyped, RunStates, Turns
  <2>2. LoopTyped'
    BY <1>3 DEF ReadTasks, Step, Typed, LoopTyped, ReaderSteps, Turns
  <2>3. UNCHANGED <<prompter, child, request, tab, choice, marks, stopper, history>>
    BY <1>3 DEF ReadTasks, Step, tabs
  <2> QED
    BY <2>1, <2>2, <2>3, GroupsStay DEF Typed
<1>4. ASSUME NEW r \in Requests, ReadRequest(n, r) PROVE Typed'
  <2>1. LoopTyped'
    BY <1>4 DEF ReadRequest, Step, Typed, LoopTyped, ReaderSteps, Turns
  <2>2. UNCHANGED <<fields, prompter, child, request, tab, choice, marks, stopper, history>>
    BY <1>4 DEF ReadRequest, Step, tabs
  <2> QED
    BY <2>1, <2>2, GroupsStay DEF Typed
<1>5. CASE OpenTurn(n)
  <2>1. FieldsTyped'
    BY <1>5 DEF OpenTurn, Step, Typed, FieldsTyped, RunStates, Turns
  <2>2. LoopTyped'
    BY <1>5 DEF OpenTurn, Step, Typed, LoopTyped, ReaderSteps, Turns
  <2>3. UNCHANGED <<prompter, child, request, tab, choice, marks, stopper, history>>
    BY <1>5 DEF OpenTurn, Step, tabs
  <2> QED
    BY <2>1, <2>2, <2>3, GroupsStay DEF Typed
<1>6. CASE TurnOpened(n)
  <2>1. FieldsTyped'
    BY <1>6 DEF TurnOpened, Step, Typed, FieldsTyped, RunStates, Turns
  <2>2. LoopTyped'
    BY <1>6 DEF TurnOpened, Step, Typed, LoopTyped, ReaderSteps, Turns
  <2>3. UNCHANGED <<prompter, child, request, tab, choice, marks, stopper, history>>
    BY <1>6 DEF TurnOpened, Step, tabs
  <2> QED
    BY <2>1, <2>2, <2>3, GroupsStay DEF Typed
<1>7. CASE PublishContent(n)
  <2>1. LoopTyped'
    BY <1>7 DEF PublishContent, Step, Typed, LoopTyped, ReaderSteps, Turns
  <2>2. UNCHANGED <<fields, prompter, child, request, tab, choice, marks, stopper, history>>
    BY <1>7 DEF PublishContent, Step, tabs
  <2> QED
    BY <2>1, <2>2, GroupsStay DEF Typed
<1>8. CASE ResultEndsRequests(n)
  <2>1. LoopTyped'
    BY <1>8 DEF ResultEndsRequests, Step, ResolveAllPending, Typed, LoopTyped, ReaderSteps,
       Turns
  <2>2. RequestTyped'
    BY <1>8 DEF ResultEndsRequests, Step, ResolveAllPending, Typed, RequestTyped,
       WaiterSteps
  <2>3. HistoryTyped'
    BY <1>8 DEF ResultEndsRequests, Step, ResolveAllPending, Typed, HistoryTyped,
       RequestTyped
  <2>4. UNCHANGED <<fields, prompter, child, tab, choice, marks, stopper>>
    BY <1>8 DEF ResultEndsRequests, Step, ResolveAllPending, tabs
  <2> QED
    BY <2>1, <2>2, <2>3, <2>4, GroupsStay DEF Typed
<1>9. CASE FinishTurn(n)
  <2>1. FieldsTyped'
    BY <1>9 DEF FinishTurn, Step, Typed, FieldsTyped, RunStates, Turns
  <2>2. LoopTyped'
    BY <1>9 DEF FinishTurn, Step, Typed, LoopTyped, ReaderSteps, Turns
  <2>3. MarksTyped'
    BY <1>9 DEF FinishTurn, Step, Typed, MarksTyped, Turns
  <2>4. HistoryTyped'
    BY <1>9 DEF FinishTurn, Step, Typed, HistoryTyped, FieldsTyped, Turns
  <2>5. UNCHANGED <<prompter, child, request, tab, choice, stopper>>
    BY <1>9 DEF FinishTurn, Step, tabs
  <2> QED
    BY <2>1, <2>2, <2>3, <2>4, <2>5, GroupsStay DEF Typed
<1>10. CASE TasksRead(n)
  <2>1. LoopTyped'
    BY <1>10 DEF TasksRead, Step, Typed, LoopTyped, ReaderSteps, Turns
  <2>2. UNCHANGED <<fields, prompter, child, request, tab, choice, marks, stopper, history>>
    BY <1>10 DEF TasksRead, Step, tabs
  <2> QED
    BY <2>1, <2>2, GroupsStay DEF Typed
<1>11. CASE Settle(n)
  <2>1. LoopTyped'
    BY <1>11 DEF Settle, Step, Typed, LoopTyped, ReaderSteps, Turns
  <2>2. UNCHANGED <<fields, prompter, child, request, tab, choice, marks, stopper, history>>
    BY <1>11 DEF Settle, Step, tabs
  <2> QED
    BY <2>1, <2>2, GroupsStay DEF Typed
<1>12. CASE Settled(n)
  <2>1. FieldsTyped'
    BY <1>12 DEF Settled, Step, Typed, FieldsTyped, RunStates, Turns
  <2>2. LoopTyped'
    BY <1>12 DEF Settled, Step, Typed, LoopTyped, ReaderSteps, Turns
  <2>3. UNCHANGED <<prompter, child, request, tab, choice, marks, stopper, history>>
    BY <1>12 DEF Settled, Step, tabs
  <2> QED
    BY <2>1, <2>2, <2>3, GroupsStay DEF Typed
<1>13. CASE AddPending(n)
  <2>0. held[n] \in Requests
    BY <1>13 DEF AddPending, AskInv, LoopInv
  <2>1. LoopTyped'
    BY <1>13 DEF AddPending, Step, Typed, LoopTyped, ReaderSteps, Turns
  <2>2. RequestTyped'
    BY <1>13, <2>0 DEF AddPending, Step, Typed, RequestTyped, WaiterSteps
  <2>3. UNCHANGED <<fields, prompter, child, tab, choice, marks, stopper, history>>
    BY <1>13 DEF AddPending, Step, tabs
  <2> QED
    BY <2>1, <2>2, <2>3, GroupsStay DEF Typed
<1>14. CASE WaitForOwner(n)
  <2>1. FieldsTyped'
    BY <1>14 DEF WaitForOwner, Step, Typed, FieldsTyped, RunStates, Turns
  <2>2. LoopTyped'
    BY <1>14 DEF WaitForOwner, Step, Typed, LoopTyped, ReaderSteps, Turns
  <2>3. RequestTyped'
    BY <1>14 DEF WaitForOwner, Step, Typed, RequestTyped, WaiterSteps
  <2>4. UNCHANGED <<prompter, child, tab, choice, marks, stopper, history>>
    BY <1>14 DEF WaitForOwner, Step, tabs
  <2> QED
    BY <2>1, <2>2, <2>3, <2>4, GroupsStay DEF Typed
<1>15. CASE ReadEnds(n)
  <2>1. LoopTyped'
    BY <1>15 DEF ReadEnds, Step, Typed, LoopTyped, ReaderSteps, Turns
  <2>2. UNCHANGED <<fields, prompter, child, request, tab, choice, marks, stopper, history>>
    BY <1>15 DEF ReadEnds, Step, tabs
  <2> QED
    BY <2>1, <2>2, GroupsStay DEF Typed
<1>16. CASE ExitClears(n)
  <2>1. FieldsTyped'
    BY <1>16 DEF ExitClears, Step, Typed, FieldsTyped, RunStates, Turns
  <2>2. LoopTyped'
    BY <1>16 DEF ExitClears, Step, Typed, LoopTyped, ReaderSteps, Turns, FieldsTyped
  <2>3. UNCHANGED <<prompter, child, request, tab, choice, marks, stopper, history>>
    BY <1>16 DEF ExitClears, Step, tabs
  <2> QED
    BY <2>1, <2>2, <2>3, GroupsStay DEF Typed
<1>17. CASE ExitEndsRequests(n)
  <2>1. FieldsTyped'
    BY <1>17 DEF ExitEndsRequests, Step, ResolveAllPending, Typed, FieldsTyped, RunStates,
       Turns
  <2>2. LoopTyped'
    BY <1>17 DEF ExitEndsRequests, Step, ResolveAllPending, Typed, LoopTyped, ReaderSteps,
       Turns
  <2>3. RequestTyped'
    BY <1>17 DEF ExitEndsRequests, Step, ResolveAllPending, Typed, RequestTyped, WaiterSteps
  <2>4. HistoryTyped'
    BY <1>17 DEF ExitEndsRequests, Step, ResolveAllPending, Typed, HistoryTyped
  <2>5. UNCHANGED <<prompter, child, tab, choice, marks, stopper>>
    BY <1>17 DEF ExitEndsRequests, Step, ResolveAllPending, tabs
  <2> QED
    BY <2>1, <2>2, <2>3, <2>4, <2>5, GroupsStay DEF Typed
<1>18. CASE ExitIdles(n)
  <2>1. FieldsTyped'
    BY <1>18 DEF ExitIdles, Step, Typed, FieldsTyped, RunStates, Turns
  <2>2. ChildTyped'
    BY <1>18 DEF ExitIdles, Step, Typed, ChildTyped, Turns, Procs
  <2>3. LoopTyped'
    BY <1>18 DEF ExitIdles, Step, Typed, LoopTyped, ReaderSteps, Turns
  <2>4. HistoryTyped'
    BY <1>18 DEF ExitIdles, Step, Typed, HistoryTyped
  <2>5. UNCHANGED <<prompter, request, tab, choice, marks, stopper>>
    BY <1>18 DEF ExitIdles, Step, tabs
  <2> QED
    BY <2>1, <2>2, <2>3, <2>4, <2>5, GroupsStay DEF Typed
<1> QED
  BY <1>1, <1>2, <1>3, <1>4, <1>5, <1>6, <1>7, <1>8, <1>9, <1>10, <1>11, <1>12, <1>13,
     <1>14, <1>15, <1>16, <1>17, <1>18 DEF ReadMessage, HandleMessage

\* The goroutines that wait for the owner, and the tabs that answer.
LEMMA WaitTypes ==
    ASSUME Typed, NEW r \in Requests, Wait(r)
    PROVE  Typed'
<1>1. CASE Wake(r)
  <2>1. RequestTyped'
    BY <1>1 DEF Wake, Waiter, Typed, RequestTyped, WaiterSteps
  <2>2. UNCHANGED <<fields, prompter, child, loop, tab, choice, marks, stopper, history>>
    BY <1>1 DEF Wake, Waiter, tabs
  <2> QED
    BY <2>1, <2>2, GroupsStay DEF Typed
<1>2. CASE Forget(r)
  <2>1. RequestTyped'
    BY <1>2 DEF Forget, Waiter, Typed, RequestTyped, WaiterSteps
  <2>2. UNCHANGED <<fields, prompter, child, loop, tab, choice, marks, stopper, history>>
    BY <1>2 DEF Forget, Waiter, tabs
  <2> QED
    BY <2>1, <2>2, GroupsStay DEF Typed
<1>3. CASE Reply(r)
  <2>1. RequestTyped'
    BY <1>3 DEF Reply, Waiter, Typed, RequestTyped, WaiterSteps
  <2>2. UNCHANGED <<fields, prompter, child, loop, tab, choice, marks, stopper, history>>
    BY <1>3 DEF Reply, Waiter, tabs
  <2> QED
    BY <2>1, <2>2, GroupsStay DEF Typed
<1>4. CASE ResumeTurn(r)
  <2>1. FieldsTyped'
    BY <1>4 DEF ResumeTurn, Waiter, Typed, FieldsTyped, RunStates, Turns
  <2>2. RequestTyped'
    BY <1>4 DEF ResumeTurn, Waiter, Typed, RequestTyped, WaiterSteps
  <2>3. UNCHANGED <<prompter, child, loop, tab, choice, marks, stopper, history>>
    BY <1>4 DEF ResumeTurn, Waiter, tabs
  <2> QED
    BY <2>1, <2>2, <2>3, GroupsStay DEF Typed
<1> QED
  BY <1>1, <1>2, <1>3, <1>4 DEF Wait

LEMMA TabTypes ==
    ASSUME Typed, NEW o \in Owners, SendDecision(o) \/ \E r \in Requests : Respond(o, r)
    PROVE  Typed'
<1>1. ASSUME NEW r \in Requests, Respond(o, r) PROVE Typed'
  <2>1. TabsTyped'
    BY <1>1 DEF Respond, Typed, TabsTyped
  <2>2. UNCHANGED <<fields, prompter, child, loop, request, marks, stopper, history>>
    BY <1>1 DEF Respond
  <2> QED
    BY <2>1, <2>2, GroupsStay DEF Typed
<1>2. CASE SendDecision(o)
  <2>1. RequestTyped'
    BY <1>2 DEF SendDecision, Typed, RequestTyped, WaiterSteps
  <2>2. TabsTyped'
    BY <1>2 DEF SendDecision, Typed, TabsTyped
  <2>3. UNCHANGED <<fields, prompter, child, loop, marks, stopper, history>>
    BY <1>2 DEF SendDecision
  <2> QED
    BY <2>1, <2>2, <2>3, GroupsStay DEF Typed
<1> QED
  BY <1>1, <1>2

\* The interrupt, the reaper and Discard.
LEMMA StopperTypes ==
    ASSUME Typed, Interrupt \/ TimePasses \/ Stopper
    PROVE  Typed' /\ UNCHANGED asking
<1>1. CASE Interrupt
  <2>1. MarksTyped'
    BY <1>1 DEF Interrupt, Typed, MarksTyped, Turns, FieldsTyped
  <2>2. UNCHANGED <<fields, prompter, child, loop, request, tab, choice, stopper, history>>
    BY <1>1 DEF Interrupt, tabs
  <2>3. UNCHANGED asking
    BY <1>1 DEF Interrupt, asking, loop, child, request, tabs
  <2> QED
    BY <2>1, <2>2, <2>3, GroupsStay DEF Typed
<1>2. CASE TimePasses
  <2>1. FieldsTyped'
    BY <1>2 DEF TimePasses, Typed, FieldsTyped, RunStates, Turns
  <2>2. UNCHANGED <<prompter, child, loop, request, tab, choice, marks, stopper, history>>
    BY <1>2 DEF TimePasses, tabs
  <2>3. UNCHANGED asking
    BY <1>2 DEF TimePasses, asking, loop, child, request, tabs
  <2> QED
    BY <2>1, <2>2, <2>3, GroupsStay DEF Typed
<1>3. CASE FindIdle
  <2>1. StopperTyped'
    BY <1>3 DEF FindIdle, Typed, StopperTyped
  <2>2. UNCHANGED <<fields, prompter, child, loop, request, tab, choice, marks, history>>
    BY <1>3 DEF FindIdle, tabs
  <2>3. UNCHANGED asking
    BY <1>3 DEF FindIdle, asking, loop, child, request, tabs
  <2> QED
    BY <2>1, <2>2, <2>3, GroupsStay DEF Typed
<1>4. CASE Reap
  <2>1. FieldsTyped'
    BY <1>4 DEF Reap, LetGo, Typed, FieldsTyped, RunStates, Turns, Procs, NoProc
  <2>2. ChildTyped'
    BY <1>4 DEF Reap, LetGo, Typed, ChildTyped, Turns, Procs, FieldsTyped, NoProc
  <2>3. StopperTyped'
    BY <1>4 DEF Reap, LetGo, Typed, StopperTyped, FieldsTyped
  <2>4. HistoryTyped'
    BY <1>4 DEF Reap, LetGo, Typed, HistoryTyped, FieldsTyped, Procs, NoProc
  <2>5. UNCHANGED <<prompter, loop, request, tab, choice, marks>>
    BY <1>4 DEF Reap, LetGo, tabs
  <2>6. UNCHANGED asking
    BY <1>4 DEF Reap, LetGo, asking, loop, child, request, tabs
  <2> QED
    BY <2>1, <2>2, <2>3, <2>4, <2>5, <2>6, GroupsStay DEF Typed
<1>5. CASE ReapReturns
  <2>1. StopperTyped'
    BY <1>5 DEF ReapReturns, Typed, StopperTyped, NoProc
  <2>2. UNCHANGED <<fields, prompter, child, loop, request, tab, choice, marks, history>>
    BY <1>5 DEF ReapReturns, tabs
  <2>3. UNCHANGED asking
    BY <1>5 DEF ReapReturns, asking, loop, child, request, tabs
  <2> QED
    BY <2>1, <2>2, <2>3, GroupsStay DEF Typed
<1>6. CASE DropSession
  <2>1. StopperTyped'
    BY <1>6 DEF DropSession, Typed, StopperTyped
  <2>2. UNCHANGED <<fields, prompter, child, loop, request, tab, choice, marks, history>>
    BY <1>6 DEF DropSession, tabs
  <2>3. UNCHANGED asking
    BY <1>6 DEF DropSession, asking, loop, child, request, tabs
  <2> QED
    BY <2>1, <2>2, <2>3, GroupsStay DEF Typed
<1>7. CASE CloseSession
  <2>1. FieldsTyped'
    BY <1>7 DEF CloseSession, LetGo, Typed, FieldsTyped, RunStates, Turns, Procs, NoProc
  <2>2. ChildTyped'
    BY <1>7 DEF CloseSession, LetGo, Typed, ChildTyped, Turns, Procs, FieldsTyped, NoProc
  <2>3. StopperTyped'
    BY <1>7 DEF CloseSession, LetGo, Typed, StopperTyped, FieldsTyped
  <2>4. UNCHANGED <<prompter, loop, request, tab, choice, marks, history>>
    BY <1>7 DEF CloseSession, LetGo, tabs
  <2>5. UNCHANGED asking
    BY <1>7 DEF CloseSession, LetGo, asking, loop, child, request, tabs
  <2> QED
    BY <2>1, <2>2, <2>3, <2>4, <2>5, GroupsStay DEF Typed
<1>8. CASE DiscardReturns
  <2>1. StopperTyped'
    BY <1>8 DEF DiscardReturns, Typed, StopperTyped
  <2>2. UNCHANGED <<fields, prompter, child, loop, request, tab, choice, marks, history>>
    BY <1>8 DEF DiscardReturns, tabs
  <2>3. UNCHANGED asking
    BY <1>8 DEF DiscardReturns, asking, loop, child, request, tabs
  <2> QED
    BY <2>1, <2>2, <2>3, GroupsStay DEF Typed
<1> QED
  BY <1>1, <1>2, <1>3, <1>4, <1>5, <1>6, <1>7, <1>8 DEF Stopper

-----------------------------------------------------------------------------
(* The requests.                                                           *)

LEMMA AskingStays ==
    ASSUME AskInv, UNCHANGED asking
    PROVE  AskInv'
<1> USE DEF asking
<1>1. LoopInv'
  BY DEF AskInv, LoopInv
<1>2. WaiterInv'
  BY DEF AskInv, WaiterInv
<1>3. TabInv'
  BY DEF AskInv, TabInv
<1>4. PendingHasWaiter'
  BY DEF AskInv, PendingHasWaiter
<1> QED BY <1>1, <1>2, <1>3, <1>4 DEF AskInv

\* A read loop that has nothing to do with a request before and after the step.
LEMMA LoopMoves ==
    ASSUME IInv, NEW n \in Procs, NEW step \in ReaderSteps \ {"none", "ask", "asked"},
           reader[n] \notin {"none", "ask", "asked"},
           reader' = [reader EXCEPT ![n] = step],
           \A m \in Procs \ {n} : held'[m] = held[m],
           UNCHANGED <<born, pending, buffer, ended, waiter, got, tab, choice>>
    PROVE  AskInv'
<1> USE DEF IInv, AskInv
<1>1. /\ reader'[n] = step /\ \A m \in Procs \ {n} : reader'[m] = reader[m]
  BY DEF Typed, LoopTyped
<1>2. LoopInv'
  BY <1>1 DEF LoopInv
<1>3. WaiterInv'
  BY DEF WaiterInv
<1>4. TabInv'
  BY DEF TabInv
<1>5. PendingHasWaiter'
  BY <1>1 DEF PendingHasWaiter
<1> QED BY <1>2, <1>3, <1>4, <1>5

\* resolveAllPending, by the read loop of a result or of an exit.
LEMMA EndsRequests ==
    ASSUME IInv, NEW n \in Procs, ResultEndsRequests(n) \/ ExitEndsRequests(n)
    PROVE  AskInv'
<1> USE DEF IInv, AskInv
<1>1. /\ ended' = ended \union pending
      /\ UNCHANGED <<held, born, pending, buffer, waiter, got, tab, choice>>
      /\ reader[n] \notin {"none", "ask", "asked"}
      /\ reader'[n] \notin {"none", "ask", "asked"}
      /\ \A m \in Procs \ {n} : reader'[m] = reader[m]
  BY DEF Typed, LoopTyped, ResultEndsRequests, ExitEndsRequests, ResolveAllPending, Step, tabs, child
<1>2. LoopInv'
  BY <1>1 DEF LoopInv
<1>3. WaiterInv'
  BY <1>1 DEF WaiterInv
<1>4. TabInv'
  BY <1>1 DEF TabInv
<1>5. PendingHasWaiter'
  BY <1>1 DEF PendingHasWaiter
<1> QED BY <1>2, <1>3, <1>4, <1>5

LEMMA LaunchAsks ==
    ASSUME IInv, NEW p \in Prompts, Launch(p)
    PROVE  AskInv'
<1> USE DEF IInv, AskInv
<1> DEFINE n == born + 1
<1>1. /\ n \in Procs /\ born \in Nat /\ reader[n] = "none"
  BY Bounds DEF Launch, Typed, ChildTyped, LoopInv, Procs
<1>2. /\ reader'[n] = "reading" /\ \A m \in Procs \ {n} : reader'[m] = reader[m]
      /\ born' = n
      /\ UNCHANGED <<held, pending, buffer, ended, waiter, got, tab, choice>>
  BY <1>1 DEF Launch, Typed, LoopTyped, request, tabs
<1>3. LoopInv'
  <2>1. \A m \in Procs : reader'[m] # "none" => m <= born'
    BY <1>1, <1>2 DEF LoopInv, Procs
  <2> QED BY <1>2, <2>1 DEF LoopInv
<1>4. WaiterInv'
  BY <1>2 DEF WaiterInv
<1>5. TabInv'
  BY <1>2 DEF TabInv
<1>6. PendingHasWaiter'
  BY <1>1, <1>2 DEF PendingHasWaiter
<1> QED BY <1>3, <1>4, <1>5, <1>6

LEMMA RequestIsRead ==
    ASSUME IInv, NEW n \in Procs, NEW r \in Requests, ReadRequest(n, r)
    PROVE  AskInv'
<1> USE DEF IInv, AskInv
<1>1. /\ reader'[n] = "ask" /\ held'[n] = r /\ reader[n] = "reading"
      /\ \A m \in Procs \ {n} : reader'[m] = reader[m] /\ held'[m] = held[m]
      /\ waiter[r] = "none" /\ r \notin pending
      /\ \A m \in Procs : held[m] # r
      /\ UNCHANGED <<born, pending, buffer, ended, waiter, got, tab, choice>>
  BY DEF Typed, LoopTyped, ReadRequest, Step, request, tabs, child
<1>2. LoopInv'
  <2>1. \A m \in Procs : reader'[m] # "none" => m <= born'
    BY <1>1 DEF LoopInv
  <2> QED BY <1>1, <2>1 DEF LoopInv
<1>3. WaiterInv'
  BY <1>1 DEF WaiterInv
<1>4. TabInv'
  BY <1>1 DEF TabInv
<1>5. PendingHasWaiter'
  BY <1>1 DEF PendingHasWaiter
<1> QED BY <1>2, <1>3, <1>4, <1>5

LEMMA RequestIsAdded ==
    ASSUME IInv, NEW n \in Procs, AddPending(n)
    PROVE  AskInv'
<1> USE DEF IInv, AskInv
<1>1. /\ reader'[n] = "asked" /\ reader[n] = "ask"
      /\ \A m \in Procs \ {n} : reader'[m] = reader[m]
      /\ pending' = pending \union {held[n]}
      /\ UNCHANGED <<held, born, buffer, ended, waiter, got, tab, choice>>
  BY DEF Typed, LoopTyped, AddPending, Step, tabs, child
<1>2. held[n] \in Requests /\ waiter[held[n]] = "none"
  BY <1>1 DEF LoopInv
<1>3. LoopInv'
  <2>1. \A m \in Procs : reader'[m] # "none" => m <= born'
    BY <1>1 DEF LoopInv
  <2>2. \A m \in Procs : reader'[m] = "ask" => held'[m] \notin pending'
    BY <1>1 DEF LoopInv
  <2> QED BY <1>1, <2>1, <2>2 DEF LoopInv
<1>4. WaiterInv'
  BY <1>1, <1>2 DEF WaiterInv
<1>5. TabInv'
  BY <1>1 DEF TabInv
<1>6. PendingHasWaiter'
  BY <1>1 DEF PendingHasWaiter
<1> QED BY <1>3, <1>4, <1>5, <1>6

LEMMA RequestIsPut ==
    ASSUME IInv, NEW n \in Procs, WaitForOwner(n)
    PROVE  AskInv'
<1> USE DEF IInv, AskInv
<1> DEFINE r == held[n]
<1>1. /\ reader'[n] = "reading" /\ reader[n] = "asked"
      /\ \A m \in Procs \ {n} : reader'[m] = reader[m] /\ held'[m] = held[m]
      /\ UNCHANGED <<pending, born, buffer, ended, got, tab, choice>>
  BY DEF Typed, LoopTyped, WaitForOwner, Step, tabs, child
<1>2. r \in Requests /\ waiter[r] = "none"
  BY <1>1 DEF LoopInv
<1>3. waiter'[r] = "waiting" /\ \A s \in Requests \ {r} : waiter'[s] = waiter[s]
  BY <1>2 DEF WaitForOwner, Typed, RequestTyped
<1>4. LoopInv'
  <2>1. \A m \in Procs : reader'[m] # "none" => m <= born'
    BY <1>1 DEF LoopInv
  <2>2. \A m \in Procs : reader'[m] \in {"ask", "asked"} => m # n /\ held[m] # r
    BY <1>1 DEF LoopInv
  <2> QED BY <1>1, <1>3, <2>1, <2>2 DEF LoopInv
<1>5. WaiterInv'
  BY <1>1, <1>2, <1>3 DEF WaiterInv
<1>6. TabInv'
  BY <1>1 DEF TabInv
<1>7. PendingHasWaiter'
  <2> SUFFICES ASSUME NEW s \in pending'
               PROVE  (\/ waiter[s] \in {"waiting", "woken"}
                       \/ \E m \in Procs : reader[m] = "asked" /\ held[m] = s)'
    BY DEF PendingHasWaiter
  <2>1. s \in pending /\ s \in Requests
    BY <1>1 DEF Typed, RequestTyped
  <2>2. CASE s = r
    BY <1>3, <2>2
  <2>3. CASE s # r /\ waiter[s] \in {"waiting", "woken"}
    BY <1>3, <2>1, <2>3
  <2>4. CASE s # r /\ \E m \in Procs : reader[m] = "asked" /\ held[m] = s
    BY <1>1, <2>4
  <2> QED BY <2>1, <2>2, <2>3, <2>4 DEF PendingHasWaiter
<1> QED BY <1>4, <1>5, <1>6, <1>7

\* What the waiter of a request does to the others: nothing.
OthersStay(r) ==
    /\ waiter'[r] # "none" /\ waiter[r] # "none"
    /\ \A s \in Requests \ {r} :
          /\ waiter'[s] = waiter[s] /\ got'[s] = got[s] /\ buffer'[s] = buffer[s]
          /\ (s \in pending') <=> (s \in pending)
    /\ UNCHANGED <<reader, held, born, ended, tab, choice>>

LEMMA WaiterMoves ==
    ASSUME IInv, NEW r \in Requests, Wait(r)
    PROVE  OthersStay(r)
<1> USE DEF OthersStay, IInv, Typed, RequestTyped, Waiter, loop, child, tabs
<1>1. CASE Wake(r)
  BY <1>1 DEF Wake
<1>2. CASE Forget(r)
  BY <1>2 DEF Forget
<1>3. CASE Reply(r)
  BY <1>3 DEF Reply
<1>4. CASE ResumeTurn(r)
  BY <1>4 DEF ResumeTurn
<1> QED BY <1>1, <1>2, <1>3, <1>4 DEF Wait

\* ... and to its own.
WokenBy(r) ==
    /\ waiter[r] = "waiting" /\ waiter'[r] = "woken"
    /\ \/ got'[r] \in Owners /\ buffer[r] = {got'[r]}
       \/ got'[r] = "the turn ended" /\ buffer[r] = {} /\ r \in ended
    /\ buffer'[r] = {}
    /\ UNCHANGED pending

MovedOn(r) ==
    /\ UNCHANGED <<got, buffer>>
    /\ r \notin pending'
    /\ \/ waiter[r] = "woken" /\ waiter'[r] = "forgot"
       \/ /\ waiter[r] = "forgot" /\ waiter'[r] \in {"resuming", "resolved"}
          /\ pending' = pending
       \/ waiter[r] = "resuming" /\ waiter'[r] = "resolved" /\ pending' = pending

LEMMA WaiterOwn ==
    ASSUME IInv, NEW r \in Requests, Wait(r)
    PROVE  WokenBy(r) \/ MovedOn(r)
<1> USE DEF WokenBy, MovedOn, IInv, Typed, RequestTyped, Waiter
<1>1. CASE Wake(r)
  <2>1. /\ waiter[r] = "waiting" /\ waiter'[r] = "woken" /\ buffer'[r] = {} /\ pending' = pending
    BY <1>1 DEF Wake
  <2>2. CASE \E o \in buffer[r] : got' = [got EXCEPT ![r] = o]
    <3>1. PICK o \in buffer[r] : got' = [got EXCEPT ![r] = o]
      BY <2>2
    <3>2. buffer[r] = {o} /\ o \in Owners
      BY <3>1 DEF AskInv, WaiterInv
    <3> QED BY <2>1, <3>1, <3>2
  <2>3. CASE /\ buffer[r] = {} /\ r \in ended
             /\ got' = [got EXCEPT ![r] = "the turn ended"]
    BY <2>1, <2>3
  <2> QED BY <1>1, <2>2, <2>3 DEF Wake
<1>2. CASE Forget(r)
  BY <1>2 DEF Forget
<1>3. CASE Reply(r)
  BY <1>3 DEF Reply, AskInv, WaiterInv
<1>4. CASE ResumeTurn(r)
  BY <1>4 DEF ResumeTurn, AskInv, WaiterInv
<1> QED BY <1>1, <1>2, <1>3, <1>4 DEF Wait

LEMMA WaiterAsks ==
    ASSUME IInv, NEW r \in Requests, Wait(r)
    PROVE  AskInv'
<1>1. OthersStay(r)
  BY WaiterMoves
<1>2. WokenBy(r) \/ MovedOn(r)
  BY WaiterOwn
<1> USE DEF OthersStay
<1>3. LoopInv'
  BY <1>1 DEF IInv, AskInv, LoopInv
<1>4. WaiterInv'
  <2> SUFFICES ASSUME NEW s \in Requests
               PROVE  (/\ waiter[s] = "none" /\ s \notin pending => buffer[s] = {} /\ s \notin ended
                       /\ got[s] = "unsettled" <=> waiter[s] \in {"none", "waiting"}
                       /\ waiter[s] \in {"forgot", "resuming", "resolved"} => s \notin pending
                       /\ got[s] = "the turn ended" => s \in ended
                       /\ buffer[s] # {} => \E o \in Owners : buffer[s] = {o})'
    BY DEF WaiterInv
  <2>1. CASE s # r
    BY <1>1, <2>1 DEF IInv, AskInv, WaiterInv
  <2>2. CASE s = r /\ WokenBy(r)
    BY <1>1, <2>2, SessionAssumption DEF WokenBy
  <2>3. CASE s = r /\ MovedOn(r)
    BY <1>1, <2>3 DEF MovedOn, IInv, AskInv, WaiterInv
  <2> QED BY <1>2, <2>1, <2>2, <2>3
<1>5. TabInv'
  <2> SUFFICES ASSUME NEW o \in Owners
               PROVE  (/\ tab[o] = "sending" =>
                             choice[o] \in pending \/ got[choice[o]] # "unsettled"
                       /\ tab[o] = "accepted" =>
                             /\ choice[o] \in Requests
                             /\ \/ got[choice[o]] \in Owners
                                \/ got[choice[o]] = "unsettled" /\ buffer[choice[o]] # {})'
    BY DEF TabInv
  <2>1. tab[o] = "sending" => choice[o] \in Requests
    BY DEF IInv, Typed, TabsTyped
  <2>2. CASE choice[o] # r
    BY <1>1, <2>1, <2>2 DEF IInv, AskInv, TabInv
  <2>3. CASE choice[o] = r /\ WokenBy(r)
    BY <1>1, <2>3, SessionAssumption DEF WokenBy, IInv, AskInv, TabInv, WaiterInv
  <2>4. CASE choice[o] = r /\ MovedOn(r)
    BY <1>1, <2>4 DEF MovedOn, IInv, AskInv, TabInv, WaiterInv
  <2> QED BY <1>2, <2>2, <2>3, <2>4
<1>6. PendingHasWaiter'
  <2> SUFFICES ASSUME NEW s \in Requests, s \in pending'
               PROVE  (\/ waiter[s] \in {"waiting", "woken"}
                       \/ \E n \in Procs : reader[n] = "asked" /\ held[n] = s)'
    <3> pending' \in SUBSET Requests
      BY WaitTypes DEF IInv, Typed, RequestTyped
    <3> QED BY DEF PendingHasWaiter
  <2>1. CASE s # r
    BY <1>1, <2>1 DEF IInv, AskInv, PendingHasWaiter
  <2>2. CASE s = r
    BY <1>2, <2>2 DEF WokenBy, MovedOn
  <2> QED BY <2>1, <2>2
<1> QED BY <1>3, <1>4, <1>5, <1>6 DEF AskInv

LEMMA RespondAsks ==
    ASSUME IInv, NEW o \in Owners, NEW r \in Requests, Respond(o, r)
    PROVE  AskInv'
<1> USE DEF IInv, AskInv
<1>1. /\ UNCHANGED <<reader, held, born, pending, buffer, ended, waiter, got>>
      /\ tab[o] = "new"
      /\ tab'[o] = "sending" => choice'[o] = r /\ r \in pending
      /\ tab'[o] # "accepted"
      /\ \A x \in Owners \ {o} : tab'[x] = tab[x] /\ choice'[x] = choice[x]
  BY DEF Respond, Typed, TabsTyped, loop, child, request
<1>2. LoopInv'
  BY <1>1 DEF LoopInv
<1>3. WaiterInv'
  BY <1>1 DEF WaiterInv
<1>4. TabInv'
  BY <1>1 DEF TabInv
<1>5. PendingHasWaiter'
  BY <1>1 DEF PendingHasWaiter
<1> QED BY <1>2, <1>3, <1>4, <1>5

\* A decision that is taken was sent for a request that nobody had settled, or
\* that another owner had.
Decided(o) ==
    LET r == choice[o] IN
    /\ r \in Requests
    /\ UNCHANGED <<reader, held, born, pending, ended, waiter, got>>
    /\ \A x \in Owners \ {o} : tab'[x] = tab[x] /\ choice'[x] = choice[x]
    /\ \A s \in Requests \ {r} : buffer'[s] = buffer[s]
    /\ \/ /\ tab'[o] = "accepted" /\ choice'[o] = r
          /\ buffer[r] = {} /\ buffer'[r] = {o}
          /\ r \notin ended
          /\ got[r] \in Owners \/ (r \in pending /\ got[r] = "unsettled")
       \/ tab'[o] = "refused" /\ buffer' = buffer

LEMMA DecisionSent ==
    ASSUME IInv, NEW o \in Owners, SendDecision(o)
    PROVE  Decided(o)
<1> DEFINE r == choice[o]
<1>1. /\ tab[o] = "sending" /\ r \in Requests
      /\ UNCHANGED <<reader, held, born, pending, ended, waiter, got>>
  BY DEF SendDecision, loop, child, IInv, Typed, TabsTyped
<1>2. \A x \in Owners \ {o} : tab'[x] = tab[x] /\ choice'[x] = choice[x]
  BY DEF SendDecision, IInv, Typed, TabsTyped
<1>3. r \in pending \/ got[r] # "unsettled"
  BY <1>1 DEF IInv, AskInv, TabInv
<1>4. CASE buffer[r] = {} /\ r \notin ended
  <2>1. /\ tab'[o] = "accepted" /\ choice'[o] = r /\ buffer'[r] = {o}
        /\ \A s \in Requests \ {r} : buffer'[s] = buffer[s]
    BY <1>1, <1>4 DEF SendDecision, IInv, Typed, RequestTyped, TabsTyped
  <2>2. got[r] # "the turn ended"
    BY <1>1, <1>4 DEF IInv, AskInv, WaiterInv
  <2>3. got[r] \in Owners \/ (r \in pending /\ got[r] = "unsettled")
    BY <1>1, <1>3, <2>2 DEF IInv, Typed, RequestTyped
  <2> QED BY <1>1, <1>2, <1>4, <2>1, <2>3 DEF Decided
<1>5. CASE ~(buffer[r] = {} /\ r \notin ended)
  <2>1. tab'[o] = "refused" /\ buffer' = buffer
    BY <1>5 DEF SendDecision, IInv, Typed, TabsTyped
  <2> QED BY <1>1, <1>2, <2>1 DEF Decided
<1> QED BY <1>4, <1>5

LEMMA DecisionAsks ==
    ASSUME IInv, NEW o \in Owners, SendDecision(o)
    PROVE  AskInv'
<1>1. Decided(o)
  BY DecisionSent
<1> USE DEF Decided
<1>2. LoopInv'
  BY <1>1 DEF IInv, AskInv, LoopInv
<1>3. WaiterInv'
  <2> SUFFICES ASSUME NEW s \in Requests
               PROVE  (/\ waiter[s] = "none" /\ s \notin pending => buffer[s] = {} /\ s \notin ended
                       /\ got[s] = "unsettled" <=> waiter[s] \in {"none", "waiting"}
                       /\ waiter[s] \in {"forgot", "resuming", "resolved"} => s \notin pending
                       /\ got[s] = "the turn ended" => s \in ended
                       /\ buffer[s] # {} => \E x \in Owners : buffer[s] = {x})'
    BY DEF WaiterInv
  <2>1. CASE buffer'[s] = buffer[s]
    BY <1>1, <2>1 DEF IInv, AskInv, WaiterInv
  <2>2. CASE s = choice[o] /\ buffer'[s] = {o}
    BY <1>1, <2>2, SessionAssumption DEF IInv, AskInv, WaiterInv
  <2> QED BY <1>1, <2>1, <2>2
<1>4. TabInv'
  <2> SUFFICES ASSUME NEW x \in Owners
               PROVE  (/\ tab[x] = "sending" =>
                             choice[x] \in pending \/ got[choice[x]] # "unsettled"
                       /\ tab[x] = "accepted" =>
                             /\ choice[x] \in Requests
                             /\ \/ got[choice[x]] \in Owners
                                \/ got[choice[x]] = "unsettled" /\ buffer[choice[x]] # {})'
    BY DEF TabInv
  <2>1. CASE x = o
    BY <1>1, <2>1
  <2>2. CASE x # o
    BY <1>1, <2>2 DEF IInv, AskInv, TabInv
  <2> QED BY <2>1, <2>2
<1>5. PendingHasWaiter'
  BY <1>1 DEF IInv, AskInv, PendingHasWaiter
<1> QED BY <1>2, <1>3, <1>4, <1>5 DEF AskInv

-----------------------------------------------------------------------------
(* Every step keeps the invariant.                                         *)

\* What a read loop does between requests.
Quietly(n) ==
    /\ reader[n] \notin {"none", "ask", "asked"}
    /\ \E step \in ReaderSteps \ {"none", "ask", "asked"} : reader' = [reader EXCEPT ![n] = step]
    /\ \A m \in Procs \ {n} : held'[m] = held[m]
    /\ UNCHANGED <<born, pending, buffer, ended, waiter, got, tab, choice>>

LEMMA ReadQuietly ==
    ASSUME Typed, NEW n \in Procs, ReadMessage(n) \/ HandleMessage(n)
    PROVE  \/ \E r \in Requests : ReadRequest(n, r)
           \/ AddPending(n) \/ WaitForOwner(n)
           \/ ResultEndsRequests(n) \/ ExitEndsRequests(n)
           \/ Quietly(n)
<1> USE DEF Quietly, ReaderSteps, Step, Typed, LoopTyped, child, request, tabs
<1>1. CASE ReadContent(n)
  BY <1>1 DEF ReadContent
<1>2. CASE ReadResult(n)
  BY <1>2 DEF ReadResult
<1>3. ASSUME NEW some \in BOOLEAN, ReadTasks(n, some) PROVE Quietly(n)
  BY <1>3 DEF ReadTasks
<1>4. CASE OpenTurn(n)
  BY <1>4 DEF OpenTurn
<1>5. CASE TurnOpened(n)
  BY <1>5 DEF TurnOpened
<1>6. CASE PublishContent(n)
  BY <1>6 DEF PublishContent
<1>7. CASE FinishTurn(n)
  BY <1>7 DEF FinishTurn
<1>8. CASE TasksRead(n)
  BY <1>8 DEF TasksRead
<1>9. CASE Settle(n)
  BY <1>9 DEF Settle
<1>10. CASE Settled(n)
  BY <1>10 DEF Settled
<1>11. CASE ReadEnds(n)
  BY <1>11 DEF ReadEnds
<1>12. CASE ExitClears(n)
  BY <1>12 DEF ExitClears
<1>13. CASE ExitIdles(n)
  BY <1>13 DEF ExitIdles
<1> QED BY <1>1, <1>2, <1>3, <1>4, <1>5, <1>6, <1>7, <1>8, <1>9, <1>10, <1>11,
           <1>12, <1>13 DEF ReadMessage, HandleMessage

LEMMA InitIInv == Init => IInv
<1> SUFFICES ASSUME Init PROVE IInv
  OBVIOUS
<1>1. Typed
  <2> USE DEF Init, Procs, NoProc
  <2>1. FieldsTyped /\ PrompterTyped
    BY DEF FieldsTyped, PrompterTyped, RunStates, Turns, PromptSteps
  <2>2. 0 \in 0..MaxProcs /\ 0 \in 0..MaxOwnTurns
    BY Bounds
  <2>3. ChildTyped
    BY <2>2 DEF ChildTyped, Turns
  <2>4. LoopTyped
    BY DEF LoopTyped, Turns, ReaderSteps
  <2>5. RequestTyped /\ TabsTyped
    BY DEF RequestTyped, TabsTyped, WaiterSteps
  <2>6. MarksTyped /\ StopperTyped
    BY DEF MarksTyped, StopperTyped, Turns
  <2>7. HistoryTyped
    BY <2>2 DEF HistoryTyped
  <2> QED BY <2>1, <2>3, <2>4, <2>5, <2>6, <2>7 DEF Typed
<1>2. LoopInv
  BY DEF Init, LoopInv
<1>3. WaiterInv
  BY DEF Init, WaiterInv
<1>4. TabInv /\ PendingHasWaiter
  BY DEF Init, TabInv, PendingHasWaiter
<1> QED BY <1>1, <1>2, <1>3, <1>4 DEF IInv, AskInv

LEMMA NextIInv == IInv /\ [Next]_vars => IInv'
<1> SUFFICES ASSUME IInv, [Next]_vars PROVE Typed' /\ AskInv'
  BY DEF IInv
<1>1. ASSUME NEW p \in Prompts, Prompt(p) \/ \E effort \in Efforts : Arrive(p, effort)
      PROVE  Typed' /\ AskInv'
  <2>1. CASE Launch(p)
    BY <2>1, LaunchTypes, LaunchAsks DEF IInv
  <2>2. CASE ~Launch(p)
    BY <1>1, <2>2, PromptTypes, AskingStays DEF IInv
  <2> QED BY <2>1, <2>2
<1>2. ASSUME NEW n \in Procs, Cli(n)
      PROVE  Typed' /\ AskInv'
  BY <1>2, CliTypes, AskingStays DEF IInv
<1>3. ASSUME NEW n \in Procs, ReadMessage(n) \/ HandleMessage(n)
      PROVE  Typed' /\ AskInv'
  <2>1. Typed'
    BY <1>3, ReadTypes DEF IInv
  <2>2. CASE \E r \in Requests : ReadRequest(n, r)
    BY <2>1, <2>2, RequestIsRead
  <2>3. CASE AddPending(n) \/ WaitForOwner(n)
    BY <2>1, <2>3, RequestIsAdded, RequestIsPut
  <2>4. CASE ResultEndsRequests(n) \/ ExitEndsRequests(n)
    BY <2>1, <2>4, EndsRequests
  <2>5. CASE Quietly(n)
    BY <2>1, <2>5, LoopMoves DEF Quietly
  <2>6. Typed
    BY DEF IInv
  <2> QED BY <1>3, <2>2, <2>3, <2>4, <2>5, <2>6, ReadQuietly
<1>4. ASSUME NEW r \in Requests, Wait(r)
      PROVE  Typed' /\ AskInv'
  BY <1>4, WaitTypes, WaiterAsks DEF IInv
<1>5. ASSUME NEW o \in Owners, SendDecision(o)
      PROVE  Typed' /\ AskInv'
  BY <1>5, TabTypes, DecisionAsks DEF IInv
<1>6. ASSUME NEW o \in Owners, NEW r \in Requests, Respond(o, r)
      PROVE  Typed' /\ AskInv'
  BY <1>6, TabTypes, RespondAsks DEF IInv
<1>7. CASE Interrupt \/ TimePasses \/ Stopper
  BY <1>7, StopperTypes, AskingStays DEF IInv
<1>8. CASE UNCHANGED vars
  <2>1. UNCHANGED asking
    BY <1>8 DEF vars, asking, loop, child, request, tabs
  <2>2. Typed'
    BY <1>8, GroupsStay DEF IInv, Typed, vars, tabs
  <2> QED BY <2>1, <2>2, AskingStays DEF IInv
<1> QED BY <1>1, <1>2, <1>3, <1>4, <1>5, <1>6, <1>7, <1>8 DEF Next

THEOREM Invariance == Spec => []IInv
<1> QED BY InitIInv, NextIInv, PTL DEF Spec

-----------------------------------------------------------------------------
(* What the invariant says of the outcomes.                                *)

LEMMA SlotHolds == \A o \in Owners : InSlot({o}) = o
BY DEF InSlot

LEMMA AcceptedStays == IInv => AcceptedIsNotDenied
<1> SUFFICES ASSUME IInv, NEW o \in Owners, tab[o] = "accepted"
             PROVE  OutcomeOf(choice[o]) \in Owners
  BY DEF AcceptedIsNotDenied
<1> DEFINE r == choice[o]
<1>1. /\ r \in Requests
      /\ got[r] \in Owners \/ (got[r] = "unsettled" /\ buffer[r] # {})
  BY DEF IInv, AskInv, TabInv
<1>2. CASE got[r] \in Owners
  BY <1>2, SessionAssumption DEF OutcomeOf
<1>3. CASE got[r] = "unsettled" /\ buffer[r] # {}
  <2>1. PICK x \in Owners : buffer[r] = {x}
    BY <1>1, <1>3 DEF IInv, AskInv, WaiterInv
  <2> QED BY <1>3, <2>1, SlotHolds DEF OutcomeOf
<1> QED BY <1>1, <1>2, <1>3

\* For any number of prompts, processes, requests and tabs: every request the
\* owner is shown has a goroutine that takes the answer, and no answer the owner
\* was told is taken becomes the denial of a turn that ended (session.go:399-478).
THEOREM RequestsAreSound == Spec => []RequestsSound
<1>1. IInv => RequestsSound
  BY TypedIsTypeOK, AcceptedStays DEF IInv, AskInv, RequestsSound
<1> QED BY <1>1, Invariance, PTL

-----------------------------------------------------------------------------
(* The session implements Interactions.                                    *)

promised == <<[r \in Requests |-> PhaseOf(r)], [r \in Requests |-> OutcomeOf(r)]>>

Same(r) == PhaseOf(r)' = PhaseOf(r) /\ OutcomeOf(r)' = OutcomeOf(r)

Resolving == {"resuming", "resolved"}

LEMMA SameAs ==
    ASSUME NEW r \in Requests,
           got'[r] = got[r], buffer'[r] = buffer[r],
           (r \in ended') <=> (r \in ended), (r \in pending') <=> (r \in pending),
           (waiter'[r] \in Resolving) <=> (waiter[r] \in Resolving)
    PROVE  Same(r)
BY DEF Same, PhaseOf, OutcomeOf, Resolving

LEMMA AllSame ==
    ASSUME \A r \in Requests : Same(r)
    PROVE  UNCHANGED promised
BY DEF Same, promised

\* A step that touches no request.
LEMMA Untold ==
    ASSUME UNCHANGED <<pending, buffer, ended, waiter, got>>
    PROVE  UNCHANGED promised
BY SameAs, AllSame

\* The read loop puts the request to the owner: it is asked.
LEMMA AddingAsks ==
    ASSUME IInv, NEW n \in Procs, AddPending(n)
    PROVE  \E r \in Requests : Promise!Ask(r)
<1>1. PICK r \in Requests : r = held[n]
  BY DEF AddPending, IInv, AskInv, LoopInv
<1>2. /\ r \notin pending /\ waiter[r] = "none"
      /\ pending' = pending \union {r}
      /\ UNCHANGED <<buffer, ended, waiter, got>>
  BY <1>1 DEF AddPending, IInv, AskInv, LoopInv
<1>3. got[r] = "unsettled" /\ buffer[r] = {} /\ r \notin ended
  BY <1>2 DEF IInv, AskInv, WaiterInv
<1>4. /\ PhaseOf(r) = "unasked" /\ PhaseOf(r)' = "open"
      /\ OutcomeOf(r) = "unsettled" /\ OutcomeOf(r)' = "unsettled"
  BY <1>2, <1>3 DEF PhaseOf, OutcomeOf
<1>5. \A s \in Requests \ {r} : Same(s)
  BY <1>2, SameAs
<1> QED BY <1>4, <1>5 DEF Promise!Ask, Same

\* The end of a turn settles what is open, if anything is.
LEMMA EndingSettles ==
    ASSUME IInv, ended' = ended \union pending, UNCHANGED <<pending, buffer, waiter, got>>
    PROVE  Promise!EndTurn \/ UNCHANGED promised
<1>1. ASSUME NEW r \in Requests, PhaseOf(r) = "open"
      PROVE  PhaseOf(r)' = "settled" /\ OutcomeOf(r)' = "the turn ended"
  <2>1. OutcomeOf(r) = "unsettled" /\ r \in pending /\ waiter[r] \notin Resolving
    BY <1>1 DEF PhaseOf, Resolving
  <2>2. got[r] = "unsettled"
    BY <2>1 DEF OutcomeOf
  <2>3. buffer[r] = {}
    BY <2>1, <2>2, SlotHolds, SessionAssumption DEF OutcomeOf, IInv, AskInv, WaiterInv
  <2> QED BY <2>1, <2>2, <2>3 DEF PhaseOf, OutcomeOf, Resolving
<1>2. ASSUME NEW r \in Requests, PhaseOf(r) # "open"
      PROVE  Same(r)
  <2>1. CASE r \notin pending \/ r \in ended
    BY <2>1, SameAs
  <2>2. CASE waiter[r] \in Resolving /\ r \in pending
    BY <2>2 DEF IInv, AskInv, WaiterInv, Resolving
  <2>3. CASE r \in pending /\ r \notin ended /\ waiter[r] \notin Resolving
    BY <1>2, <2>3 DEF PhaseOf, OutcomeOf, Same, Resolving
  <2> QED BY <2>1, <2>2, <2>3
<1>3. CASE \E r \in Requests : PhaseOf(r) = "open"
  BY <1>1, <1>2, <1>3 DEF Promise!EndTurn, Promise!TurnEnded, Same
<1>4. CASE ~\E r \in Requests : PhaseOf(r) = "open"
  BY <1>2, <1>4, AllSame
<1> QED BY <1>3, <1>4

\* The waiter that is woken takes what settled the request; it resolves the
\* request when it replies.
LEMMA WaitingResolves ==
    ASSUME IInv, NEW r \in Requests, Wait(r)
    PROVE  Promise!Resolve(r) \/ UNCHANGED promised
<1>1. OthersStay(r)
  BY WaiterMoves
<1>2. \A s \in Requests \ {r} : Same(s)
  BY <1>1, SameAs DEF OthersStay
<1>3. CASE WokenBy(r)
  <2>1. got[r] = "unsettled"
    BY <1>3 DEF WokenBy, IInv, AskInv, WaiterInv
  <2>2. OutcomeOf(r) = got'[r]
    BY <1>3, <2>1, SlotHolds DEF WokenBy, OutcomeOf
  <2>3. OutcomeOf(r)' = got'[r] /\ got'[r] # "unsettled"
    BY <1>3, SessionAssumption DEF WokenBy, OutcomeOf
  <2>4. PhaseOf(r) = "settled" /\ PhaseOf(r)' = "settled"
    BY <1>3, <2>2, <2>3 DEF WokenBy, PhaseOf
  <2> QED BY <1>2, <2>2, <2>3, <2>4, AllSame DEF Same
<1>4. CASE MovedOn(r) /\ waiter[r] = "forgot"
  <2>1. got[r] # "unsettled" /\ UNCHANGED got
    BY <1>4 DEF MovedOn, IInv, AskInv, WaiterInv
  <2>2. /\ OutcomeOf(r) = got[r] /\ OutcomeOf(r)' = got[r]
        /\ PhaseOf(r) = "settled" /\ PhaseOf(r)' = "resolved"
    BY <1>4, <2>1 DEF MovedOn, OutcomeOf, PhaseOf
  <2> QED BY <1>2, <2>2 DEF Promise!Resolve, Same
<1>5. CASE MovedOn(r) /\ waiter[r] # "forgot"
  <2>1. got[r] # "unsettled" /\ UNCHANGED got
    BY <1>5 DEF MovedOn, IInv, AskInv, WaiterInv
  <2>2. Same(r)
    BY <1>5, <2>1 DEF MovedOn, OutcomeOf, PhaseOf, Same
  <2> QED BY <1>2, <2>2, AllSame
<1> QED BY <1>3, <1>4, <1>5, WaiterOwn

\* The decision that is taken settles the request, unless another owner's had.
LEMMA DecidingSettles ==
    ASSUME IInv, NEW o \in Owners, SendDecision(o)
    PROVE  (\E r \in Requests : Promise!Settle(r, o)) \/ UNCHANGED promised
<1>1. Decided(o)
  BY DecisionSent
<1>2. PICK r \in Requests : r = choice[o]
  BY <1>1 DEF Decided
<1>3. /\ UNCHANGED <<pending, ended, waiter, got>>
      /\ \A s \in Requests \ {r} : buffer'[s] = buffer[s]
  BY <1>1, <1>2 DEF Decided
<1>4. \/ buffer' = buffer
      \/ /\ buffer[r] = {} /\ buffer'[r] = {o} /\ r \notin ended
         /\ got[r] \in Owners \/ (r \in pending /\ got[r] = "unsettled")
  BY <1>1, <1>2 DEF Decided
<1>5. \A s \in Requests \ {r} : Same(s)
  BY <1>3, SameAs
<1>6. CASE buffer' = buffer
  BY <1>3, <1>6, Untold
<1>7. CASE got[r] \in Owners
  <2>1. Same(r)
    BY <1>3, <1>7, SessionAssumption DEF Same, PhaseOf, OutcomeOf
  <2> QED BY <1>5, <2>1, AllSame
<1>8. CASE /\ got[r] = "unsettled" /\ r \in pending /\ r \notin ended
           /\ buffer[r] = {} /\ buffer'[r] = {o}
  <2>1. waiter[r] \notin Resolving
    BY <1>8 DEF IInv, AskInv, WaiterInv, Resolving
  <2>2. InSlot(buffer'[r]) = o /\ o # "unsettled"
    BY <1>8, SlotHolds, SessionAssumption
  <2>3. OutcomeOf(r) = "unsettled" /\ OutcomeOf(r)' = o
    BY <1>3, <1>8, <2>2 DEF OutcomeOf
  <2>4. PhaseOf(r) = "open" /\ PhaseOf(r)' = "settled"
    BY <1>3, <1>8, <2>1, <2>2, <2>3 DEF PhaseOf, Resolving
  <2> QED BY <1>5, <2>3, <2>4 DEF Promise!Settle, Same
<1> QED BY <1>4, <1>6, <1>7, <1>8

LEMMA StepKeepsPromise == IInv /\ [Next]_vars => [Promise!Next]_promised
<1> SUFFICES ASSUME IInv, [Next]_vars PROVE Promise!Next \/ UNCHANGED promised
  BY DEF promised
<1>1. ASSUME NEW p \in Prompts, Prompt(p) \/ \E effort \in Efforts : Arrive(p, effort)
      PROVE  UNCHANGED promised
  <2>1. UNCHANGED <<pending, buffer, ended, waiter, got>>
    <3>1. CASE Launch(p)
      BY <3>1 DEF Launch, request
    <3>2. CASE ~Launch(p)
      BY <1>1, <3>2, PromptTypes DEF IInv, asking
    <3> QED BY <3>1, <3>2
  <2> QED BY <2>1, Untold
<1>2. ASSUME NEW n \in Procs, Cli(n)
      PROVE  UNCHANGED promised
  BY <1>2, CliTypes, Untold DEF IInv, asking
<1>3. ASSUME NEW n \in Procs, ReadMessage(n) \/ HandleMessage(n)
      PROVE  Promise!Next \/ UNCHANGED promised
  <2>1. CASE \E r \in Requests : ReadRequest(n, r)
    <3>1. UNCHANGED <<pending, buffer, ended, waiter, got>>
      BY <2>1 DEF ReadRequest, request
    <3> QED BY <3>1, Untold
  <2>2. CASE AddPending(n)
    BY <2>2, AddingAsks DEF Promise!Next
  <2>3. CASE WaitForOwner(n)
    <3>1. held[n] \in Requests /\ waiter[held[n]] = "none"
      BY <2>3 DEF WaitForOwner, IInv, AskInv, LoopInv
    <3>2. \A r \in Requests : Same(r)
      BY <2>3, <3>1, SameAs DEF WaitForOwner, Resolving, IInv, Typed, RequestTyped
    <3> QED BY <3>2, AllSame
  <2>4. CASE ResultEndsRequests(n) \/ ExitEndsRequests(n)
    <3>1. ended' = ended \union pending /\ UNCHANGED <<pending, buffer, waiter, got>>
      BY <2>4 DEF ResultEndsRequests, ExitEndsRequests, ResolveAllPending
    <3> QED BY <3>1, EndingSettles DEF Promise!Next
  <2>5. CASE Quietly(n)
    BY <2>5, Untold DEF Quietly
  <2>6. Typed
    BY DEF IInv
  <2> QED BY <1>3, <2>1, <2>2, <2>3, <2>4, <2>5, <2>6, ReadQuietly
<1>4. ASSUME NEW r \in Requests, Wait(r)
      PROVE  Promise!Next \/ UNCHANGED promised
  BY <1>4, WaitingResolves DEF Promise!Next
<1>5. ASSUME NEW o \in Owners, SendDecision(o)
      PROVE  Promise!Next \/ UNCHANGED promised
  BY <1>5, DecidingSettles DEF Promise!Next
<1>6. ASSUME NEW o \in Owners, NEW r \in Requests, Respond(o, r)
      PROVE  UNCHANGED promised
  BY <1>6, Untold DEF Respond, request
<1>7. CASE Interrupt \/ TimePasses \/ Stopper
  BY <1>7, StopperTypes, Untold DEF IInv, asking
<1>8. CASE UNCHANGED vars
  BY <1>8, Untold DEF vars, request
<1> QED BY <1>1, <1>2, <1>3, <1>4, <1>5, <1>6, <1>7, <1>8 DEF Next

LEMMA StartsPromise == Init => Promise!Init
<1> SUFFICES ASSUME Init PROVE Promise!Init
  OBVIOUS
<1>1. \A r \in Requests : PhaseOf(r) = "unasked" /\ OutcomeOf(r) = "unsettled"
  BY DEF Init, PhaseOf, OutcomeOf
<1> QED BY <1>1 DEF Promise!Init, Promise!Unsettled

\* The session implements Interactions: each request is put to the owner once,
\* settled once, and answered and reported once with what settled it, whatever
\* tabs, turn ends, exits and discards do at the same time (session.go:399-478).
THEOREM SessionKeepsPromise == Spec => KeepsPromise
<1>1. Spec => Init /\ [][Next]_vars
  BY DEF Spec
<1> QED BY <1>1, StartsPromise, StepKeepsPromise, Invariance, PTL
        DEF KeepsPromise, Promise!Spec, promised

-----------------------------------------------------------------------------
(* The life of the session: its processes and its turns.                   *)

\* What the session and the prompts have is a process that was started, or none.
PlaceInv ==
    /\ proc \in 0..born
    /\ \A p \in Prompts : inHand[p] \in 0..born
    /\ \A p \in Prompts : at[p] \in {"keep", "init", "write"} => inHand[p] # NoProc

\* Content is read of a turn the CLI is in.
OpenInv == \A n \in Procs : reader[n] \in {"open", "opened", "content"} => cli[n] # "none"

\* A process that will end the turn of the session, or its exit will.
Works(n) == \/ reader[n] \in {"result", "finish", "exiting"}
            \/ reader[n] \notin Gone /\ (cli[n] # "none" \/ inbox[n] # <<>>)

Written == {"sent", "announce", "accepted"}

BusyInv == turn # "none" /\ (turn \in Prompts => at[turn] \in Written) =>
              \E n \in 1..born : Works(n)

\* The mark of an interrupt is one of the turn that runs.
MarkInv == /\ ~misled
           /\ turn \in Prompts => interrupted \in {"none", turn}

TurnInv == PlaceInv /\ OpenInv /\ BusyInv /\ MarkInv

\* Of prompts that come one at a time there is one ...
AloneInv == \A p, q \in InFlight : p = q

\* ... a process that does not run was let go of, or died ...
DeadInv == /\ \A n \in Procs : reader[n] \in Gone => n \notin alive
           /\ \A n \in 1..born : n \notin alive => n \in hungUp \union died

\* ... the session has the process that is being initialized, or has lost it ...
KeptInv == \A p \in Prompts : at[p] = "init" => proc \in {NoProc, inHand[p]}

\* ... and has no other that is not ready, or whose exit was handled ...
RestInv == proc # NoProc /\ (proc \notin ready \/ reader[proc] \in {"cleared", "denied", "over"})
              => \E p \in Prompts : at[p] \in {"init", "fail"}

\* ... the row is "starting" while a process is, or while an exit is that ends it ...
Ending == \E n \in 1..born : n \in hungUp \union died /\ reader[n] # "over"

Starting(p) == \/ at[p] \in {"launch", "ready"}
               \/ at[p] = "keep" /\ reader[inHand[p]] # "over"
               \/ at[p] \in {"init", "fail"} /\ proc # NoProc /\ reader[proc] # "over"

StartInv == state = "starting" => Ending \/ \E p \in Prompts : Starting(p)

\* ... no turn but its own runs beside a prompt on its way in, unless the CLI's ...
ClaimInv == \A p \in InFlight : turn \in {"none", "own", p}

\* ... and a prompt that claimed the turn has it until its end is told, or is held
\* by the exit that will tell it.
ToldInv == \A p \in Prompts : at[p] \in {"write"} \union Written =>
              \/ p \in told \/ turn = p
              \/ \E n \in Procs : held[n] = p /\ reader[n] \in {"cleared", "denied"}

OneInv == /\ AloneInv /\ DeadInv /\ KeptInv /\ RestInv /\ PromptedAfterInitialize
          /\ StartInv /\ ClaimInv /\ ToldInv

\* What the steps below rely on of the types.
Shapes ==
    /\ Procs = 1..MaxProcs /\ MaxProcs \in Nat /\ born \in 0..MaxProcs
    /\ proc \in Nat /\ inHand \in [Prompts -> Nat]
    /\ at \in [Prompts -> PromptSteps]
    /\ hungUp \in SUBSET Procs /\ ready \in SUBSET Procs
    /\ inbox \in [Procs -> Seq(Prompts)] /\ cli \in [Procs -> Turns]
    /\ reader \in [Procs -> ReaderSteps]
    /\ DOMAIN held = Procs /\ turn \in Turns /\ "none" \notin Prompts /\ "own" \notin Prompts
    /\ \A n \in Procs : reader[n] # "none" => n <= born

LEMMA ShapesHold == IInv => Shapes
<1> SUFFICES ASSUME IInv PROVE Shapes
  OBVIOUS
<1>1. /\ Procs = 1..MaxProcs /\ MaxProcs \in Nat /\ born \in 0..MaxProcs
      /\ "none" \notin Prompts /\ "own" \notin Prompts
  BY SessionAssumption DEF IInv, Typed, ChildTyped, Procs
<1>2. proc \in Nat /\ turn \in Turns
  BY <1>1 DEF IInv, Typed, FieldsTyped, NoProc
<1>3. inHand \in [Prompts -> Nat] /\ at \in [Prompts -> PromptSteps]
  BY <1>1 DEF IInv, Typed, PrompterTyped, NoProc
<1>4. /\ hungUp \in SUBSET Procs /\ ready \in SUBSET Procs
      /\ inbox \in [Procs -> Seq(Prompts)] /\ cli \in [Procs -> Turns]
  BY DEF IInv, Typed, ChildTyped
<1>5. /\ reader \in [Procs -> ReaderSteps] /\ DOMAIN held = Procs
      /\ \A n \in Procs : reader[n] # "none" => n <= born
  BY DEF IInv, Typed, LoopTyped, AskInv, LoopInv
<1> QED BY <1>1, <1>2, <1>3, <1>4, <1>5 DEF Shapes

LEMMA AppendsOne == \A s \in Seq(Prompts), p \in Prompts : Append(s, p) # <<>>
<1> TAKE s \in Seq(Prompts), p \in Prompts
<1>1. Len(Append(s, p)) = Len(s) + 1 /\ Len(s) \in Nat
  OBVIOUS
<1>2. Len(<<>>) = 0
  OBVIOUS
<1> QED BY <1>1, <1>2

\* A part of the invariant that a step does not touch stays.
LEMMA TurnStays ==
    /\ PlaceInv /\ UNCHANGED <<proc, inHand, born, at>> => PlaceInv'
    /\ OpenInv /\ UNCHANGED <<reader, cli>> => OpenInv'
    /\ BusyInv /\ UNCHANGED <<turn, at, reader, cli, inbox, born>> => BusyInv'
    /\ MarkInv /\ UNCHANGED <<turn, interrupted, misled>> => MarkInv'
<1>1. PlaceInv /\ UNCHANGED <<proc, inHand, born, at>> => PlaceInv'
  BY DEF PlaceInv, NoProc
<1>2. OpenInv /\ UNCHANGED <<reader, cli>> => OpenInv'
  BY DEF OpenInv
<1>3. BusyInv /\ UNCHANGED <<turn, at, reader, cli, inbox, born>> => BusyInv'
  BY DEF BusyInv, Works, Written, Gone
<1>4. MarkInv /\ UNCHANGED <<turn, interrupted, misled>> => MarkInv'
  BY DEF MarkInv
<1> QED BY <1>1, <1>2, <1>3, <1>4

LEMMA OneStays ==
    /\ AloneInv /\ UNCHANGED <<at>> => AloneInv'
    /\ DeadInv /\ UNCHANGED <<reader, alive, hungUp, died, born>> => DeadInv'
    /\ KeptInv /\ UNCHANGED <<at, proc, inHand>> => KeptInv'
    /\ RestInv /\ UNCHANGED <<proc, reader, ready, at>> => RestInv'
    /\ PromptedAfterInitialize /\ UNCHANGED <<at, inHand, ready>> => PromptedAfterInitialize'
    /\ StartInv /\ UNCHANGED <<state, at, proc, inHand, reader, hungUp, died, born>> => StartInv'
    /\ ClaimInv /\ UNCHANGED <<turn, at>> => ClaimInv'
    /\ ToldInv /\ UNCHANGED <<at, turn, told, held, reader>> => ToldInv'
<1>1. AloneInv /\ UNCHANGED <<at>> => AloneInv'
  BY DEF AloneInv, InFlight
<1>2. DeadInv /\ UNCHANGED <<reader, alive, hungUp, died, born>> => DeadInv'
  BY DEF DeadInv, Gone
<1>3. KeptInv /\ UNCHANGED <<at, proc, inHand>> => KeptInv'
  BY DEF KeptInv, NoProc
<1>4. RestInv /\ UNCHANGED <<proc, reader, ready, at>> => RestInv'
  BY DEF RestInv, NoProc
<1>5. PromptedAfterInitialize /\ UNCHANGED <<at, inHand, ready>> => PromptedAfterInitialize'
  BY DEF PromptedAfterInitialize
<1>6. StartInv /\ UNCHANGED <<state, at, proc, inHand, reader, hungUp, died, born>> => StartInv'
  BY DEF StartInv, Starting, Ending, NoProc
<1>7. ClaimInv /\ UNCHANGED <<turn, at>> => ClaimInv'
  BY DEF ClaimInv, InFlight
<1>8. ToldInv /\ UNCHANGED <<at, turn, told, held, reader>> => ToldInv'
  BY DEF ToldInv, Written
<1> QED BY <1>1, <1>2, <1>3, <1>4, <1>5, <1>6, <1>7, <1>8

\* The goroutines inside prompt.
LEMMA PromptTurns ==
    ASSUME IInv, TurnInv, NEW p \in Prompts, Prompt(p)
    PROVE  TurnInv'
<1>0. Shapes /\ PlaceInv /\ OpenInv /\ BusyInv /\ MarkInv
  BY ShapesHold DEF TurnInv
<1>1. Procs = 1..MaxProcs /\ MaxProcs \in Nat /\ born \in Nat /\ born <= MaxProcs
      /\ 1..born \subseteq Procs
      /\ "none" \notin Prompts /\ "own" \notin Prompts
  BY <1>0 DEF Shapes
<1>2. CASE EnsureRunning(p)
  <2>1. /\ at[p] = "ensure" /\ at'[p] \in {"start", "claim", "stop"}
        /\ at'[p] = "claim" => proc # NoProc
        /\ \A q \in Prompts \ {p} : at'[q] = at[q]
        /\ UNCHANGED <<proc, turn, state, inHand, born, alive, hungUp, inbox, cli, ready,
                       reader, held, died, told, interrupted, misled>>
    BY <1>2, <1>0 DEF EnsureRunning, Goto, fields, prompter, child, loop, history, tabs, marks,
       Shapes, Procs, NoProc
  <2>2. PlaceInv'
    BY <1>0, <1>1, <2>1 DEF PlaceInv, NoProc
  <2>3. BusyInv'
    <3>1. \A m \in 1..born : Works(m) => Works(m)'
      BY <1>1, <2>1 DEF Works, Gone
    <3> QED BY <1>0, <2>1, <3>1 DEF BusyInv, Written
  <2> QED BY <1>0, <2>1, <2>2, <2>3, TurnStays DEF TurnInv
<1>3. CASE StopProcess(p)
  <2>1. /\ at[p] \in {"stop", "fail"} /\ at'[p] \in {"stopping", "failing"}
        /\ inHand'[p] = proc /\ proc' = NoProc /\ hungUp' = hungUp \union ({proc} \ {NoProc})
        /\ \A q \in Prompts \ {p} : at'[q] = at[q] /\ inHand'[q] = inHand[q]
        /\ UNCHANGED <<turn, state, born, alive, inbox, cli, ready, reader, held, died, told,
                       interrupted, misled>>
    BY <1>3, <1>0 DEF StopProcess, LetGo, Goto, fields, child, loop, history, tabs, marks,
       Shapes, Procs, NoProc
  <2>2. PlaceInv'
    BY <1>0, <1>1, <2>1 DEF PlaceInv, NoProc
  <2>3. BusyInv'
    <3>1. \A m \in 1..born : Works(m) => Works(m)'
      BY <1>1, <2>1 DEF Works, Gone
    <3> QED BY <1>0, <2>1, <3>1 DEF BusyInv, Written
  <2> QED BY <1>0, <2>1, <2>2, <2>3, TurnStays DEF TurnInv
<1>4. CASE StopReturns(p)
  <2>1. /\ at[p] \in {"stopping", "failing"} /\ at'[p] \in {"start", "refused"}
        /\ inHand'[p] \in {NoProc, inHand[p]}
        /\ \A q \in Prompts \ {p} : at'[q] = at[q] /\ inHand'[q] = inHand[q]
        /\ UNCHANGED <<proc, turn, state, born, alive, hungUp, inbox, cli, ready, reader, held,
                       died, told, interrupted, misled>>
    BY <1>4, <1>0 DEF StopReturns, Leave, Goto, fields, child, loop, history, tabs, marks,
       Shapes, Procs, NoProc
  <2>2. PlaceInv'
    BY <1>0, <1>1, <2>1 DEF PlaceInv, NoProc
  <2>3. BusyInv'
    <3>1. \A m \in 1..born : Works(m) => Works(m)'
      BY <1>1, <2>1 DEF Works, Gone
    <3> QED BY <1>0, <2>1, <3>1 DEF BusyInv, Written
  <2> QED BY <1>0, <2>1, <2>2, <2>3, TurnStays DEF TurnInv
<1>5. CASE Start(p)
  <2>1. /\ at[p] = "start" /\ at'[p] = "launch"
        /\ \A q \in Prompts \ {p} : at'[q] = at[q]
        /\ UNCHANGED <<proc, turn, inHand, born, alive, hungUp, inbox, cli, ready, reader,
                       held, died, told, interrupted, misled>>
    BY <1>5, <1>0 DEF Start, Goto, fields, prompter, child, loop, history, tabs, marks, Shapes,
       Procs, NoProc
  <2>2. PlaceInv'
    BY <1>0, <1>1, <2>1 DEF PlaceInv, NoProc
  <2>3. BusyInv'
    <3>1. \A m \in 1..born : Works(m) => Works(m)'
      BY <1>1, <2>1 DEF Works, Gone
    <3> QED BY <1>0, <2>1, <3>1 DEF BusyInv, Written
  <2> QED BY <1>0, <2>1, <2>2, <2>3, TurnStays DEF TurnInv
<1>6. CASE Launch(p)
  <2>1. /\ at[p] = "launch" /\ at'[p] = "keep" /\ inHand'[p] = born + 1
        /\ born < MaxProcs /\ born' = born + 1 /\ alive' = alive \union {born + 1}
        /\ reader'[born + 1] = "reading" /\ \A m \in Procs \ {born + 1} : reader'[m] = reader[m]
        /\ \A q \in Prompts \ {p} : at'[q] = at[q] /\ inHand'[q] = inHand[q]
        /\ UNCHANGED <<proc, turn, state, hungUp, inbox, cli, ready, held, died, told,
                       interrupted, misled>>
    BY <1>6, <1>0 DEF Launch, Goto, fields, child, loop, history, tabs, marks, Shapes, Procs,
       NoProc
  <2>2. PlaceInv'
    BY <1>0, <1>1, <2>1 DEF PlaceInv, NoProc
  <2>3. OpenInv'
    BY <1>0, <1>1, <2>1 DEF OpenInv
  <2>4. BusyInv'
    <3>1. \A m \in 1..born : Works(m) => Works(m)' /\ m \in 1..born'
      BY <1>1, <2>1 DEF Works, Gone
    <3> QED BY <1>0, <2>1, <3>1 DEF BusyInv, Written
  <2> QED BY <1>0, <2>1, <2>2, <2>3, <2>4, TurnStays DEF TurnInv
<1>7. CASE LaunchFails(p)
  <2>1. /\ at[p] = "launch" /\ at'[p] = "refused" /\ inHand'[p] = NoProc /\ state' = "idle"
        /\ \A q \in Prompts \ {p} : at'[q] = at[q] /\ inHand'[q] = inHand[q]
        /\ UNCHANGED <<proc, turn, born, alive, hungUp, inbox, cli, ready, reader, held, died,
                       told, interrupted, misled>>
    BY <1>7, <1>0 DEF LaunchFails, Leave, Goto, fields, child, loop, history, tabs, marks,
       Shapes, Procs, NoProc
  <2>2. PlaceInv'
    BY <1>0, <1>1, <2>1 DEF PlaceInv, NoProc
  <2>3. BusyInv'
    <3>1. \A m \in 1..born : Works(m) => Works(m)'
      BY <1>1, <2>1 DEF Works, Gone
    <3> QED BY <1>0, <2>1, <3>1 DEF BusyInv, Written
  <2> QED BY <1>0, <2>1, <2>2, <2>3, TurnStays DEF TurnInv
<1>8. CASE Keep(p)
  <2>1. /\ at[p] = "keep" /\ at'[p] = "init" /\ proc' = inHand[p]
        /\ \A q \in Prompts \ {p} : at'[q] = at[q]
        /\ UNCHANGED <<turn, state, inHand, born, alive, hungUp, inbox, cli, ready, reader,
                       held, died, told, interrupted, misled>>
    BY <1>8, <1>0 DEF Keep, Goto, fields, prompter, child, loop, history, tabs, marks, Shapes,
       Procs, NoProc
  <2>2. PlaceInv'
    BY <1>0, <1>1, <2>1 DEF PlaceInv, NoProc
  <2>3. BusyInv'
    <3>1. \A m \in 1..born : Works(m) => Works(m)'
      BY <1>1, <2>1 DEF Works, Gone
    <3> QED BY <1>0, <2>1, <3>1 DEF BusyInv, Written
  <2> QED BY <1>0, <2>1, <2>2, <2>3, TurnStays DEF TurnInv
<1>9. CASE Initialized(p)
  <2>1. /\ at[p] = "init" /\ at'[p] = "ready"
        /\ reader[inHand[p]] = "reading" /\ ready' = ready \union {inHand[p]}
        /\ \A q \in Prompts \ {p} : at'[q] = at[q]
        /\ UNCHANGED <<proc, turn, state, inHand, born, alive, hungUp, inbox, cli, reader,
                       held, died, told, interrupted, misled>>
    BY <1>9, <1>0 DEF Initialized, Goto, fields, prompter, child, loop, history, tabs, marks,
       Shapes, Procs, NoProc
  <2>2. PlaceInv'
    BY <1>0, <1>1, <2>1 DEF PlaceInv, NoProc
  <2>3. BusyInv'
    <3>1. \A m \in 1..born : Works(m) => Works(m)'
      BY <1>1, <2>1 DEF Works, Gone
    <3> QED BY <1>0, <2>1, <3>1 DEF BusyInv, Written
  <2> QED BY <1>0, <2>1, <2>2, <2>3, TurnStays DEF TurnInv
<1>10. CASE InitializeFails(p)
  <2>1. /\ at[p] = "init" /\ at'[p] = "fail"
        /\ \A q \in Prompts \ {p} : at'[q] = at[q]
        /\ UNCHANGED <<proc, turn, state, inHand, born, alive, hungUp, inbox, cli, ready,
                       reader, held, died, told, interrupted, misled>>
    BY <1>10, <1>0 DEF InitializeFails, Goto, fields, prompter, child, loop, history, tabs,
       marks, Shapes, Procs, NoProc
  <2>2. PlaceInv'
    BY <1>0, <1>1, <2>1 DEF PlaceInv, NoProc
  <2>3. BusyInv'
    <3>1. \A m \in 1..born : Works(m) => Works(m)'
      BY <1>1, <2>1 DEF Works, Gone
    <3> QED BY <1>0, <2>1, <3>1 DEF BusyInv, Written
  <2> QED BY <1>0, <2>1, <2>2, <2>3, TurnStays DEF TurnInv
<1>11. CASE Ready(p)
  <2>1. /\ at[p] = "ready" /\ at'[p] = "claim" /\ state' = "idle"
        /\ \A q \in Prompts \ {p} : at'[q] = at[q]
        /\ UNCHANGED <<proc, turn, inHand, born, alive, hungUp, inbox, cli, ready, reader,
                       held, died, told, interrupted, misled>>
    BY <1>11, <1>0 DEF Ready, Goto, fields, prompter, child, loop, history, tabs, marks,
       Shapes, Procs, NoProc
  <2>2. PlaceInv'
    BY <1>0, <1>1, <2>1 DEF PlaceInv, NoProc
  <2>3. BusyInv'
    <3>1. \A m \in 1..born : Works(m) => Works(m)'
      BY <1>1, <2>1 DEF Works, Gone
    <3> QED BY <1>0, <2>1, <3>1 DEF BusyInv, Written
  <2> QED BY <1>0, <2>1, <2>2, <2>3, TurnStays DEF TurnInv
<1>12. CASE Claim(p)
  <2>1. /\ at[p] = "claim" /\ turn' = p /\ interrupted' = "none"
        /\ \/ at'[p] = "refused" /\ inHand'[p] = NoProc
           \/ at'[p] = "write" /\ inHand'[p] = proc /\ proc # NoProc
        /\ \A q \in Prompts \ {p} : at'[q] = at[q] /\ inHand'[q] = inHand[q]
        /\ UNCHANGED <<proc, state, born, alive, hungUp, inbox, cli, ready, reader, held, died,
                       told, misled>>
    BY <1>12, <1>0 DEF Claim, Leave, Goto, fields, child, loop, history, tabs, marks, Shapes,
       Procs, NoProc
  <2>2. PlaceInv'
    BY <1>0, <1>1, <2>1 DEF PlaceInv, NoProc
  <2>3. BusyInv'
    <3>1. \A m \in 1..born : Works(m) => Works(m)'
      BY <1>1, <2>1 DEF Works, Gone
    <3> QED BY <1>0, <2>1, <3>1 DEF BusyInv, Written
  <2>4. MarkInv'
    BY <1>0, <1>1, <2>1 DEF MarkInv
  <2> QED BY <1>0, <2>1, <2>2, <2>3, <2>4, TurnStays DEF TurnInv
<1>13. CASE Write(p)
  <2>1. /\ at[p] = "write" /\ at'[p] = "sent" /\ reader[inHand[p]] \notin Gone
        /\ inHand[p] \in Procs => inbox'[inHand[p]] # <<>>
        /\ \A m \in Procs \ {inHand[p]} : inbox'[m] = inbox[m]
        /\ \A q \in Prompts \ {p} : at'[q] = at[q]
        /\ UNCHANGED <<proc, turn, state, inHand, born, alive, hungUp, cli, ready, reader,
                       held, died, told, interrupted, misled>>
    BY <1>13, <1>0, AppendsOne DEF Write, Goto, fields, prompter, child, loop, history, tabs,
       marks, Shapes, Procs, NoProc
  <2>2. PlaceInv'
    BY <1>0, <1>1, <2>1 DEF PlaceInv, NoProc
  <2>3. BusyInv'
    <3>1. \A m \in 1..born : Works(m) => Works(m)'
      BY <1>1, <2>1 DEF Works
    <3>2. inHand[p] \in 1..born /\ Works(inHand[p])'
      BY <1>0, <1>1, <2>1 DEF PlaceInv, NoProc, Works
    <3> QED BY <2>1, <3>2 DEF BusyInv
  <2> QED BY <1>0, <2>1, <2>2, <2>3, TurnStays DEF TurnInv
<1>14. CASE WriteFails(p)
  <2>1. /\ at[p] = "write" /\ at'[p] = "unclaim"
        /\ \A q \in Prompts \ {p} : at'[q] = at[q]
        /\ UNCHANGED <<proc, turn, state, inHand, born, alive, hungUp, inbox, cli, ready,
                       reader, held, died, told, interrupted, misled>>
    BY <1>14, <1>0 DEF WriteFails, Goto, fields, prompter, child, loop, history, tabs, marks,
       Shapes, Procs, NoProc
  <2>2. PlaceInv'
    BY <1>0, <1>1, <2>1 DEF PlaceInv, NoProc
  <2>3. BusyInv'
    <3>1. \A m \in 1..born : Works(m) => Works(m)'
      BY <1>1, <2>1 DEF Works, Gone
    <3> QED BY <1>0, <2>1, <3>1 DEF BusyInv, Written
  <2> QED BY <1>0, <2>1, <2>2, <2>3, TurnStays DEF TurnInv
<1>15. CASE Unclaim(p)
  <2>1. /\ at[p] = "unclaim" /\ at'[p] = "refused" /\ inHand'[p] = NoProc /\ turn' = "none"
        /\ \A q \in Prompts \ {p} : at'[q] = at[q] /\ inHand'[q] = inHand[q]
        /\ UNCHANGED <<proc, state, born, alive, hungUp, inbox, cli, ready, reader, held, died,
                       told, interrupted, misled>>
    BY <1>15, <1>0 DEF Unclaim, Leave, Goto, fields, child, loop, history, tabs, marks, Shapes,
       Procs, NoProc
  <2>2. PlaceInv'
    BY <1>0, <1>1, <2>1 DEF PlaceInv, NoProc
  <2>3. BusyInv'
    BY <1>1, <2>1 DEF BusyInv
  <2>4. MarkInv'
    BY <1>0, <1>1, <2>1 DEF MarkInv
  <2> QED BY <1>0, <2>1, <2>2, <2>3, <2>4, TurnStays DEF TurnInv
<1>16. CASE SetRunning(p)
  <2>1. /\ at[p] = "sent" /\ at'[p] = "announce" /\ state' = "running"
        /\ \A q \in Prompts \ {p} : at'[q] = at[q]
        /\ UNCHANGED <<proc, turn, inHand, born, alive, hungUp, inbox, cli, ready, reader,
                       held, died, told, interrupted, misled>>
    BY <1>16, <1>0 DEF SetRunning, Goto, fields, prompter, child, loop, history, tabs, marks,
       Shapes, Procs, NoProc
  <2>2. PlaceInv'
    BY <1>0, <1>1, <2>1 DEF PlaceInv, NoProc
  <2>3. BusyInv'
    <3>1. \A m \in 1..born : Works(m) => Works(m)'
      BY <1>1, <2>1 DEF Works, Gone
    <3> QED BY <1>0, <2>1, <3>1 DEF BusyInv, Written
  <2> QED BY <1>0, <2>1, <2>2, <2>3, TurnStays DEF TurnInv
<1>17. CASE Announce(p)
  <2>1. /\ at[p] = "announce" /\ at'[p] = "accepted" /\ inHand'[p] = NoProc
        /\ \A q \in Prompts \ {p} : at'[q] = at[q] /\ inHand'[q] = inHand[q]
        /\ UNCHANGED <<proc, turn, state, born, alive, hungUp, inbox, cli, ready, reader, held,
                       died, told, interrupted, misled>>
    BY <1>17, <1>0 DEF Announce, Leave, Goto, fields, child, loop, history, tabs, marks,
       Shapes, Procs, NoProc
  <2>2. PlaceInv'
    BY <1>0, <1>1, <2>1 DEF PlaceInv, NoProc
  <2>3. BusyInv'
    <3>1. \A m \in 1..born : Works(m) => Works(m)'
      BY <1>1, <2>1 DEF Works, Gone
    <3> QED BY <1>0, <2>1, <3>1 DEF BusyInv, Written
  <2> QED BY <1>0, <2>1, <2>2, <2>3, TurnStays DEF TurnInv
<1> QED BY <1>2, <1>3, <1>4, <1>5, <1>6, <1>7, <1>8, <1>9, <1>10, <1>11, <1>12, <1>13, <1>14,
   <1>15, <1>16, <1>17 DEF Prompt

\* The CLI.
LEMMA CliTurns ==
    ASSUME IInv, TurnInv, NEW n \in Procs, Cli(n)
    PROVE  TurnInv'
<1>0. Shapes /\ PlaceInv /\ OpenInv /\ BusyInv /\ MarkInv
  BY ShapesHold DEF TurnInv
<1>1. Procs = 1..MaxProcs /\ MaxProcs \in Nat /\ born \in Nat /\ born <= MaxProcs
      /\ 1..born \subseteq Procs
      /\ "none" \notin Prompts /\ "own" \notin Prompts
  BY <1>0 DEF Shapes
<1>2. CASE CliTakesPrompt(n)
  <2>1. /\ cli'[n] # "none"
        /\ \A m \in Procs \ {n} : cli'[m] = cli[m] /\ inbox'[m] = inbox[m]
        /\ UNCHANGED <<proc, turn, state, at, inHand, born, alive, hungUp, ready, reader, held,
                       died, told, interrupted, misled>>
    BY <1>2, <1>0 DEF CliTakesPrompt, fields, prompter, child, loop, history, tabs, marks,
       Shapes, Procs, NoProc
  <2>2. OpenInv'
    BY <1>0, <1>1, <2>1 DEF OpenInv
  <2>3. BusyInv'
    <3>1. \A m \in 1..born : Works(m) => Works(m)'
      BY <1>1, <2>1 DEF Works, Gone
    <3> QED BY <1>0, <2>1, <3>1 DEF BusyInv, Written
  <2> QED BY <1>0, <2>1, <2>2, <2>3, TurnStays DEF TurnInv
<1>3. CASE CliOpensTurn(n)
  <2>1. /\ cli'[n] # "none" /\ \A m \in Procs \ {n} : cli'[m] = cli[m]
        /\ UNCHANGED <<proc, turn, state, at, inHand, born, alive, hungUp, inbox, ready,
                       reader, held, died, told, interrupted, misled>>
    BY <1>3, <1>0 DEF CliOpensTurn, fields, prompter, child, loop, history, tabs, marks,
       Shapes, Procs, NoProc
  <2>2. OpenInv'
    BY <1>0, <1>1, <2>1 DEF OpenInv
  <2>3. BusyInv'
    <3>1. \A m \in 1..born : Works(m) => Works(m)'
      BY <1>1, <2>1 DEF Works, Gone
    <3> QED BY <1>0, <2>1, <3>1 DEF BusyInv, Written
  <2> QED BY <1>0, <2>1, <2>2, <2>3, TurnStays DEF TurnInv
<1>4. CASE CliStops(n)
  <2>1. /\ n \in hungUp /\ alive' = alive \ {n}
        /\ UNCHANGED <<proc, turn, state, at, inHand, born, hungUp, inbox, cli, ready, reader,
                       held, died, told, interrupted, misled>>
    BY <1>4, <1>0 DEF CliStops, fields, prompter, child, loop, history, tabs, marks, Shapes,
       Procs, NoProc
  <2> QED BY <1>0, <2>1, TurnStays DEF TurnInv
<1>5. CASE CliDies(n)
  <2>1. /\ alive' = alive \ {n} /\ died' = died \union {n}
        /\ UNCHANGED <<proc, turn, state, at, inHand, born, hungUp, inbox, cli, ready, reader,
                       held, told, interrupted, misled>>
    BY <1>5, <1>0 DEF CliDies, fields, prompter, child, loop, history, tabs, marks, Shapes,
       Procs, NoProc
  <2> QED BY <1>0, <2>1, TurnStays DEF TurnInv
<1> QED BY <1>2, <1>3, <1>4, <1>5 DEF Cli

\* The read loop, but for the messages that leave turns alone.
LEMMA LoopTurns ==
    ASSUME IInv, TurnInv, NEW n \in Procs, HandleMessage(n) \/ ReadContent(n) \/ ReadResult(n)
    PROVE  TurnInv'
<1>0. Shapes /\ PlaceInv /\ OpenInv /\ BusyInv /\ MarkInv
  BY ShapesHold DEF TurnInv
<1>1. Procs = 1..MaxProcs /\ MaxProcs \in Nat /\ born \in Nat /\ born <= MaxProcs
      /\ 1..born \subseteq Procs
      /\ "none" \notin Prompts /\ "own" \notin Prompts
  BY <1>0 DEF Shapes
<1>2. CASE ReadContent(n)
  <2>1. /\ reader[n] = "reading" /\ reader'[n] = "open" /\ cli[n] # "none"
        /\ \A m \in Procs \ {n} : reader'[m] = reader[m]
        /\ UNCHANGED <<proc, turn, state, at, inHand, born, alive, hungUp, inbox, cli, ready,
                       held, died, told, interrupted, misled>>
    BY <1>2, <1>0 DEF ReadContent, Step, fields, prompter, child, loop, history, tabs, marks,
       Shapes, Procs, NoProc
  <2>2. OpenInv'
    BY <1>0, <1>1, <2>1 DEF OpenInv
  <2>3. BusyInv'
    <3>1. \A m \in 1..born : Works(m) => Works(m)'
      BY <1>1, <2>1 DEF Works, Gone
    <3> QED BY <1>0, <2>1, <3>1 DEF BusyInv, Written
  <2> QED BY <1>0, <2>1, <2>2, <2>3, TurnStays DEF TurnInv
<1>3. CASE ReadResult(n)
  <2>1. /\ reader[n] = "reading" /\ reader'[n] = "result"
        /\ \A m \in Procs \ {n} : cli'[m] = cli[m]
        /\ \A m \in Procs \ {n} : reader'[m] = reader[m]
        /\ UNCHANGED <<proc, turn, state, at, inHand, born, alive, hungUp, inbox, ready, held,
                       died, told, interrupted, misled>>
    BY <1>3, <1>0 DEF ReadResult, Step, fields, prompter, child, loop, history, tabs, marks,
       Shapes, Procs, NoProc
  <2>2. OpenInv'
    BY <1>0, <1>1, <2>1 DEF OpenInv
  <2>3. BusyInv'
    <3>1. \A m \in 1..born : Works(m) => Works(m)'
      BY <1>1, <2>1 DEF Works, Gone
    <3> QED BY <1>0, <2>1, <3>1 DEF BusyInv, Written
  <2> QED BY <1>0, <2>1, <2>2, <2>3, TurnStays DEF TurnInv
<1>4. CASE PublishContent(n)
  <2>1. /\ reader[n] = "content" /\ reader'[n] = "reading"
        /\ \A m \in Procs \ {n} : reader'[m] = reader[m]
        /\ UNCHANGED <<proc, turn, state, at, inHand, born, alive, hungUp, inbox, cli, ready,
                       held, died, told, interrupted, misled>>
    BY <1>4, <1>0 DEF PublishContent, Step, fields, prompter, child, loop, history, tabs,
       marks, Shapes, Procs, NoProc
  <2>2. OpenInv'
    BY <1>0, <1>1, <2>1 DEF OpenInv
  <2>3. BusyInv'
    <3>1. \A m \in 1..born : Works(m) => Works(m)'
      BY <1>1, <2>1 DEF Works, Gone
    <3> QED BY <1>0, <2>1, <3>1 DEF BusyInv, Written
  <2> QED BY <1>0, <2>1, <2>2, <2>3, TurnStays DEF TurnInv
<1>5. CASE OpenTurn(n)
  <2>1. /\ reader[n] = "open" /\ reader'[n] \in {"content", "opened"}
        /\ turn' = IF turn # "none" THEN turn ELSE "own"
        /\ \A m \in Procs \ {n} : reader'[m] = reader[m]
        /\ UNCHANGED <<proc, state, at, inHand, born, alive, hungUp, inbox, cli, ready, held,
                       died, told, interrupted, misled>>
    BY <1>5, <1>0 DEF OpenTurn, Step, fields, prompter, child, loop, history, tabs, marks,
       Shapes, Procs, NoProc
  <2>2. OpenInv'
    BY <1>0, <1>1, <2>1 DEF OpenInv
  <2>3. BusyInv'
    <3>1. \A m \in 1..born : Works(m) => Works(m)'
      BY <1>1, <2>1 DEF Works, Gone
    <3>2. n \in 1..born /\ Works(n)'
      BY <1>0, <1>1, <2>1 DEF Shapes, OpenInv, Works, Gone
    <3> QED BY <2>1, <3>2 DEF BusyInv
  <2>4. MarkInv'
    BY <1>0, <1>1, <2>1 DEF MarkInv
  <2> QED BY <1>0, <2>1, <2>2, <2>3, <2>4, TurnStays DEF TurnInv
<1>6. CASE TurnOpened(n)
  <2>1. /\ reader[n] = "opened" /\ reader'[n] = "content" /\ state' = "running"
        /\ \A m \in Procs \ {n} : reader'[m] = reader[m]
        /\ UNCHANGED <<proc, turn, at, inHand, born, alive, hungUp, inbox, cli, ready, held,
                       died, told, interrupted, misled>>
    BY <1>6, <1>0 DEF TurnOpened, Step, fields, prompter, child, loop, history, tabs, marks,
       Shapes, Procs, NoProc
  <2>2. OpenInv'
    BY <1>0, <1>1, <2>1 DEF OpenInv
  <2>3. BusyInv'
    <3>1. \A m \in 1..born : Works(m) => Works(m)'
      BY <1>1, <2>1 DEF Works, Gone
    <3> QED BY <1>0, <2>1, <3>1 DEF BusyInv, Written
  <2> QED BY <1>0, <2>1, <2>2, <2>3, TurnStays DEF TurnInv
<1>7. CASE ResultEndsRequests(n)
  <2>1. /\ reader[n] = "result" /\ reader'[n] = "finish"
        /\ \A m \in Procs \ {n} : reader'[m] = reader[m]
        /\ UNCHANGED <<proc, turn, state, at, inHand, born, alive, hungUp, inbox, cli, ready,
                       held, died, told, interrupted, misled>>
    BY <1>7, <1>0 DEF ResultEndsRequests, Step, fields, prompter, child, loop, history, tabs,
       marks, Shapes, Procs, NoProc
  <2>2. OpenInv'
    BY <1>0, <1>1, <2>1 DEF OpenInv
  <2>3. BusyInv'
    <3>1. \A m \in 1..born : Works(m) => Works(m)'
      BY <1>1, <2>1 DEF Works, Gone
    <3> QED BY <1>0, <2>1, <3>1 DEF BusyInv, Written
  <2> QED BY <1>0, <2>1, <2>2, <2>3, TurnStays DEF TurnInv
<1>8. CASE FinishTurn(n)
  <2>1. /\ reader[n] = "finish" /\ reader'[n] = "settle"
        /\ turn' = "none" /\ interrupted' = "none" /\ told' = told \union ({turn} \cap Prompts)
        /\ misled' = (misled \/ (turn \in Prompts /\ interrupted \notin {"none", turn}))
        /\ \A m \in Procs \ {n} : reader'[m] = reader[m]
        /\ UNCHANGED <<proc, state, at, inHand, born, alive, hungUp, inbox, cli, ready, held,
                       died>>
    BY <1>8, <1>0 DEF FinishTurn, Step, fields, prompter, child, loop, history, Shapes, Procs,
       NoProc
  <2>2. OpenInv'
    BY <1>0, <1>1, <2>1 DEF OpenInv
  <2>3. BusyInv'
    BY <1>1, <2>1 DEF BusyInv
  <2>4. MarkInv'
    BY <1>0, <1>1, <2>1 DEF MarkInv
  <2> QED BY <1>0, <2>1, <2>2, <2>3, <2>4, TurnStays DEF TurnInv
<1>9. CASE TasksRead(n)
  <2>1. /\ reader[n] = "tasks" /\ reader'[n] \in {"reading", "settle"}
        /\ \A m \in Procs \ {n} : reader'[m] = reader[m]
        /\ UNCHANGED <<proc, turn, state, at, inHand, born, alive, hungUp, inbox, cli, ready,
                       held, died, told, interrupted, misled>>
    BY <1>9, <1>0 DEF TasksRead, Step, fields, prompter, child, loop, history, tabs, marks,
       Shapes, Procs, NoProc
  <2>2. OpenInv'
    BY <1>0, <1>1, <2>1 DEF OpenInv
  <2>3. BusyInv'
    <3>1. \A m \in 1..born : Works(m) => Works(m)'
      BY <1>1, <2>1 DEF Works, Gone
    <3> QED BY <1>0, <2>1, <3>1 DEF BusyInv, Written
  <2> QED BY <1>0, <2>1, <2>2, <2>3, TurnStays DEF TurnInv
<1>10. CASE Settle(n)
  <2>1. /\ reader[n] = "settle" /\ reader'[n] \in {"background", "idle"}
        /\ \A m \in Procs \ {n} : reader'[m] = reader[m]
        /\ UNCHANGED <<proc, turn, state, at, inHand, born, alive, hungUp, inbox, cli, ready,
                       held, died, told, interrupted, misled>>
    BY <1>10, <1>0 DEF Settle, Step, fields, prompter, child, loop, history, tabs, marks,
       Shapes, Procs, NoProc
  <2>2. OpenInv'
    BY <1>0, <1>1, <2>1 DEF OpenInv
  <2>3. BusyInv'
    <3>1. \A m \in 1..born : Works(m) => Works(m)'
      BY <1>1, <2>1 DEF Works, Gone
    <3> QED BY <1>0, <2>1, <3>1 DEF BusyInv, Written
  <2> QED BY <1>0, <2>1, <2>2, <2>3, TurnStays DEF TurnInv
<1>11. CASE Settled(n)
  <2>1. /\ reader[n] \in {"background", "idle"} /\ reader'[n] = "reading" /\ state' = reader[n]
        /\ \A m \in Procs \ {n} : reader'[m] = reader[m]
        /\ UNCHANGED <<proc, turn, at, inHand, born, alive, hungUp, inbox, cli, ready, held,
                       died, told, interrupted, misled>>
    BY <1>11, <1>0 DEF Settled, Step, fields, prompter, child, loop, history, tabs, marks,
       Shapes, Procs, NoProc
  <2>2. OpenInv'
    BY <1>0, <1>1, <2>1 DEF OpenInv
  <2>3. BusyInv'
    <3>1. \A m \in 1..born : Works(m) => Works(m)'
      BY <1>1, <2>1 DEF Works, Gone
    <3> QED BY <1>0, <2>1, <3>1 DEF BusyInv, Written
  <2> QED BY <1>0, <2>1, <2>2, <2>3, TurnStays DEF TurnInv
<1>12. CASE AddPending(n)
  <2>1. /\ reader[n] = "ask" /\ reader'[n] = "asked"
        /\ \A m \in Procs \ {n} : reader'[m] = reader[m]
        /\ UNCHANGED <<proc, turn, state, at, inHand, born, alive, hungUp, inbox, cli, ready,
                       held, died, told, interrupted, misled>>
    BY <1>12, <1>0 DEF AddPending, Step, fields, prompter, child, loop, history, tabs, marks,
       Shapes, Procs, NoProc
  <2>2. OpenInv'
    BY <1>0, <1>1, <2>1 DEF OpenInv
  <2>3. BusyInv'
    <3>1. \A m \in 1..born : Works(m) => Works(m)'
      BY <1>1, <2>1 DEF Works, Gone
    <3> QED BY <1>0, <2>1, <3>1 DEF BusyInv, Written
  <2> QED BY <1>0, <2>1, <2>2, <2>3, TurnStays DEF TurnInv
<1>13. CASE WaitForOwner(n)
  <2>1. /\ reader[n] = "asked" /\ reader'[n] = "reading" /\ state' = "waiting_input"
        /\ \A m \in Procs \ {n} : held'[m] = held[m]
        /\ \A m \in Procs \ {n} : reader'[m] = reader[m]
        /\ UNCHANGED <<proc, turn, at, inHand, born, alive, hungUp, inbox, cli, ready, died,
                       told, interrupted, misled>>
    BY <1>13, <1>0 DEF WaitForOwner, Step, fields, prompter, child, history, tabs, marks,
       Shapes, Procs, NoProc
  <2>2. OpenInv'
    BY <1>0, <1>1, <2>1 DEF OpenInv
  <2>3. BusyInv'
    <3>1. \A m \in 1..born : Works(m) => Works(m)'
      BY <1>1, <2>1 DEF Works, Gone
    <3> QED BY <1>0, <2>1, <3>1 DEF BusyInv, Written
  <2> QED BY <1>0, <2>1, <2>2, <2>3, TurnStays DEF TurnInv
<1>14. CASE ReadEnds(n)
  <2>1. /\ reader[n] = "reading" /\ reader'[n] = "exiting" /\ n \notin alive
        /\ \A m \in Procs \ {n} : reader'[m] = reader[m]
        /\ UNCHANGED <<proc, turn, state, at, inHand, born, alive, hungUp, inbox, cli, ready,
                       held, died, told, interrupted, misled>>
    BY <1>14, <1>0 DEF ReadEnds, Step, fields, prompter, child, loop, history, tabs, marks,
       Shapes, Procs, NoProc
  <2>2. OpenInv'
    BY <1>0, <1>1, <2>1 DEF OpenInv
  <2>3. BusyInv'
    <3>1. \A m \in 1..born : Works(m) => Works(m)'
      BY <1>1, <2>1 DEF Works, Gone
    <3> QED BY <1>0, <2>1, <3>1 DEF BusyInv, Written
  <2> QED BY <1>0, <2>1, <2>2, <2>3, TurnStays DEF TurnInv
<1>15. CASE ExitClears(n)
  <2>1. /\ reader[n] = "exiting" /\ reader'[n] = "cleared"
        /\ turn' = "none" /\ proc' = NoProc
        /\ held'[n] = turn /\ \A m \in Procs \ {n} : held'[m] = held[m]
        /\ \A m \in Procs \ {n} : reader'[m] = reader[m]
        /\ UNCHANGED <<state, at, inHand, born, alive, hungUp, inbox, cli, ready, died, told,
                       interrupted, misled>>
    BY <1>15, <1>0 DEF ExitClears, Step, fields, prompter, child, history, tabs, marks, Shapes,
       Procs, NoProc
  <2>2. PlaceInv'
    BY <1>0, <1>1, <2>1 DEF PlaceInv, NoProc
  <2>3. OpenInv'
    BY <1>0, <1>1, <2>1 DEF OpenInv
  <2>4. BusyInv'
    BY <1>1, <2>1 DEF BusyInv
  <2>5. MarkInv'
    BY <1>0, <1>1, <2>1 DEF MarkInv
  <2> QED BY <1>0, <2>1, <2>2, <2>3, <2>4, <2>5, TurnStays DEF TurnInv
<1>16. CASE ExitEndsRequests(n)
  <2>1. /\ reader[n] = "cleared" /\ reader'[n] = "denied"
        /\ \A m \in Procs \ {n} : reader'[m] = reader[m]
        /\ UNCHANGED <<proc, turn, state, at, inHand, born, alive, hungUp, inbox, cli, ready,
                       held, died, told, interrupted, misled>>
    BY <1>16, <1>0 DEF ExitEndsRequests, Step, fields, prompter, child, loop, history, tabs,
       marks, Shapes, Procs, NoProc
  <2>2. OpenInv'
    BY <1>0, <1>1, <2>1 DEF OpenInv
  <2>3. BusyInv'
    <3>1. \A m \in 1..born : Works(m) => Works(m)'
      BY <1>1, <2>1 DEF Works, Gone
    <3> QED BY <1>0, <2>1, <3>1 DEF BusyInv, Written
  <2> QED BY <1>0, <2>1, <2>2, <2>3, TurnStays DEF TurnInv
<1>17. CASE ExitIdles(n)
  <2>1. /\ reader[n] = "denied" /\ reader'[n] = "over" /\ state' = "idle"
        /\ told' = told \union ({held[n]} \cap Prompts)
        /\ \A m \in Procs \ {n} : held'[m] = held[m] /\ cli'[m] = cli[m] /\ inbox'[m] = inbox[m]
        /\ \A m \in Procs \ {n} : reader'[m] = reader[m]
        /\ UNCHANGED <<proc, turn, at, inHand, born, alive, hungUp, ready, died, interrupted,
                       misled>>
    BY <1>17, <1>0 DEF ExitIdles, Step, fields, prompter, child, history, tabs, marks, Shapes,
       Procs, NoProc
  <2>2. OpenInv'
    BY <1>0, <1>1, <2>1 DEF OpenInv
  <2>3. BusyInv'
    <3>1. \A m \in 1..born : Works(m) => Works(m)'
      BY <1>1, <2>1 DEF Works, Gone
    <3> QED BY <1>0, <2>1, <3>1 DEF BusyInv, Written
  <2> QED BY <1>0, <2>1, <2>2, <2>3, TurnStays DEF TurnInv
<1> QED BY <1>2, <1>3, <1>4, <1>5, <1>6, <1>7, <1>8, <1>9, <1>10, <1>11, <1>12, <1>13, <1>14,
   <1>15, <1>16, <1>17 DEF HandleMessage

\* A step of a read loop does not touch what is said of the session's process,
\* but for the two that handle an exit.
LEMMA LoopRests ==
    ASSUME Shapes, PlaceInv, RestInv, NEW n \in Procs, UNCHANGED <<proc, ready, at>>,
           \A m \in Procs \ {n} : reader'[m] = reader[m],
           reader'[n] \in {"cleared", "denied", "over"} => reader[n] \in {"cleared", "denied"}
    PROVE  RestInv'
<1>1. proc # NoProc => proc \in Procs
  BY DEF Shapes, PlaceInv, NoProc
<1> QED BY <1>1 DEF RestInv

LEMMA LoopStarts ==
    ASSUME Shapes, PlaceInv, StartInv, NEW n \in Procs,
           UNCHANGED <<at, proc, inHand, hungUp, died, born>>,
           \A m \in Procs \ {n} : reader'[m] = reader[m],
           reader'[n] # "over", state' = "starting" => state = "starting"
    PROVE  StartInv'
<1>1. 1..born \subseteq Procs /\ (proc # NoProc => proc \in Procs)
      /\ \A p \in Prompts : at[p] = "keep" => inHand[p] \in Procs
  BY DEF Shapes, PlaceInv, NoProc
<1>2. Ending => Ending'
  BY <1>1 DEF Ending
<1>3. \A p \in Prompts : Starting(p) => Starting(p)'
  BY <1>1 DEF Starting
<1> QED BY <1>2, <1>3 DEF StartInv

\* The goroutines inside prompt.
LEMMA PromptLives ==
    ASSUME IInv, TurnInv, OneInv, NEW p \in Prompts, Prompt(p)
    PROVE  OneInv'
<1>0. /\ Shapes /\ PlaceInv /\ OpenInv /\ BusyInv /\ MarkInv
      /\ AloneInv /\ DeadInv /\ KeptInv /\ RestInv /\ PromptedAfterInitialize
      /\ StartInv /\ ClaimInv /\ ToldInv
  BY ShapesHold DEF TurnInv, OneInv
<1>1. Procs = 1..MaxProcs /\ MaxProcs \in Nat /\ born \in Nat /\ born <= MaxProcs
      /\ 1..born \subseteq Procs
      /\ "none" \notin Prompts /\ "own" \notin Prompts
  BY <1>0 DEF Shapes
<1>2. CASE EnsureRunning(p)
  <2>1. /\ at[p] = "ensure" /\ at'[p] \in {"start", "claim", "stop"}
        /\ at'[p] = "claim" => proc # NoProc
        /\ \A q \in Prompts \ {p} : at'[q] = at[q]
        /\ UNCHANGED <<proc, turn, state, inHand, born, alive, hungUp, inbox, cli, ready,
                       reader, held, died, told, interrupted, misled>>
    BY <1>2, <1>0 DEF EnsureRunning, Goto, fields, prompter, child, loop, history, tabs, marks,
       Shapes, Procs, NoProc
  <2>2. AloneInv'
    BY <1>0, <1>1, <2>1 DEF AloneInv, InFlight
  <2>3. KeptInv'
    BY <1>0, <1>1, <2>1 DEF KeptInv, NoProc
  <2>4. RestInv'
    BY <1>0, <1>1, <2>1 DEF RestInv, NoProc
  <2>5. PromptedAfterInitialize'
    BY <1>0, <1>1, <2>1 DEF PromptedAfterInitialize
  <2>6. StartInv'
    BY <1>0, <1>1, <2>1 DEF StartInv, Starting, Ending, NoProc
  <2>7. ClaimInv'
    BY <1>0, <1>1, <2>1 DEF ClaimInv, InFlight
  <2>8. ToldInv'
    BY <1>0, <1>1, <2>1 DEF ToldInv, Written
  <2> QED BY <1>0, <2>1, <2>2, <2>3, <2>4, <2>5, <2>6, <2>7, <2>8, OneStays DEF OneInv
<1>3. CASE StopProcess(p)
  <2>1. /\ at[p] \in {"stop", "fail"} /\ at'[p] \in {"stopping", "failing"}
        /\ inHand'[p] = proc /\ proc' = NoProc /\ hungUp' = hungUp \union ({proc} \ {NoProc})
        /\ \A q \in Prompts \ {p} : at'[q] = at[q] /\ inHand'[q] = inHand[q]
        /\ UNCHANGED <<turn, state, born, alive, inbox, cli, ready, reader, held, died, told,
                       interrupted, misled>>
    BY <1>3, <1>0 DEF StopProcess, LetGo, Goto, fields, child, loop, history, tabs, marks,
       Shapes, Procs, NoProc
  <2>2. AloneInv'
    BY <1>0, <1>1, <2>1 DEF AloneInv, InFlight
  <2>3. DeadInv'
    BY <1>0, <1>1, <2>1 DEF DeadInv, Gone
  <2>4. KeptInv'
    BY <1>0, <1>1, <2>1 DEF KeptInv, NoProc
  <2>5. RestInv'
    BY <1>0, <1>1, <2>1 DEF RestInv, NoProc
  <2>6. PromptedAfterInitialize'
    BY <1>0, <1>1, <2>1 DEF PromptedAfterInitialize
  <2>7. StartInv'
    <3>1. Ending => Ending'
      BY <2>1 DEF Ending
    <3>2. \A q \in Prompts \ {p} : ~Starting(q)
      BY <1>0, <2>1 DEF AloneInv, InFlight, Starting
    <3>3. Starting(p) => proc # NoProc /\ reader[proc] # "over"
      BY <2>1 DEF Starting
    <3>4. Starting(p) => Ending'
      BY <1>0, <1>1, <2>1, <3>3 DEF Ending, PlaceInv, NoProc
    <3> QED BY <1>0, <2>1, <3>1, <3>2, <3>4 DEF StartInv
  <2>8. ClaimInv'
    BY <1>0, <1>1, <2>1 DEF ClaimInv, InFlight
  <2>9. ToldInv'
    BY <1>0, <1>1, <2>1 DEF ToldInv, Written
  <2> QED BY <1>0, <2>1, <2>2, <2>3, <2>4, <2>5, <2>6, <2>7, <2>8, <2>9, OneStays DEF OneInv
<1>4. CASE StopReturns(p)
  <2>1. /\ at[p] \in {"stopping", "failing"} /\ at'[p] \in {"start", "refused"}
        /\ inHand'[p] \in {NoProc, inHand[p]}
        /\ \A q \in Prompts \ {p} : at'[q] = at[q] /\ inHand'[q] = inHand[q]
        /\ UNCHANGED <<proc, turn, state, born, alive, hungUp, inbox, cli, ready, reader, held,
                       died, told, interrupted, misled>>
    BY <1>4, <1>0 DEF StopReturns, Leave, Goto, fields, child, loop, history, tabs, marks,
       Shapes, Procs, NoProc
  <2>2. AloneInv'
    BY <1>0, <1>1, <2>1 DEF AloneInv, InFlight
  <2>3. KeptInv'
    BY <1>0, <1>1, <2>1 DEF KeptInv, NoProc
  <2>4. RestInv'
    BY <1>0, <1>1, <2>1 DEF RestInv, NoProc
  <2>5. PromptedAfterInitialize'
    BY <1>0, <1>1, <2>1 DEF PromptedAfterInitialize
  <2>6. StartInv'
    BY <1>0, <1>1, <2>1 DEF StartInv, Starting, Ending, NoProc
  <2>7. ClaimInv'
    BY <1>0, <1>1, <2>1 DEF ClaimInv, InFlight
  <2>8. ToldInv'
    BY <1>0, <1>1, <2>1 DEF ToldInv, Written
  <2> QED BY <1>0, <2>1, <2>2, <2>3, <2>4, <2>5, <2>6, <2>7, <2>8, OneStays DEF OneInv
<1>5. CASE Start(p)
  <2>1. /\ at[p] = "start" /\ at'[p] = "launch"
        /\ \A q \in Prompts \ {p} : at'[q] = at[q]
        /\ UNCHANGED <<proc, turn, inHand, born, alive, hungUp, inbox, cli, ready, reader,
                       held, died, told, interrupted, misled>>
    BY <1>5, <1>0 DEF Start, Goto, fields, prompter, child, loop, history, tabs, marks, Shapes,
       Procs, NoProc
  <2>2. AloneInv'
    BY <1>0, <1>1, <2>1 DEF AloneInv, InFlight
  <2>3. KeptInv'
    BY <1>0, <1>1, <2>1 DEF KeptInv, NoProc
  <2>4. RestInv'
    BY <1>0, <1>1, <2>1 DEF RestInv, NoProc
  <2>5. PromptedAfterInitialize'
    BY <1>0, <1>1, <2>1 DEF PromptedAfterInitialize
  <2>6. StartInv'
    BY <1>0, <1>1, <2>1 DEF StartInv, Starting, Ending, NoProc
  <2>7. ClaimInv'
    BY <1>0, <1>1, <2>1 DEF ClaimInv, InFlight
  <2>8. ToldInv'
    BY <1>0, <1>1, <2>1 DEF ToldInv, Written
  <2> QED BY <1>0, <2>1, <2>2, <2>3, <2>4, <2>5, <2>6, <2>7, <2>8, OneStays DEF OneInv
<1>6. CASE Launch(p)
  <2>1. /\ at[p] = "launch" /\ at'[p] = "keep" /\ inHand'[p] = born + 1
        /\ born < MaxProcs /\ born' = born + 1 /\ alive' = alive \union {born + 1}
        /\ reader'[born + 1] = "reading" /\ \A m \in Procs \ {born + 1} : reader'[m] = reader[m]
        /\ \A q \in Prompts \ {p} : at'[q] = at[q] /\ inHand'[q] = inHand[q]
        /\ UNCHANGED <<proc, turn, state, hungUp, inbox, cli, ready, held, died, told,
                       interrupted, misled>>
    BY <1>6, <1>0 DEF Launch, Goto, fields, child, loop, history, tabs, marks, Shapes, Procs,
       NoProc
  <2>2. AloneInv'
    BY <1>0, <1>1, <2>1 DEF AloneInv, InFlight
  <2>3. DeadInv'
    BY <1>0, <1>1, <2>1 DEF DeadInv, Gone
  <2>4. KeptInv'
    BY <1>0, <1>1, <2>1 DEF KeptInv, NoProc
  <2>5. RestInv'
    <3>1. proc # NoProc => proc \in Procs \ {born + 1}
      BY <1>0, <1>1 DEF PlaceInv, NoProc
    <3> QED BY <1>0, <2>1, <3>1 DEF RestInv
  <2>6. PromptedAfterInitialize'
    BY <1>0, <1>1, <2>1 DEF PromptedAfterInitialize
  <2>7. StartInv'
    BY <1>0, <1>1, <2>1 DEF StartInv, Starting, Ending, NoProc
  <2>8. ClaimInv'
    BY <1>0, <1>1, <2>1 DEF ClaimInv, InFlight
  <2>9. ToldInv'
    <3>1. born + 1 \in Procs /\ reader[born + 1] = "none"
      BY <1>0, <1>1, <2>1 DEF Shapes
    <3> QED BY <1>0, <2>1, <3>1 DEF ToldInv, Written
  <2> QED BY <1>0, <2>1, <2>2, <2>3, <2>4, <2>5, <2>6, <2>7, <2>8, <2>9, OneStays DEF OneInv
<1>7. CASE LaunchFails(p)
  <2>1. /\ at[p] = "launch" /\ at'[p] = "refused" /\ inHand'[p] = NoProc /\ state' = "idle"
        /\ \A q \in Prompts \ {p} : at'[q] = at[q] /\ inHand'[q] = inHand[q]
        /\ UNCHANGED <<proc, turn, born, alive, hungUp, inbox, cli, ready, reader, held, died,
                       told, interrupted, misled>>
    BY <1>7, <1>0 DEF LaunchFails, Leave, Goto, fields, child, loop, history, tabs, marks,
       Shapes, Procs, NoProc
  <2>2. AloneInv'
    BY <1>0, <1>1, <2>1 DEF AloneInv, InFlight
  <2>3. KeptInv'
    BY <1>0, <1>1, <2>1 DEF KeptInv, NoProc
  <2>4. RestInv'
    BY <1>0, <1>1, <2>1 DEF RestInv, NoProc
  <2>5. PromptedAfterInitialize'
    BY <1>0, <1>1, <2>1 DEF PromptedAfterInitialize
  <2>6. StartInv'
    BY <1>0, <1>1, <2>1 DEF StartInv, Starting, Ending, NoProc
  <2>7. ClaimInv'
    BY <1>0, <1>1, <2>1 DEF ClaimInv, InFlight
  <2>8. ToldInv'
    BY <1>0, <1>1, <2>1 DEF ToldInv, Written
  <2> QED BY <1>0, <2>1, <2>2, <2>3, <2>4, <2>5, <2>6, <2>7, <2>8, OneStays DEF OneInv
<1>8. CASE Keep(p)
  <2>1. /\ at[p] = "keep" /\ at'[p] = "init" /\ proc' = inHand[p]
        /\ \A q \in Prompts \ {p} : at'[q] = at[q]
        /\ UNCHANGED <<turn, state, inHand, born, alive, hungUp, inbox, cli, ready, reader,
                       held, died, told, interrupted, misled>>
    BY <1>8, <1>0 DEF Keep, Goto, fields, prompter, child, loop, history, tabs, marks, Shapes,
       Procs, NoProc
  <2>2. AloneInv'
    BY <1>0, <1>1, <2>1 DEF AloneInv, InFlight
  <2>3. KeptInv'
    <3>1. \A q \in Prompts : at'[q] = "init" => q = p
      BY <1>0, <2>1 DEF AloneInv, InFlight
    <3> QED BY <2>1, <3>1 DEF KeptInv
  <2>4. RestInv'
    BY <1>0, <1>1, <2>1 DEF RestInv, NoProc
  <2>5. PromptedAfterInitialize'
    BY <1>0, <1>1, <2>1 DEF PromptedAfterInitialize
  <2>6. StartInv'
    <3>1. \A q \in Prompts \ {p} : ~Starting(q)
      BY <1>0, <2>1 DEF AloneInv, InFlight, Starting
    <3>2. Ending => Ending'
      BY <2>1 DEF Ending
    <3>3. Starting(p) => Starting(p)'
      BY <1>0, <2>1 DEF Starting, PlaceInv
    <3> QED BY <1>0, <2>1, <3>1, <3>2, <3>3 DEF StartInv
  <2>7. ClaimInv'
    BY <1>0, <1>1, <2>1 DEF ClaimInv, InFlight
  <2>8. ToldInv'
    BY <1>0, <1>1, <2>1 DEF ToldInv, Written
  <2> QED BY <1>0, <2>1, <2>2, <2>3, <2>4, <2>5, <2>6, <2>7, <2>8, OneStays DEF OneInv
<1>9. CASE Initialized(p)
  <2>1. /\ at[p] = "init" /\ at'[p] = "ready"
        /\ reader[inHand[p]] = "reading" /\ ready' = ready \union {inHand[p]}
        /\ \A q \in Prompts \ {p} : at'[q] = at[q]
        /\ UNCHANGED <<proc, turn, state, inHand, born, alive, hungUp, inbox, cli, reader,
                       held, died, told, interrupted, misled>>
    BY <1>9, <1>0 DEF Initialized, Goto, fields, prompter, child, loop, history, tabs, marks,
       Shapes, Procs, NoProc
  <2>2. AloneInv'
    BY <1>0, <1>1, <2>1 DEF AloneInv, InFlight
  <2>3. KeptInv'
    BY <1>0, <1>1, <2>1 DEF KeptInv, NoProc
  <2>4. RestInv'
    <3>1. proc \in {NoProc, inHand[p]}
      BY <1>0, <2>1 DEF KeptInv
    <3>2. proc # NoProc => proc \in ready' /\ reader[proc] = "reading"
      BY <2>1, <3>1
    <3> QED BY <2>1, <3>2 DEF RestInv
  <2>5. PromptedAfterInitialize'
    BY <1>0, <1>1, <2>1 DEF PromptedAfterInitialize
  <2>6. StartInv'
    BY <1>0, <1>1, <2>1 DEF StartInv, Starting, Ending, NoProc
  <2>7. ClaimInv'
    BY <1>0, <1>1, <2>1 DEF ClaimInv, InFlight
  <2>8. ToldInv'
    BY <1>0, <1>1, <2>1 DEF ToldInv, Written
  <2> QED BY <1>0, <2>1, <2>2, <2>3, <2>4, <2>5, <2>6, <2>7, <2>8, OneStays DEF OneInv
<1>10. CASE InitializeFails(p)
  <2>1. /\ at[p] = "init" /\ at'[p] = "fail"
        /\ \A q \in Prompts \ {p} : at'[q] = at[q]
        /\ UNCHANGED <<proc, turn, state, inHand, born, alive, hungUp, inbox, cli, ready,
                       reader, held, died, told, interrupted, misled>>
    BY <1>10, <1>0 DEF InitializeFails, Goto, fields, prompter, child, loop, history, tabs,
       marks, Shapes, Procs, NoProc
  <2>2. AloneInv'
    BY <1>0, <1>1, <2>1 DEF AloneInv, InFlight
  <2>3. KeptInv'
    BY <1>0, <1>1, <2>1 DEF KeptInv, NoProc
  <2>4. RestInv'
    BY <1>0, <1>1, <2>1 DEF RestInv, NoProc
  <2>5. PromptedAfterInitialize'
    BY <1>0, <1>1, <2>1 DEF PromptedAfterInitialize
  <2>6. StartInv'
    BY <1>0, <1>1, <2>1 DEF StartInv, Starting, Ending, NoProc
  <2>7. ClaimInv'
    BY <1>0, <1>1, <2>1 DEF ClaimInv, InFlight
  <2>8. ToldInv'
    BY <1>0, <1>1, <2>1 DEF ToldInv, Written
  <2> QED BY <1>0, <2>1, <2>2, <2>3, <2>4, <2>5, <2>6, <2>7, <2>8, OneStays DEF OneInv
<1>11. CASE Ready(p)
  <2>1. /\ at[p] = "ready" /\ at'[p] = "claim" /\ state' = "idle"
        /\ \A q \in Prompts \ {p} : at'[q] = at[q]
        /\ UNCHANGED <<proc, turn, inHand, born, alive, hungUp, inbox, cli, ready, reader,
                       held, died, told, interrupted, misled>>
    BY <1>11, <1>0 DEF Ready, Goto, fields, prompter, child, loop, history, tabs, marks,
       Shapes, Procs, NoProc
  <2>2. AloneInv'
    BY <1>0, <1>1, <2>1 DEF AloneInv, InFlight
  <2>3. KeptInv'
    BY <1>0, <1>1, <2>1 DEF KeptInv, NoProc
  <2>4. RestInv'
    BY <1>0, <1>1, <2>1 DEF RestInv, NoProc
  <2>5. PromptedAfterInitialize'
    BY <1>0, <1>1, <2>1 DEF PromptedAfterInitialize
  <2>6. StartInv'
    BY <1>0, <1>1, <2>1 DEF StartInv, Starting, Ending, NoProc
  <2>7. ClaimInv'
    BY <1>0, <1>1, <2>1 DEF ClaimInv, InFlight
  <2>8. ToldInv'
    BY <1>0, <1>1, <2>1 DEF ToldInv, Written
  <2> QED BY <1>0, <2>1, <2>2, <2>3, <2>4, <2>5, <2>6, <2>7, <2>8, OneStays DEF OneInv
<1>12. CASE Claim(p)
  <2>1. /\ at[p] = "claim" /\ turn' = p /\ interrupted' = "none"
        /\ \/ at'[p] = "refused" /\ inHand'[p] = NoProc
           \/ at'[p] = "write" /\ inHand'[p] = proc /\ proc # NoProc
        /\ \A q \in Prompts \ {p} : at'[q] = at[q] /\ inHand'[q] = inHand[q]
        /\ UNCHANGED <<proc, state, born, alive, hungUp, inbox, cli, ready, reader, held, died,
                       told, misled>>
    BY <1>12, <1>0 DEF Claim, Leave, Goto, fields, child, loop, history, tabs, marks, Shapes,
       Procs, NoProc
  <2>2. AloneInv'
    BY <1>0, <1>1, <2>1 DEF AloneInv, InFlight
  <2>3. KeptInv'
    BY <1>0, <1>1, <2>1 DEF KeptInv, NoProc
  <2>4. RestInv'
    BY <1>0, <1>1, <2>1 DEF RestInv, NoProc
  <2>5. PromptedAfterInitialize'
    <3>1. \A q \in Prompts : at[q] \notin {"init", "fail"}
      BY <1>0, <2>1 DEF AloneInv, InFlight
    <3>2. proc # NoProc => proc \in ready
      BY <1>0, <3>1 DEF RestInv
    <3> QED BY <1>0, <2>1, <3>2 DEF PromptedAfterInitialize
  <2>6. StartInv'
    BY <1>0, <1>1, <2>1 DEF StartInv, Starting, Ending, NoProc
  <2>7. ClaimInv'
    <3>1. \A q \in InFlight' : q = p
      BY <1>0, <2>1 DEF AloneInv, InFlight
    <3> QED BY <2>1, <3>1 DEF ClaimInv
  <2>8. ToldInv'
    <3>1. turn \in {"none", "own", p} /\ turn' = p
      BY <1>0, <2>1 DEF ClaimInv, InFlight
    <3>2. \A q \in Prompts \ {p} : /\ at'[q] = at[q] /\ turn # q
      BY <1>1, <2>1, <3>1
    <3> QED BY <1>0, <2>1, <3>1, <3>2 DEF ToldInv, Written
  <2> QED BY <1>0, <2>1, <2>2, <2>3, <2>4, <2>5, <2>6, <2>7, <2>8, OneStays DEF OneInv
<1>13. CASE Write(p)
  <2>1. /\ at[p] = "write" /\ at'[p] = "sent" /\ reader[inHand[p]] \notin Gone
        /\ inHand[p] \in Procs => inbox'[inHand[p]] # <<>>
        /\ \A m \in Procs \ {inHand[p]} : inbox'[m] = inbox[m]
        /\ \A q \in Prompts \ {p} : at'[q] = at[q]
        /\ UNCHANGED <<proc, turn, state, inHand, born, alive, hungUp, cli, ready, reader,
                       held, died, told, interrupted, misled>>
    BY <1>13, <1>0, AppendsOne DEF Write, Goto, fields, prompter, child, loop, history, tabs,
       marks, Shapes, Procs, NoProc
  <2>2. AloneInv'
    BY <1>0, <1>1, <2>1 DEF AloneInv, InFlight
  <2>3. KeptInv'
    BY <1>0, <1>1, <2>1 DEF KeptInv, NoProc
  <2>4. RestInv'
    BY <1>0, <1>1, <2>1 DEF RestInv, NoProc
  <2>5. PromptedAfterInitialize'
    BY <1>0, <1>1, <2>1 DEF PromptedAfterInitialize
  <2>6. StartInv'
    BY <1>0, <1>1, <2>1 DEF StartInv, Starting, Ending, NoProc
  <2>7. ClaimInv'
    BY <1>0, <1>1, <2>1 DEF ClaimInv, InFlight
  <2>8. ToldInv'
    BY <1>0, <1>1, <2>1 DEF ToldInv, Written
  <2> QED BY <1>0, <2>1, <2>2, <2>3, <2>4, <2>5, <2>6, <2>7, <2>8, OneStays DEF OneInv
<1>14. CASE WriteFails(p)
  <2>1. /\ at[p] = "write" /\ at'[p] = "unclaim"
        /\ \A q \in Prompts \ {p} : at'[q] = at[q]
        /\ UNCHANGED <<proc, turn, state, inHand, born, alive, hungUp, inbox, cli, ready,
                       reader, held, died, told, interrupted, misled>>
    BY <1>14, <1>0 DEF WriteFails, Goto, fields, prompter, child, loop, history, tabs, marks,
       Shapes, Procs, NoProc
  <2>2. AloneInv'
    BY <1>0, <1>1, <2>1 DEF AloneInv, InFlight
  <2>3. KeptInv'
    BY <1>0, <1>1, <2>1 DEF KeptInv, NoProc
  <2>4. RestInv'
    BY <1>0, <1>1, <2>1 DEF RestInv, NoProc
  <2>5. PromptedAfterInitialize'
    BY <1>0, <1>1, <2>1 DEF PromptedAfterInitialize
  <2>6. StartInv'
    BY <1>0, <1>1, <2>1 DEF StartInv, Starting, Ending, NoProc
  <2>7. ClaimInv'
    BY <1>0, <1>1, <2>1 DEF ClaimInv, InFlight
  <2>8. ToldInv'
    BY <1>0, <1>1, <2>1 DEF ToldInv, Written
  <2> QED BY <1>0, <2>1, <2>2, <2>3, <2>4, <2>5, <2>6, <2>7, <2>8, OneStays DEF OneInv
<1>15. CASE Unclaim(p)
  <2>1. /\ at[p] = "unclaim" /\ at'[p] = "refused" /\ inHand'[p] = NoProc /\ turn' = "none"
        /\ \A q \in Prompts \ {p} : at'[q] = at[q] /\ inHand'[q] = inHand[q]
        /\ UNCHANGED <<proc, state, born, alive, hungUp, inbox, cli, ready, reader, held, died,
                       told, interrupted, misled>>
    BY <1>15, <1>0 DEF Unclaim, Leave, Goto, fields, child, loop, history, tabs, marks, Shapes,
       Procs, NoProc
  <2>2. AloneInv'
    BY <1>0, <1>1, <2>1 DEF AloneInv, InFlight
  <2>3. KeptInv'
    BY <1>0, <1>1, <2>1 DEF KeptInv, NoProc
  <2>4. RestInv'
    BY <1>0, <1>1, <2>1 DEF RestInv, NoProc
  <2>5. PromptedAfterInitialize'
    BY <1>0, <1>1, <2>1 DEF PromptedAfterInitialize
  <2>6. StartInv'
    BY <1>0, <1>1, <2>1 DEF StartInv, Starting, Ending, NoProc
  <2>7. ClaimInv'
    BY <1>0, <1>1, <2>1 DEF ClaimInv, InFlight
  <2>8. ToldInv'
    BY <1>0, <1>1, <2>1 DEF ToldInv, ClaimInv, InFlight, Written
  <2> QED BY <1>0, <2>1, <2>2, <2>3, <2>4, <2>5, <2>6, <2>7, <2>8, OneStays DEF OneInv
<1>16. CASE SetRunning(p)
  <2>1. /\ at[p] = "sent" /\ at'[p] = "announce" /\ state' = "running"
        /\ \A q \in Prompts \ {p} : at'[q] = at[q]
        /\ UNCHANGED <<proc, turn, inHand, born, alive, hungUp, inbox, cli, ready, reader,
                       held, died, told, interrupted, misled>>
    BY <1>16, <1>0 DEF SetRunning, Goto, fields, prompter, child, loop, history, tabs, marks,
       Shapes, Procs, NoProc
  <2>2. AloneInv'
    BY <1>0, <1>1, <2>1 DEF AloneInv, InFlight
  <2>3. KeptInv'
    BY <1>0, <1>1, <2>1 DEF KeptInv, NoProc
  <2>4. RestInv'
    BY <1>0, <1>1, <2>1 DEF RestInv, NoProc
  <2>5. PromptedAfterInitialize'
    BY <1>0, <1>1, <2>1 DEF PromptedAfterInitialize
  <2>6. StartInv'
    BY <1>0, <1>1, <2>1 DEF StartInv, Starting, Ending, NoProc
  <2>7. ClaimInv'
    BY <1>0, <1>1, <2>1 DEF ClaimInv, InFlight
  <2>8. ToldInv'
    BY <1>0, <1>1, <2>1 DEF ToldInv, Written
  <2> QED BY <1>0, <2>1, <2>2, <2>3, <2>4, <2>5, <2>6, <2>7, <2>8, OneStays DEF OneInv
<1>17. CASE Announce(p)
  <2>1. /\ at[p] = "announce" /\ at'[p] = "accepted" /\ inHand'[p] = NoProc
        /\ \A q \in Prompts \ {p} : at'[q] = at[q] /\ inHand'[q] = inHand[q]
        /\ UNCHANGED <<proc, turn, state, born, alive, hungUp, inbox, cli, ready, reader, held,
                       died, told, interrupted, misled>>
    BY <1>17, <1>0 DEF Announce, Leave, Goto, fields, child, loop, history, tabs, marks,
       Shapes, Procs, NoProc
  <2>2. AloneInv'
    BY <1>0, <1>1, <2>1 DEF AloneInv, InFlight
  <2>3. KeptInv'
    BY <1>0, <1>1, <2>1 DEF KeptInv, NoProc
  <2>4. RestInv'
    BY <1>0, <1>1, <2>1 DEF RestInv, NoProc
  <2>5. PromptedAfterInitialize'
    BY <1>0, <1>1, <2>1 DEF PromptedAfterInitialize
  <2>6. StartInv'
    BY <1>0, <1>1, <2>1 DEF StartInv, Starting, Ending, NoProc
  <2>7. ClaimInv'
    BY <1>0, <1>1, <2>1 DEF ClaimInv, InFlight
  <2>8. ToldInv'
    BY <1>0, <1>1, <2>1 DEF ToldInv, Written
  <2> QED BY <1>0, <2>1, <2>2, <2>3, <2>4, <2>5, <2>6, <2>7, <2>8, OneStays DEF OneInv
<1> QED BY <1>2, <1>3, <1>4, <1>5, <1>6, <1>7, <1>8, <1>9, <1>10, <1>11, <1>12, <1>13, <1>14,
   <1>15, <1>16, <1>17 DEF Prompt

\* The CLI.
LEMMA CliLives ==
    ASSUME IInv, TurnInv, OneInv, NEW n \in Procs, Cli(n)
    PROVE  OneInv'
<1>0. /\ Shapes /\ PlaceInv /\ OpenInv /\ BusyInv /\ MarkInv
      /\ AloneInv /\ DeadInv /\ KeptInv /\ RestInv /\ PromptedAfterInitialize
      /\ StartInv /\ ClaimInv /\ ToldInv
  BY ShapesHold DEF TurnInv, OneInv
<1>1. Procs = 1..MaxProcs /\ MaxProcs \in Nat /\ born \in Nat /\ born <= MaxProcs
      /\ 1..born \subseteq Procs
      /\ "none" \notin Prompts /\ "own" \notin Prompts
  BY <1>0 DEF Shapes
<1>2. CASE CliTakesPrompt(n)
  <2>1. /\ cli'[n] # "none"
        /\ \A m \in Procs \ {n} : cli'[m] = cli[m] /\ inbox'[m] = inbox[m]
        /\ UNCHANGED <<proc, turn, state, at, inHand, born, alive, hungUp, ready, reader, held,
                       died, told, interrupted, misled>>
    BY <1>2, <1>0 DEF CliTakesPrompt, fields, prompter, child, loop, history, tabs, marks,
       Shapes, Procs, NoProc
  <2> QED BY <1>0, <2>1, OneStays DEF OneInv
<1>3. CASE CliOpensTurn(n)
  <2>1. /\ cli'[n] # "none" /\ \A m \in Procs \ {n} : cli'[m] = cli[m]
        /\ UNCHANGED <<proc, turn, state, at, inHand, born, alive, hungUp, inbox, ready,
                       reader, held, died, told, interrupted, misled>>
    BY <1>3, <1>0 DEF CliOpensTurn, fields, prompter, child, loop, history, tabs, marks,
       Shapes, Procs, NoProc
  <2> QED BY <1>0, <2>1, OneStays DEF OneInv
<1>4. CASE CliStops(n)
  <2>1. /\ n \in hungUp /\ alive' = alive \ {n}
        /\ UNCHANGED <<proc, turn, state, at, inHand, born, hungUp, inbox, cli, ready, reader,
                       held, died, told, interrupted, misled>>
    BY <1>4, <1>0 DEF CliStops, fields, prompter, child, loop, history, tabs, marks, Shapes,
       Procs, NoProc
  <2>2. DeadInv'
    BY <1>0, <1>1, <2>1 DEF DeadInv, Gone
  <2> QED BY <1>0, <2>1, <2>2, OneStays DEF OneInv
<1>5. CASE CliDies(n)
  <2>1. /\ alive' = alive \ {n} /\ died' = died \union {n}
        /\ UNCHANGED <<proc, turn, state, at, inHand, born, hungUp, inbox, cli, ready, reader,
                       held, told, interrupted, misled>>
    BY <1>5, <1>0 DEF CliDies, fields, prompter, child, loop, history, tabs, marks, Shapes,
       Procs, NoProc
  <2>2. DeadInv'
    BY <1>0, <1>1, <2>1 DEF DeadInv, Gone
  <2>3. StartInv'
    BY <1>0, <1>1, <2>1 DEF StartInv, Starting, Ending, NoProc
  <2> QED BY <1>0, <2>1, <2>2, <2>3, OneStays DEF OneInv
<1> QED BY <1>2, <1>3, <1>4, <1>5 DEF Cli

\* The read loop, but for the messages that leave turns alone.
LEMMA LoopLives ==
    ASSUME IInv, TurnInv, OneInv, NEW n \in Procs,
           HandleMessage(n) \/ ReadContent(n) \/ ReadResult(n)
    PROVE  OneInv'
<1>0. /\ Shapes /\ PlaceInv /\ OpenInv /\ BusyInv /\ MarkInv
      /\ AloneInv /\ DeadInv /\ KeptInv /\ RestInv /\ PromptedAfterInitialize
      /\ StartInv /\ ClaimInv /\ ToldInv
  BY ShapesHold DEF TurnInv, OneInv
<1>1. Procs = 1..MaxProcs /\ MaxProcs \in Nat /\ born \in Nat /\ born <= MaxProcs
      /\ 1..born \subseteq Procs
      /\ "none" \notin Prompts /\ "own" \notin Prompts
  BY <1>0 DEF Shapes
<1>2. CASE ReadContent(n)
  <2>1. /\ reader[n] = "reading" /\ reader'[n] = "open" /\ cli[n] # "none"
        /\ \A m \in Procs \ {n} : reader'[m] = reader[m]
        /\ UNCHANGED <<proc, turn, state, at, inHand, born, alive, hungUp, inbox, cli, ready,
                       held, died, told, interrupted, misled>>
    BY <1>2, <1>0 DEF ReadContent, Step, fields, prompter, child, loop, history, tabs, marks,
       Shapes, Procs, NoProc
  <2>2. DeadInv'
    BY <1>0, <1>1, <2>1 DEF DeadInv, Gone
  <2>3. RestInv'
    BY <1>0, <2>1, LoopRests
  <2>4. StartInv'
    BY <1>0, <2>1, LoopStarts
  <2>5. ToldInv'
    BY <1>0, <1>1, <2>1 DEF ToldInv, Written
  <2> QED BY <1>0, <2>1, <2>2, <2>3, <2>4, <2>5, OneStays DEF OneInv
<1>3. CASE ReadResult(n)
  <2>1. /\ reader[n] = "reading" /\ reader'[n] = "result"
        /\ \A m \in Procs \ {n} : cli'[m] = cli[m]
        /\ \A m \in Procs \ {n} : reader'[m] = reader[m]
        /\ UNCHANGED <<proc, turn, state, at, inHand, born, alive, hungUp, inbox, ready, held,
                       died, told, interrupted, misled>>
    BY <1>3, <1>0 DEF ReadResult, Step, fields, prompter, child, loop, history, tabs, marks,
       Shapes, Procs, NoProc
  <2>2. DeadInv'
    BY <1>0, <1>1, <2>1 DEF DeadInv, Gone
  <2>3. RestInv'
    BY <1>0, <2>1, LoopRests
  <2>4. StartInv'
    BY <1>0, <2>1, LoopStarts
  <2>5. ToldInv'
    BY <1>0, <1>1, <2>1 DEF ToldInv, Written
  <2> QED BY <1>0, <2>1, <2>2, <2>3, <2>4, <2>5, OneStays DEF OneInv
<1>4. CASE PublishContent(n)
  <2>1. /\ reader[n] = "content" /\ reader'[n] = "reading"
        /\ \A m \in Procs \ {n} : reader'[m] = reader[m]
        /\ UNCHANGED <<proc, turn, state, at, inHand, born, alive, hungUp, inbox, cli, ready,
                       held, died, told, interrupted, misled>>
    BY <1>4, <1>0 DEF PublishContent, Step, fields, prompter, child, loop, history, tabs,
       marks, Shapes, Procs, NoProc
  <2>2. DeadInv'
    BY <1>0, <1>1, <2>1 DEF DeadInv, Gone
  <2>3. RestInv'
    BY <1>0, <2>1, LoopRests
  <2>4. StartInv'
    BY <1>0, <2>1, LoopStarts
  <2>5. ToldInv'
    BY <1>0, <1>1, <2>1 DEF ToldInv, Written
  <2> QED BY <1>0, <2>1, <2>2, <2>3, <2>4, <2>5, OneStays DEF OneInv
<1>5. CASE OpenTurn(n)
  <2>1. /\ reader[n] = "open" /\ reader'[n] \in {"content", "opened"}
        /\ turn' = IF turn # "none" THEN turn ELSE "own"
        /\ \A m \in Procs \ {n} : reader'[m] = reader[m]
        /\ UNCHANGED <<proc, state, at, inHand, born, alive, hungUp, inbox, cli, ready, held,
                       died, told, interrupted, misled>>
    BY <1>5, <1>0 DEF OpenTurn, Step, fields, prompter, child, loop, history, tabs, marks,
       Shapes, Procs, NoProc
  <2>2. DeadInv'
    BY <1>0, <1>1, <2>1 DEF DeadInv, Gone
  <2>3. RestInv'
    BY <1>0, <2>1, LoopRests
  <2>4. StartInv'
    BY <1>0, <2>1, LoopStarts
  <2>5. ClaimInv'
    BY <1>0, <1>1, <2>1 DEF ClaimInv, InFlight
  <2>6. ToldInv'
    BY <1>0, <1>1, <2>1 DEF ToldInv, Written
  <2> QED BY <1>0, <2>1, <2>2, <2>3, <2>4, <2>5, <2>6, OneStays DEF OneInv
<1>6. CASE TurnOpened(n)
  <2>1. /\ reader[n] = "opened" /\ reader'[n] = "content" /\ state' = "running"
        /\ \A m \in Procs \ {n} : reader'[m] = reader[m]
        /\ UNCHANGED <<proc, turn, at, inHand, born, alive, hungUp, inbox, cli, ready, held,
                       died, told, interrupted, misled>>
    BY <1>6, <1>0 DEF TurnOpened, Step, fields, prompter, child, loop, history, tabs, marks,
       Shapes, Procs, NoProc
  <2>2. DeadInv'
    BY <1>0, <1>1, <2>1 DEF DeadInv, Gone
  <2>3. RestInv'
    BY <1>0, <2>1, LoopRests
  <2>4. StartInv'
    BY <1>0, <2>1, LoopStarts
  <2>5. ToldInv'
    BY <1>0, <1>1, <2>1 DEF ToldInv, Written
  <2> QED BY <1>0, <2>1, <2>2, <2>3, <2>4, <2>5, OneStays DEF OneInv
<1>7. CASE ResultEndsRequests(n)
  <2>1. /\ reader[n] = "result" /\ reader'[n] = "finish"
        /\ \A m \in Procs \ {n} : reader'[m] = reader[m]
        /\ UNCHANGED <<proc, turn, state, at, inHand, born, alive, hungUp, inbox, cli, ready,
                       held, died, told, interrupted, misled>>
    BY <1>7, <1>0 DEF ResultEndsRequests, Step, fields, prompter, child, loop, history, tabs,
       marks, Shapes, Procs, NoProc
  <2>2. DeadInv'
    BY <1>0, <1>1, <2>1 DEF DeadInv, Gone
  <2>3. RestInv'
    BY <1>0, <2>1, LoopRests
  <2>4. StartInv'
    BY <1>0, <2>1, LoopStarts
  <2>5. ToldInv'
    BY <1>0, <1>1, <2>1 DEF ToldInv, Written
  <2> QED BY <1>0, <2>1, <2>2, <2>3, <2>4, <2>5, OneStays DEF OneInv
<1>8. CASE FinishTurn(n)
  <2>1. /\ reader[n] = "finish" /\ reader'[n] = "settle"
        /\ turn' = "none" /\ interrupted' = "none" /\ told' = told \union ({turn} \cap Prompts)
        /\ misled' = (misled \/ (turn \in Prompts /\ interrupted \notin {"none", turn}))
        /\ \A m \in Procs \ {n} : reader'[m] = reader[m]
        /\ UNCHANGED <<proc, state, at, inHand, born, alive, hungUp, inbox, cli, ready, held,
                       died>>
    BY <1>8, <1>0 DEF FinishTurn, Step, fields, prompter, child, loop, history, Shapes, Procs,
       NoProc
  <2>2. DeadInv'
    BY <1>0, <1>1, <2>1 DEF DeadInv, Gone
  <2>3. RestInv'
    BY <1>0, <2>1, LoopRests
  <2>4. StartInv'
    BY <1>0, <2>1, LoopStarts
  <2>5. ClaimInv'
    BY <1>0, <1>1, <2>1 DEF ClaimInv, InFlight
  <2>6. ToldInv'
    BY <1>0, <1>1, <2>1 DEF ToldInv, Written
  <2> QED BY <1>0, <2>1, <2>2, <2>3, <2>4, <2>5, <2>6, OneStays DEF OneInv
<1>9. CASE TasksRead(n)
  <2>1. /\ reader[n] = "tasks" /\ reader'[n] \in {"reading", "settle"}
        /\ \A m \in Procs \ {n} : reader'[m] = reader[m]
        /\ UNCHANGED <<proc, turn, state, at, inHand, born, alive, hungUp, inbox, cli, ready,
                       held, died, told, interrupted, misled>>
    BY <1>9, <1>0 DEF TasksRead, Step, fields, prompter, child, loop, history, tabs, marks,
       Shapes, Procs, NoProc
  <2>2. DeadInv'
    BY <1>0, <1>1, <2>1 DEF DeadInv, Gone
  <2>3. RestInv'
    BY <1>0, <2>1, LoopRests
  <2>4. StartInv'
    BY <1>0, <2>1, LoopStarts
  <2>5. ToldInv'
    BY <1>0, <1>1, <2>1 DEF ToldInv, Written
  <2> QED BY <1>0, <2>1, <2>2, <2>3, <2>4, <2>5, OneStays DEF OneInv
<1>10. CASE Settle(n)
  <2>1. /\ reader[n] = "settle" /\ reader'[n] \in {"background", "idle"}
        /\ \A m \in Procs \ {n} : reader'[m] = reader[m]
        /\ UNCHANGED <<proc, turn, state, at, inHand, born, alive, hungUp, inbox, cli, ready,
                       held, died, told, interrupted, misled>>
    BY <1>10, <1>0 DEF Settle, Step, fields, prompter, child, loop, history, tabs, marks,
       Shapes, Procs, NoProc
  <2>2. DeadInv'
    BY <1>0, <1>1, <2>1 DEF DeadInv, Gone
  <2>3. RestInv'
    BY <1>0, <2>1, LoopRests
  <2>4. StartInv'
    BY <1>0, <2>1, LoopStarts
  <2>5. ToldInv'
    BY <1>0, <1>1, <2>1 DEF ToldInv, Written
  <2> QED BY <1>0, <2>1, <2>2, <2>3, <2>4, <2>5, OneStays DEF OneInv
<1>11. CASE Settled(n)
  <2>1. /\ reader[n] \in {"background", "idle"} /\ reader'[n] = "reading" /\ state' = reader[n]
        /\ \A m \in Procs \ {n} : reader'[m] = reader[m]
        /\ UNCHANGED <<proc, turn, at, inHand, born, alive, hungUp, inbox, cli, ready, held,
                       died, told, interrupted, misled>>
    BY <1>11, <1>0 DEF Settled, Step, fields, prompter, child, loop, history, tabs, marks,
       Shapes, Procs, NoProc
  <2>2. DeadInv'
    BY <1>0, <1>1, <2>1 DEF DeadInv, Gone
  <2>3. RestInv'
    BY <1>0, <2>1, LoopRests
  <2>4. StartInv'
    BY <1>0, <2>1, LoopStarts
  <2>5. ToldInv'
    BY <1>0, <1>1, <2>1 DEF ToldInv, Written
  <2> QED BY <1>0, <2>1, <2>2, <2>3, <2>4, <2>5, OneStays DEF OneInv
<1>12. CASE AddPending(n)
  <2>1. /\ reader[n] = "ask" /\ reader'[n] = "asked"
        /\ \A m \in Procs \ {n} : reader'[m] = reader[m]
        /\ UNCHANGED <<proc, turn, state, at, inHand, born, alive, hungUp, inbox, cli, ready,
                       held, died, told, interrupted, misled>>
    BY <1>12, <1>0 DEF AddPending, Step, fields, prompter, child, loop, history, tabs, marks,
       Shapes, Procs, NoProc
  <2>2. DeadInv'
    BY <1>0, <1>1, <2>1 DEF DeadInv, Gone
  <2>3. RestInv'
    BY <1>0, <2>1, LoopRests
  <2>4. StartInv'
    BY <1>0, <2>1, LoopStarts
  <2>5. ToldInv'
    BY <1>0, <1>1, <2>1 DEF ToldInv, Written
  <2> QED BY <1>0, <2>1, <2>2, <2>3, <2>4, <2>5, OneStays DEF OneInv
<1>13. CASE WaitForOwner(n)
  <2>1. /\ reader[n] = "asked" /\ reader'[n] = "reading" /\ state' = "waiting_input"
        /\ \A m \in Procs \ {n} : held'[m] = held[m]
        /\ \A m \in Procs \ {n} : reader'[m] = reader[m]
        /\ UNCHANGED <<proc, turn, at, inHand, born, alive, hungUp, inbox, cli, ready, died,
                       told, interrupted, misled>>
    BY <1>13, <1>0 DEF WaitForOwner, Step, fields, prompter, child, history, tabs, marks,
       Shapes, Procs, NoProc
  <2>2. DeadInv'
    BY <1>0, <1>1, <2>1 DEF DeadInv, Gone
  <2>3. RestInv'
    BY <1>0, <2>1, LoopRests
  <2>4. StartInv'
    BY <1>0, <2>1, LoopStarts
  <2>5. ToldInv'
    BY <1>0, <1>1, <2>1 DEF ToldInv, Written
  <2> QED BY <1>0, <2>1, <2>2, <2>3, <2>4, <2>5, OneStays DEF OneInv
<1>14. CASE ReadEnds(n)
  <2>1. /\ reader[n] = "reading" /\ reader'[n] = "exiting" /\ n \notin alive
        /\ \A m \in Procs \ {n} : reader'[m] = reader[m]
        /\ UNCHANGED <<proc, turn, state, at, inHand, born, alive, hungUp, inbox, cli, ready,
                       held, died, told, interrupted, misled>>
    BY <1>14, <1>0 DEF ReadEnds, Step, fields, prompter, child, loop, history, tabs, marks,
       Shapes, Procs, NoProc
  <2>2. DeadInv'
    BY <1>0, <1>1, <2>1 DEF DeadInv, Gone
  <2>3. RestInv'
    BY <1>0, <2>1, LoopRests
  <2>4. StartInv'
    BY <1>0, <2>1, LoopStarts
  <2>5. ToldInv'
    BY <1>0, <1>1, <2>1 DEF ToldInv, Written
  <2> QED BY <1>0, <2>1, <2>2, <2>3, <2>4, <2>5, OneStays DEF OneInv
<1>15. CASE ExitClears(n)
  <2>1. /\ reader[n] = "exiting" /\ reader'[n] = "cleared"
        /\ turn' = "none" /\ proc' = NoProc
        /\ held'[n] = turn /\ \A m \in Procs \ {n} : held'[m] = held[m]
        /\ \A m \in Procs \ {n} : reader'[m] = reader[m]
        /\ UNCHANGED <<state, at, inHand, born, alive, hungUp, inbox, cli, ready, died, told,
                       interrupted, misled>>
    BY <1>15, <1>0 DEF ExitClears, Step, fields, prompter, child, history, tabs, marks, Shapes,
       Procs, NoProc
  <2>2. DeadInv'
    BY <1>0, <1>1, <2>1 DEF DeadInv, Gone
  <2>3. KeptInv'
    BY <1>0, <1>1, <2>1 DEF KeptInv, NoProc
  <2>4. RestInv'
    BY <2>1 DEF RestInv
  <2>5. StartInv'
    <3>1. n \in 1..born /\ n \in hungUp \union died
      BY <1>0, <1>1, <2>1 DEF Shapes, DeadInv, Gone
    <3>2. Ending'
      BY <2>1, <3>1 DEF Ending
    <3> QED BY <3>2 DEF StartInv
  <2>6. ClaimInv'
    BY <1>0, <1>1, <2>1 DEF ClaimInv, InFlight
  <2>7. ToldInv'
    BY <1>0, <1>1, <2>1 DEF ToldInv, Written
  <2> QED BY <1>0, <2>1, <2>2, <2>3, <2>4, <2>5, <2>6, <2>7, OneStays DEF OneInv
<1>16. CASE ExitEndsRequests(n)
  <2>1. /\ reader[n] = "cleared" /\ reader'[n] = "denied"
        /\ \A m \in Procs \ {n} : reader'[m] = reader[m]
        /\ UNCHANGED <<proc, turn, state, at, inHand, born, alive, hungUp, inbox, cli, ready,
                       held, died, told, interrupted, misled>>
    BY <1>16, <1>0 DEF ExitEndsRequests, Step, fields, prompter, child, loop, history, tabs,
       marks, Shapes, Procs, NoProc
  <2>2. DeadInv'
    BY <1>0, <1>1, <2>1 DEF DeadInv, Gone
  <2>3. RestInv'
    BY <1>0, <2>1, LoopRests
  <2>4. StartInv'
    BY <1>0, <2>1, LoopStarts
  <2>5. ToldInv'
    BY <1>0, <1>1, <2>1 DEF ToldInv, Written
  <2> QED BY <1>0, <2>1, <2>2, <2>3, <2>4, <2>5, OneStays DEF OneInv
<1>17. CASE ExitIdles(n)
  <2>1. /\ reader[n] = "denied" /\ reader'[n] = "over" /\ state' = "idle"
        /\ told' = told \union ({held[n]} \cap Prompts)
        /\ \A m \in Procs \ {n} : held'[m] = held[m] /\ cli'[m] = cli[m] /\ inbox'[m] = inbox[m]
        /\ \A m \in Procs \ {n} : reader'[m] = reader[m]
        /\ UNCHANGED <<proc, turn, at, inHand, born, alive, hungUp, ready, died, interrupted,
                       misled>>
    BY <1>17, <1>0 DEF ExitIdles, Step, fields, prompter, child, history, tabs, marks, Shapes,
       Procs, NoProc
  <2>2. DeadInv'
    BY <1>0, <1>1, <2>1 DEF DeadInv, Gone
  <2>3. RestInv'
    BY <1>0, <2>1, LoopRests
  <2>4. StartInv'
    BY <2>1 DEF StartInv
  <2>5. ToldInv'
    BY <1>0, <1>1, <2>1 DEF ToldInv, Written
  <2> QED BY <1>0, <2>1, <2>2, <2>3, <2>4, <2>5, OneStays DEF OneInv
<1> QED BY <1>2, <1>3, <1>4, <1>5, <1>6, <1>7, <1>8, <1>9, <1>10, <1>11, <1>12, <1>13, <1>14,
   <1>15, <1>16, <1>17 DEF HandleMessage

-----------------------------------------------------------------------------
(* The steps that are left: a prompt that comes in, what is read between   *)
(* the turns, whoever lets go of the process, and the owner.               *)

life == <<proc, turn, state, at, inHand, born, alive, hungUp, inbox, cli, ready,
          reader, held, died, told, interrupted, misled>>

LEMMA TurnKept == TurnInv /\ UNCHANGED life => TurnInv'
BY TurnStays DEF TurnInv, life

LEMMA OneKept == OneInv /\ UNCHANGED life => OneInv'
BY OneStays DEF OneInv, life

\* Neither the tabs nor the waiters touch the life of the session, but for the
\* state of the row.
LEMMA OwnerElsewhere ==
    /\ \A r \in Requests : Wake(r) \/ Forget(r) \/ Reply(r) => UNCHANGED life
    /\ \A r \in Requests : ResumeTurn(r) =>
          state' = "running"
          /\ UNCHANGED <<proc, turn, at, inHand, born, alive, hungUp, inbox, cli, ready,
                         reader, held, died, told, interrupted, misled>>
    /\ \A o \in Owners : SendDecision(o) => UNCHANGED life
    /\ \A o \in Owners, r \in Requests : Respond(o, r) => UNCHANGED life
<1> USE DEF life, fields, prompter, child, loop, tabs, marks, history
<1>1. \A r \in Requests : Wake(r) \/ Forget(r) \/ Reply(r) => UNCHANGED life
  BY DEF Wake, Forget, Reply
<1>2. \A r \in Requests : ResumeTurn(r) =>
          state' = "running"
          /\ UNCHANGED <<proc, turn, at, inHand, born, alive, hungUp, inbox, cli, ready,
                         reader, held, died, told, interrupted, misled>>
  BY DEF ResumeTurn
<1>3. \A o \in Owners : SendDecision(o) => UNCHANGED life
  BY DEF SendDecision
<1>4. \A o \in Owners, r \in Requests : Respond(o, r) => UNCHANGED life
  BY DEF Respond
<1> QED BY <1>1, <1>2, <1>3, <1>4

\* Reap and CloseSession let go of the process; what else they do is elsewhere.
LetsGo ==
    /\ LetGo
    /\ UNCHANGED <<turn, state, at, inHand, born, alive, inbox, cli, ready,
                   reader, held, died, told, interrupted, misled>>

LEMMA StopperLets ==
    /\ Reap \/ CloseSession => LetsGo
    /\ TimePasses \/ FindIdle \/ ReapReturns \/ DropSession \/ DiscardReturns => UNCHANGED life
<1> USE DEF fields, prompter, child, loop, tabs, marks, history
<1>1. Reap \/ CloseSession => LetsGo
  BY DEF Reap, CloseSession, LetsGo
<1>2. TimePasses \/ FindIdle \/ ReapReturns \/ DropSession \/ DiscardReturns => UNCHANGED life
  BY DEF TimePasses, FindIdle, ReapReturns, DropSession, DiscardReturns, life
<1> QED BY <1>1, <1>2

\* What a prompt that comes in is told, and what is read between two messages.
Arrives(p) ==
    /\ at[p] = "new" /\ Cardinality(InFlight) < MaxInFlight
    /\ at'[p] = IF turn # "none" THEN "refused" ELSE "ensure"
    /\ inHand'[p] \in {NoProc, inHand[p]}
    /\ \A q \in Prompts \ {p} : at'[q] = at[q] /\ inHand'[q] = inHand[q]
    /\ UNCHANGED <<proc, turn, state, born, alive, hungUp, inbox, cli, ready,
                   reader, held, died, told, interrupted, misled>>

LEMMA ArriveShape ==
    ASSUME Shapes, NEW p \in Prompts, NEW effort \in Efforts, Arrive(p, effort)
    PROVE  Arrives(p)
BY DEF Shapes, Arrive, Arrives, Leave, Goto, NoProc, fields, child, loop, tabs, marks, history

ReadsOther(n) ==
    /\ reader[n] = "reading" /\ reader'[n] \in {"tasks", "ask"}
    /\ \A m \in Procs \ {n} : reader'[m] = reader[m] /\ held'[m] = held[m]
    /\ UNCHANGED <<proc, turn, state, at, inHand, born, alive, hungUp, inbox, cli, ready,
                   died, told, interrupted, misled>>

LEMMA ReadsShape ==
    ASSUME Shapes, NEW n \in Procs,
           (\E some \in BOOLEAN : ReadTasks(n, some)) \/ \E r \in Requests : ReadRequest(n, r)
    PROVE  ReadsOther(n)
<1> USE DEF Shapes, Step, ReadsOther, fields, prompter, child, loop, tabs, marks, history
<1>1. ASSUME NEW some \in BOOLEAN, ReadTasks(n, some) PROVE ReadsOther(n)
  BY <1>1 DEF ReadTasks
<1>2. ASSUME NEW r \in Requests, ReadRequest(n, r) PROVE ReadsOther(n)
  BY <1>2 DEF ReadRequest
<1> QED BY <1>1, <1>2

LEMMA OtherTurns ==
    ASSUME Shapes, TurnInv
    PROVE  /\ \A p \in Prompts : Arrives(p) => TurnInv'
           /\ \A n \in Procs : ReadsOther(n) => TurnInv'
           /\ LetsGo => TurnInv'
           /\ Interrupt => TurnInv'
<1>0. /\ PlaceInv /\ OpenInv /\ BusyInv /\ MarkInv
      /\ Procs = 1..MaxProcs /\ MaxProcs \in Nat /\ born \in Nat /\ 1..born \subseteq Procs
  BY DEF TurnInv, Shapes
<1>1. ASSUME NEW p \in Prompts, Arrives(p) PROVE TurnInv'
  <2>1. PlaceInv'
    BY <1>0, <1>1 DEF PlaceInv, Arrives, NoProc
  <2>2. BusyInv'
    BY <1>0, <1>1 DEF BusyInv, Arrives, Works, Written, Gone
  <2> QED BY <1>0, <1>1, <2>1, <2>2, TurnStays DEF Arrives, TurnInv
<1>2. ASSUME NEW n \in Procs, ReadsOther(n) PROVE TurnInv'
  <2>1. OpenInv'
    BY <1>0, <1>2 DEF OpenInv, ReadsOther
  <2>2. \A m \in 1..born : Works(m) => Works(m)'
    BY <1>0, <1>2 DEF Works, ReadsOther, Gone
  <2>3. BusyInv'
    BY <1>0, <1>2, <2>2 DEF BusyInv, ReadsOther
  <2> QED BY <1>0, <1>2, <2>1, <2>3, TurnStays DEF ReadsOther, TurnInv
<1>3. ASSUME LetsGo PROVE TurnInv'
  <2>1. PlaceInv'
    BY <1>0, <1>3 DEF PlaceInv, LetsGo, LetGo, NoProc
  <2> QED BY <1>0, <1>3, <2>1, TurnStays DEF LetsGo, TurnInv
<1>4. ASSUME Interrupt PROVE TurnInv'
  <2>1. MarkInv'
    BY <1>0, <1>4 DEF MarkInv, Interrupt, fields
  <2> QED BY <1>0, <1>4, <2>1, TurnStays
          DEF Interrupt, TurnInv, fields, prompter, child, loop, history
<1> QED BY <1>1, <1>2, <1>3, <1>4

\* With one prompt at a time, one that comes in is alone.
LEMMA ComesAlone ==
    ASSUME MaxInFlight <= 1, AloneInv, Cardinality(InFlight) < MaxInFlight
    PROVE  InFlight = {}
<1> SUFFICES ASSUME NEW p \in InFlight PROVE FALSE
  OBVIOUS
<1>1. InFlight = {p}
  BY DEF AloneInv, InFlight
<1>2. Cardinality(InFlight) = 1
  BY <1>1, FS_Singleton
<1>3. MaxInFlight \in Nat
  BY SessionAssumption
<1> QED BY <1>2, <1>3

LEMMA OtherLives ==
    ASSUME Shapes, TurnInv, OneInv
    PROVE  /\ MaxInFlight <= 1 => \A p \in Prompts : Arrives(p) => OneInv'
           /\ \A n \in Procs : ReadsOther(n) => OneInv'
           /\ LetsGo => OneInv'
<1>0. /\ PlaceInv /\ AloneInv /\ DeadInv /\ KeptInv /\ RestInv /\ PromptedAfterInitialize
      /\ StartInv /\ ClaimInv /\ ToldInv
      /\ Procs = 1..MaxProcs /\ MaxProcs \in Nat /\ born \in Nat /\ 1..born \subseteq Procs
  BY DEF TurnInv, OneInv, Shapes
<1>1. ASSUME MaxInFlight <= 1, NEW p \in Prompts, Arrives(p) PROVE OneInv'
  <2>1. InFlight = {}
    BY <1>0, <1>1, ComesAlone DEF Arrives
  <2>2. \A q \in Prompts : at[q] \in {"new", "accepted", "refused"}
    BY <2>1 DEF InFlight
  <2>3. \A q \in Prompts \ {p} : at'[q] \in {"new", "accepted", "refused"}
    BY <1>1, <2>2 DEF Arrives
  <2>4. at'[p] \in {"refused", "ensure"} /\ (at'[p] = "ensure" => turn = "none")
    BY <1>1 DEF Arrives
  <2>5. AloneInv'
    BY <2>3 DEF AloneInv, InFlight
  <2>6. KeptInv'
    BY <2>3, <2>4 DEF KeptInv
  <2>7. RestInv'
    BY <1>0, <1>1, <2>2 DEF RestInv, Arrives, NoProc
  <2>8. PromptedAfterInitialize'
    BY <2>3, <2>4 DEF PromptedAfterInitialize
  <2>9. StartInv'
    BY <1>0, <1>1, <2>2 DEF StartInv, Starting, Ending, Arrives
  <2>10. ClaimInv'
    BY <1>1, <2>3, <2>4 DEF ClaimInv, InFlight, Arrives
  <2>11. ToldInv'
    BY <1>0, <1>1, <2>4 DEF ToldInv, Written, Arrives
  <2> QED BY <1>0, <1>1, <2>5, <2>6, <2>7, <2>8, <2>9, <2>10, <2>11, OneStays
          DEF Arrives, OneInv
<1>2. ASSUME NEW n \in Procs, ReadsOther(n) PROVE OneInv'
  <2>1. DeadInv'
    BY <1>0, <1>2 DEF DeadInv, ReadsOther, Gone
  <2>2. RestInv'
    BY <1>0, <1>2, LoopRests DEF ReadsOther
  <2>3. StartInv'
    BY <1>0, <1>2, LoopStarts DEF ReadsOther
  <2>4. ToldInv'
    <3>1. \A m \in Procs : reader[m] \in {"cleared", "denied"} =>
             reader'[m] = reader[m] /\ held'[m] = held[m]
      BY <1>2 DEF ReadsOther
    <3> QED BY <1>0, <1>2, <3>1 DEF ToldInv, Written, ReadsOther
  <2> QED BY <1>0, <1>2, <2>1, <2>2, <2>3, <2>4, OneStays DEF ReadsOther, OneInv
<1>3. ASSUME LetsGo PROVE OneInv'
  <2>1. /\ proc' = NoProc /\ hungUp' = hungUp \union ({proc} \ {NoProc})
        /\ UNCHANGED <<turn, state, at, inHand, born, alive, inbox, cli, ready,
                       reader, held, died, told, interrupted, misled>>
    BY <1>3 DEF LetsGo, LetGo
  <2>2. DeadInv'
    BY <1>0, <2>1 DEF DeadInv, Gone
  <2>3. KeptInv' /\ RestInv'
    BY <2>1 DEF KeptInv, RestInv, NoProc
  <2>4. StartInv'
    <3>1. Ending => Ending'
      BY <2>1 DEF Ending
    <3>2. \A q \in Prompts : Starting(q) => Starting(q)' \/ Ending'
      BY <1>0, <2>1 DEF Starting, Ending, PlaceInv, NoProc
    <3> QED BY <1>0, <2>1, <3>1, <3>2 DEF StartInv
  <2> QED BY <1>0, <2>1, <2>2, <2>3, <2>4, OneStays DEF OneInv
<1> QED BY <1>1, <1>2, <1>3

-----------------------------------------------------------------------------
(* Every step keeps both.                                                  *)

LEMMA NextTurnInv == IInv /\ TurnInv /\ [Next]_vars => TurnInv'
<1> SUFFICES ASSUME IInv, TurnInv, [Next]_vars PROVE TurnInv'
  OBVIOUS
<1>0. Shapes
  BY ShapesHold
<1>1. ASSUME NEW p \in Prompts, Prompt(p) PROVE TurnInv'
  BY <1>1, PromptTurns
<1>2. ASSUME NEW p \in Prompts, NEW effort \in Efforts, Arrive(p, effort) PROVE TurnInv'
  BY <1>0, <1>2, ArriveShape, OtherTurns
<1>3. ASSUME NEW n \in Procs, Cli(n) PROVE TurnInv'
  BY <1>3, CliTurns
<1>4. ASSUME NEW n \in Procs, ReadMessage(n) \/ HandleMessage(n) PROVE TurnInv'
  <2>1. CASE HandleMessage(n) \/ ReadContent(n) \/ ReadResult(n)
    BY <2>1, LoopTurns
  <2>2. CASE (\E some \in BOOLEAN : ReadTasks(n, some)) \/ \E r \in Requests : ReadRequest(n, r)
    BY <1>0, <2>2, ReadsShape, OtherTurns
  <2> QED BY <1>4, <2>1, <2>2 DEF ReadMessage
<1>5. ASSUME NEW r \in Requests, Wait(r) PROVE TurnInv'
  <2>1. CASE ResumeTurn(r)
    BY <2>1, OwnerElsewhere, TurnStays DEF TurnInv
  <2> QED BY <1>5, <2>1, OwnerElsewhere, TurnKept DEF Wait
<1>6. ASSUME NEW o \in Owners, SendDecision(o) \/ \E r \in Requests : Respond(o, r)
      PROVE TurnInv'
  BY <1>6, OwnerElsewhere, TurnKept
<1>7. CASE Interrupt
  BY <1>0, <1>7, OtherTurns
<1>8. CASE TimePasses \/ Stopper
  BY <1>0, <1>8, StopperLets, OtherTurns, TurnKept DEF Stopper
<1>9. CASE UNCHANGED vars
  BY <1>9, TurnKept DEF vars, life, fields, prompter, child, loop, tabs, marks, history
<1> QED BY <1>1, <1>2, <1>3, <1>4, <1>5, <1>6, <1>7, <1>8, <1>9 DEF Next

LEMMA NextOneInv ==
    ASSUME MaxInFlight <= 1
    PROVE  IInv /\ TurnInv /\ OneInv /\ [Next]_vars => OneInv'
<1> SUFFICES ASSUME IInv, TurnInv, OneInv, [Next]_vars PROVE OneInv'
  OBVIOUS
<1>0. Shapes
  BY ShapesHold
<1>1. ASSUME NEW p \in Prompts, Prompt(p) PROVE OneInv'
  BY <1>1, PromptLives
<1>2. ASSUME NEW p \in Prompts, NEW effort \in Efforts, Arrive(p, effort) PROVE OneInv'
  BY <1>0, <1>2, ArriveShape, OtherLives
<1>3. ASSUME NEW n \in Procs, Cli(n) PROVE OneInv'
  BY <1>3, CliLives
<1>4. ASSUME NEW n \in Procs, ReadMessage(n) \/ HandleMessage(n) PROVE OneInv'
  <2>1. CASE HandleMessage(n) \/ ReadContent(n) \/ ReadResult(n)
    BY <2>1, LoopLives
  <2>2. CASE (\E some \in BOOLEAN : ReadTasks(n, some)) \/ \E r \in Requests : ReadRequest(n, r)
    BY <1>0, <2>2, ReadsShape, OtherLives
  <2> QED BY <1>4, <2>1, <2>2 DEF ReadMessage
<1>5. ASSUME NEW r \in Requests, Wait(r) PROVE OneInv'
  <2>1. CASE ResumeTurn(r)
    <3>1. StartInv'
      BY <2>1, OwnerElsewhere DEF StartInv
    <3> QED BY <2>1, <3>1, OwnerElsewhere, OneStays DEF OneInv
  <2> QED BY <1>5, <2>1, OwnerElsewhere, OneKept DEF Wait
<1>6. ASSUME NEW o \in Owners, SendDecision(o) \/ \E r \in Requests : Respond(o, r)
      PROVE OneInv'
  BY <1>6, OwnerElsewhere, OneKept
<1>7. CASE Interrupt
  BY <1>7, OneStays DEF Interrupt, OneInv, fields, prompter, child, loop, history
<1>8. CASE TimePasses \/ Stopper
  BY <1>0, <1>8, StopperLets, OtherLives, OneKept DEF Stopper
<1>9. CASE UNCHANGED vars
  BY <1>9, OneKept DEF vars, life, fields, prompter, child, loop, tabs, marks, history
<1> QED BY <1>1, <1>2, <1>3, <1>4, <1>5, <1>6, <1>7, <1>8, <1>9 DEF Next

LEMMA InitLife == Init => TurnInv /\ OneInv
<1> SUFFICES ASSUME Init PROVE TurnInv /\ OneInv
  OBVIOUS
<1>1. PlaceInv /\ OpenInv
  BY DEF Init, PlaceInv, OpenInv, NoProc
<1>2. BusyInv /\ MarkInv
  BY SessionAssumption DEF Init, BusyInv, MarkInv
<1>3. InFlight = {} /\ DeadInv
  BY DEF Init, InFlight, DeadInv, Gone
<1>4. AloneInv /\ KeptInv /\ RestInv /\ PromptedAfterInitialize
  BY <1>3 DEF Init, AloneInv, KeptInv, RestInv, PromptedAfterInitialize
<1>5. StartInv /\ ClaimInv /\ ToldInv
  BY <1>3 DEF Init, StartInv, ClaimInv, ToldInv, Written
<1> QED BY <1>1, <1>2, <1>3, <1>4, <1>5 DEF TurnInv, OneInv

THEOREM TurnInvariance == Spec => []TurnInv
<1> QED BY InitLife, NextTurnInv, Invariance, PTL DEF Spec

THEOREM OneInvariance == ASSUME MaxInFlight <= 1 PROVE Spec => []OneInv
<1>1. IInv /\ TurnInv /\ OneInv /\ [Next]_vars => OneInv'
  BY NextOneInv
<1> QED BY <1>1, InitLife, TurnInvariance, Invariance, PTL DEF Spec

-----------------------------------------------------------------------------
(* What the invariants say of the session.                                 *)

\* For any number of prompts at the same time, of processes that die and of turns
\* the CLI opens: a thread that is busy is busy with something.  The CLI works on
\* it, says that it is through, or is gone and its end being handled
\* (session.go:220-228, 265-313, 649-662).
THEOREM BusyIsWork == Spec => []BusyMeansWorking
<1>1. TurnInv => BusyMeansWorking
  BY DEF TurnInv, BusyInv, Works, Written, BusyMeansWorking
<1> QED BY <1>1, TurnInvariance, PTL

\* When prompts come one at a time, whatever the processes, the reaper and Discard
\* do: a start that failed half way leaves neither the row at "starting" nor a
\* prompt to a process that did not answer initialize (session.go:176-208).
THEOREM StartsAreComplete == ASSUME MaxInFlight <= 1 PROVE Spec => []StartsComplete
<1>1. ASSUME IInv, OneInv, InFlight = {},
             \A n \in 1..born : n \in hungUp \union died => reader[n] = "over"
      PROVE  state # "starting"
  <2>1. ~Ending
    BY <1>1 DEF Ending
  <2>2. \A p \in Prompts : at[p] \in {"new", "accepted", "refused"}
    BY <1>1 DEF InFlight
  <2>3. \A p \in Prompts : ~Starting(p)
    BY <2>2 DEF Starting
  <2> QED BY <1>1, <2>1, <2>3 DEF OneInv, StartInv
<1>2. IInv /\ OneInv => StartsComplete
  BY <1>1 DEF OneInv, StartsComplete, StartingEnds
<1> QED BY <1>2, OneInvariance, Invariance, PTL

\* When prompts come one at a time, the session never rests on a process whose end
\* it has handled: the next prompt finds one that runs, or starts one
\* (session.go:188-242).
THEOREM RestsOnTheLiving == ASSUME MaxInFlight <= 1 PROVE Spec => []RestsOnNoDeadProcess
<1>1. OneInv => RestsOnNoDeadProcess
  BY DEF OneInv, RestInv, InFlight, RestsOnNoDeadProcess
<1> QED BY <1>1, OneInvariance, PTL

\* When prompts come one at a time, one that was accepted is the thread's turn until
\* its end is told, by the turn's result or as the fatal error of a process that
\* died; and none is told as interrupted that the owner did not interrupt
\* (session.go:220-242, 279-283, 649-673).
THEOREM TurnsAreTold == ASSUME MaxInFlight <= 1 PROVE Spec => []TurnsTold
<1>1. OneInv => NoTurnIsDropped
  BY DEF OneInv, ToldInv, Written, NoTurnIsDropped
<1>2. TurnInv => InterruptedIsTheOwners
  BY DEF TurnInv, MarkInv, InterruptedIsTheOwners
<1>3. TurnInv /\ OneInv => TurnsTold
  BY <1>1, <1>2 DEF TurnsTold
<1> QED BY <1>3, TurnInvariance, OneInvariance, PTL
=============================================================================
