--------------------------- MODULE ControlChannel ---------------------------
(***************************************************************************)
(* The request/response channel over the pipes of one agent subprocess     *)
(* (backend/internal/agents/claudecode/process.go; pi/process.go and       *)
(* codex/rpc.go hold the same algorithm).                                  *)
(*                                                                         *)
(* A caller registers a waiter, writes its request and waits for the       *)
(* answer, its context or its timer.  One goroutine, the read loop, hands  *)
(* answers over and, once the process is gone, fails whoever still waits.  *)
(* Another goroutine may stop the process at any time.                     *)
(***************************************************************************)
EXTENDS Naturals, FiniteSets

CONSTANTS Calls   \* the control requests made over the life of the process

ASSUME CallsAssumption == IsFiniteSet(Calls)

VARIABLES call,    \* where each caller is
          table,   \* process.pending: the registered waiters
          buffer,  \* what is in each waiter, a channel with one slot
          sent,    \* the requests that reached the subprocess
          child,   \* the subprocess
          stdin,   \* our end of its stdin
          reader,  \* where the read loop is
          answer,  \* the waiters the read loop has yet to send to
          processClosed, \* process.closed
          done,    \* process.done is closed
          stopper  \* where the goroutine inside stop is

channelVars == <<call, table, buffer, sent, child, stdin, reader, answer,
                 processClosed, done, stopper>>

callerVars == <<call, sent>>
readerVars == <<reader, answer, processClosed, done>>
childVars  == <<child, stdin, stopper>>

Answers == {"response", "gone"}

CallStates == {"new", "registered", "checked", "waiting", "withdrawing",
               "answered", "failed"}

ReaderStates == {"reading", "resolving", "wait", "reaped", "closing",
                 "failing", "exiting", "ended"}

StopStates == {"none", "grace", "killed", "stopped"}

ChannelTypeOK ==
    /\ call \in [Calls -> CallStates]
    /\ table \in SUBSET Calls
    /\ buffer \in [Calls -> SUBSET Answers]
    /\ sent \in SUBSET Calls
    /\ child \in {"alive", "dead"}
    /\ stdin \in {"open", "closed"}
    /\ reader \in ReaderStates
    /\ answer \in SUBSET Calls
    /\ processClosed \in BOOLEAN
    /\ done \in BOOLEAN
    /\ stopper \in StopStates

ChannelInit ==
    /\ call = [c \in Calls |-> "new"]
    /\ table = {}
    /\ buffer = [c \in Calls |-> {}]
    /\ sent = {}
    /\ child = "alive"
    /\ stdin = "open"
    /\ reader = "reading"
    /\ answer = {}
    /\ processClosed = FALSE
    /\ done = FALSE
    /\ stopper = "none"

-----------------------------------------------------------------------------
(* control: one action per step between two of its synchronisations.       *)

Register(c) ==
    /\ call[c] = "new"
    /\ call' = [call EXCEPT ![c] = "registered"]
    /\ table' = table \union {c}
    /\ UNCHANGED <<buffer, sent, readerVars, childVars>>

\* writeJSON looks at the closed flag first ...
CheckClosed(c) ==
    /\ call[c] = "registered"
    /\ call' = [call EXCEPT ![c] = IF processClosed THEN "withdrawing" ELSE "checked"]
    /\ UNCHANGED <<table, buffer, sent, readerVars, childVars>>

\* ... and writes after.  The write fails once our end of the pipe is closed and
\* may fail once the subprocess is dead (a descendant can hold the other end).
Write(c) ==
    /\ call[c] = "checked"
    /\ \/ /\ stdin = "open"
          /\ call' = [call EXCEPT ![c] = "waiting"]
          /\ sent' = sent \union {c}
       \/ /\ stdin = "closed" \/ child = "dead"
          /\ call' = [call EXCEPT ![c] = "withdrawing"]
          /\ UNCHANGED sent
    /\ UNCHANGED <<table, buffer, readerVars, childVars>>

\* The three branches of the select.  A select with several ready branches
\* takes any of them.
TakeAnswer(c) ==
    /\ call[c] = "waiting"
    /\ \E a \in buffer[c] :
          /\ call' = [call EXCEPT ![c] = IF a = "response" THEN "answered" ELSE "failed"]
          /\ buffer' = [buffer EXCEPT ![c] = @ \ {a}]
    /\ UNCHANGED <<table, sent, readerVars, childVars>>

\* The context branch returns at once: the waiter stays in the table.
ContextDone(c) ==
    /\ call[c] = "waiting"
    /\ call' = [call EXCEPT ![c] = "failed"]
    /\ UNCHANGED <<table, buffer, sent, readerVars, childVars>>

TimerFires(c) ==
    /\ call[c] = "waiting"
    /\ call' = [call EXCEPT ![c] = "withdrawing"]
    /\ UNCHANGED <<table, buffer, sent, readerVars, childVars>>

\* A failed write or a timeout takes the waiter out of the table.
Withdraw(c) ==
    /\ call[c] = "withdrawing"
    /\ call' = [call EXCEPT ![c] = "failed"]
    /\ table' = table \ {c}
    /\ UNCHANGED <<buffer, sent, readerVars, childVars>>

-----------------------------------------------------------------------------
(* readLoop.                                                               *)

\* Mistake: the waiter stays in the table, so a second answer finds it again.
ResolveKeeps(c) ==
    /\ reader = "reading"
    /\ c \in sent
    /\ c \in table
    /\ answer' = {c}
    /\ reader' = "resolving"
    /\ UNCHANGED <<table, buffer, callerVars, processClosed, done, childVars>>

\* resolve: the line answers c.  The waiter leaves the table under the lock and
\* is sent to after it; an answer nobody waits for is dropped.  The subprocess
\* may answer late, and twice.
Resolve(c) ==
    /\ reader = "reading"
    /\ c \in sent
    /\ c \in table
    /\ table' = table \ {c}
    /\ answer' = {c}
    /\ reader' = "resolving"
    /\ UNCHANGED <<buffer, callerVars, processClosed, done, childVars>>

\* Mistake: the waiter is handed the id of the request.
SendAnswerId(c) ==
    /\ reader = "resolving" /\ c \in answer
    /\ buffer[c] = {}
    /\ buffer' = [buffer EXCEPT ![c] = {c}]
    /\ answer' = {}
    /\ reader' = "reading"
    /\ UNCHANGED <<table, callerVars, processClosed, done, childVars>>

\* The send at the end of resolve waits for the waiter's one slot.
SendAnswer(c) ==
    /\ reader = "resolving" /\ c \in answer
    /\ buffer[c] = {}
    /\ buffer' = [buffer EXCEPT ![c] = {"response"}]
    /\ answer' = {}
    /\ reader' = "reading"
    /\ UNCHANGED <<table, callerVars, processClosed, done, childVars>>

\* The scanner stops: the stream ended, or a line was longer than maxLineBytes,
\* in which case the subprocess may still be there.
ScanEnds ==
    /\ reader = "reading"
    /\ reader' = "wait"
    /\ UNCHANGED <<table, buffer, callerVars, answer, processClosed, done, childVars>>

\* cmd.Wait returns once the subprocess exited, and closes our end of its stdin.
WaitReturns ==
    /\ reader = "wait" /\ child = "dead"
    /\ reader' = "reaped"
    /\ stdin' = "closed"
    /\ UNCHANGED <<table, buffer, callerVars, answer, processClosed, done, child, stopper>>

SetClosed ==
    /\ reader = "reaped"
    /\ processClosed' = TRUE
    /\ reader' = "closing"
    /\ UNCHANGED <<table, buffer, callerVars, answer, done, childVars>>

CloseDone ==
    /\ reader = "closing"
    /\ done' = TRUE
    /\ reader' = "failing"
    /\ UNCHANGED <<table, buffer, callerVars, answer, processClosed, childVars>>

\* Mistake: the table is emptied and nobody in it is told.
FailPendingForgets ==
    /\ reader = "failing"
    /\ table' = {}
    /\ reader' = "exiting"
    /\ UNCHANGED <<buffer, callerVars, answer, processClosed, done, childVars>>

\* failPending hands every registered waiter the reason, with the table locked:
\* it gets through only if each of them still has its slot free.
FailPending ==
    /\ reader = "failing"
    /\ \A c \in table : buffer[c] = {}
    /\ buffer' = [c \in Calls |-> IF c \in table THEN {"gone"} ELSE buffer[c]]
    /\ table' = {}
    /\ reader' = "exiting"
    /\ UNCHANGED <<callerVars, answer, processClosed, done, childVars>>

\* The handler the owner gave for the process's end is called.
OnExit ==
    /\ reader = "exiting"
    /\ reader' = "ended"
    /\ UNCHANGED <<table, buffer, callerVars, answer, processClosed, done, childVars>>

-----------------------------------------------------------------------------
(* The subprocess, and stop.                                               *)

ChildExits ==
    /\ child = "alive"
    /\ child' = "dead"
    /\ UNCHANGED <<table, buffer, callerVars, readerVars, stdin, stopper>>

Stop ==
    /\ stopper = "none"
    /\ stdin' = "closed"
    /\ stopper' = "grace"
    /\ UNCHANGED <<table, buffer, callerVars, readerVars, child>>

\* Mistake: the end of the grace period kills nothing.
KillMisses ==
    /\ stopper = "grace"
    /\ stopper' = "killed"
    /\ UNCHANGED <<table, buffer, callerVars, readerVars, child, stdin>>

\* The grace period ends first: the subprocess is killed.
Kill ==
    /\ stopper = "grace"
    /\ child' = "dead"
    /\ stopper' = "killed"
    /\ UNCHANGED <<table, buffer, callerVars, readerVars, stdin>>

\* Mistake: after a kill the read loop is not waited for.
StopReturnsEarly ==
    /\ stopper = "killed" \/ done
    /\ stopper \in {"grace", "killed"}
    /\ stopper' = "stopped"
    /\ UNCHANGED <<table, buffer, callerVars, readerVars, child, stdin>>

StopReturns ==
    /\ stopper \in {"grace", "killed"}
    /\ done
    /\ stopper' = "stopped"
    /\ UNCHANGED <<table, buffer, callerVars, readerVars, child, stdin>>

-----------------------------------------------------------------------------

Control(c) == \/ Register(c) \/ CheckClosed(c) \/ Write(c) \/ TakeAnswer(c)
              \/ ContextDone(c) \/ TimerFires(c) \/ Withdraw(c)

ReadLoop == \/ \E c \in Calls : Resolve(c) \/ SendAnswer(c)
            \/ ScanEnds \/ WaitReturns \/ SetClosed \/ CloseDone
            \/ FailPending \/ OnExit

\* What the read loop does by itself once the stream is over.
ReaderWork == \/ \E c \in Calls : SendAnswer(c)
              \/ WaitReturns \/ SetClosed \/ CloseDone \/ FailPending \/ OnExit

StopWork == Kill \/ StopReturns

ChannelNext == \/ \E c \in Calls : Control(c)
               \/ ReadLoop
               \/ ChildExits \/ Stop \/ StopWork

ChannelSpec == ChannelInit /\ [][ChannelNext]_channelVars

(* Goroutines keep running, and the scanner sees the end of a stream whose
   writer is dead.  Nothing makes the subprocess answer or exit, no context has
   to end, and the timers are left out: a caller has to be woken without them. *)
FairChannel ==
    /\ ChannelSpec
    /\ \A c \in Calls : WF_channelVars(CheckClosed(c) \/ Write(c) \/ TakeAnswer(c) \/ Withdraw(c))
    /\ WF_channelVars(ReaderWork)
    /\ WF_channelVars(child = "dead" /\ ScanEnds)
    /\ WF_channelVars(StopWork)

-----------------------------------------------------------------------------
(* Properties.                                                             *)

\* The read loop never blocks on a waiter: whenever it sends to one, or holds
\* the table's lock to send to all, their slots are free -- late and repeated
\* answers included.  Were it to block, the session would never hear of the
\* process's end (process.go, resolve and failPending).
ReaderNeverBlocks ==
    /\ \A c \in answer : buffer[c] = {}
    /\ reader = "failing" => \A c \in table : buffer[c] = {}

\* Once failPending has run nobody waits in vain: a caller still in its select
\* has an answer in its slot, also one that registered, or passed the check of
\* the closed flag, while the process was ending.
NobodyLeftWaiting ==
    reader \in {"exiting", "ended"} =>
        \A c \in Calls : call[c] = "waiting" => buffer[c] # {}

\* stop returns only when the subprocess is gone, which is what lets the owner
\* start the next one over the same conversation.
StoppedMeansDead == stopper = "stopped" => child = "dead" /\ processClosed

\* "It ends when stdout closes, and then reaps the child and unblocks everyone
\* waiting" (process.go:120-121): a caller whose subprocess died is woken, with
\* no help from its timer.
DeadProcessWakesCallers ==
    \A c \in Calls : (call[c] = "waiting" /\ child = "dead") ~> call[c] # "waiting"

\* stop always returns, even on a subprocess that ignores the end of its input
\* and even after the scanner gave up on it.
StopAlwaysReturns == stopper = "grace" ~> stopper = "stopped"

=============================================================================
