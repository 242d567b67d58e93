----------------------------- MODULE InternalJob -----------------------------
(***************************************************************************)
(* A job in the process of the web service: InternalJobMonitor, its        *)
(* JobRunner, and the parts of Engine that start, stop and abort a run     *)
(* (Engine.startFuzzing, Abort, OnTimer).  Three threads meet here:        *)
(*   - a web request, one at a time under the monitor's lock;              *)
(*   - the runner's thread: it parses the pit, makes the engine and fuzzes;*)
(*   - the duration timer, whose second tick aborts the run.               *)
(* The loop itself is FuzzEngine, the storage AsyncDbCache; here the loop  *)
(* is a choice of how an iteration goes on, and the storage always answers.*)
(*                                                                         *)
(* Thread.Abort marks the thread; the abort strikes as soon as the thread  *)
(* is in no catch or finally block, be it waiting or not.                  *)
(***************************************************************************)
EXTENDS Naturals

CONSTANTS
  MaxStarts,  \* bound: jobs started
  MaxCalls    \* bound: calls of the monitor, starts included

ASSUME JobAssumption == MaxStarts \in Nat /\ MaxCalls \in Nat

VARIABLES
  runner,            \* InternalJobMonitor: _runner is not null
  request,           \* the call of the monitor that holds its lock
  at,                \* where that call, and the timer's callback, are
  starts, calls,     \* so far, for the bounds
  \* JobRunner and Engine
  thread,            \* where the runner's thread is
  ready, engineMade, \* evtReady is set; _engine is not null
  shouldStop, gate,  \* _shouldStop; is _pausedEvt "open" or "closed"?
  continueFuzzing,   \* RunContext._continueFuzzing
  canAbort, hasAborted, \* who holds _canAbortSync, _hasAbortedSync
  aborting, direct,  \* an abort is requested; not through the engine
  outcome,           \* what has ended the run: "ok", "error", "killed"
  ticks,             \* _timerCount
  config, armed,     \* _context.config is not null; _timer is set
  \* JobLogger and the databases
  cache,             \* the background task: "none", "open", "over"
  status,            \* AsyncDbCache._status
  row,               \* the job's row: its status, or "none"
  \* history
  tested, finished,  \* TestStarting, TestFinished were raised
  refused            \* the row was deleted before the thread used it

monitorVars == <<runner, request, at, starts, calls>>
setupVars == <<ready, engineMade, config, armed>>
runVars == <<setupVars, outcome>>
stopVars == <<shouldStop, gate, continueFuzzing>>
abortVars == <<canAbort, hasAborted, aborting, direct>>
logVars == <<cache, status, row>>
history == <<tested, finished, refused>>
vars == <<monitorVars, thread, runVars, stopVars, abortVars, ticks, logVars,
          history>>

Callers == {"web", "timer"}

\* A run that has ended.
Over == thread \in {"none", "notifying"}

\* Positions in a catch or finally block.
Protected == {"leaving", "ending", "finalizing", "failing", "restoring",
              "clearing", "none"}

Init ==
  /\ runner = FALSE /\ request = "none" /\ at = [c \in Callers |-> "idle"]
  /\ starts = 0 /\ calls = 0
  /\ thread = "none"
  /\ ready = FALSE /\ engineMade = FALSE /\ outcome = "ok"
  /\ config = FALSE /\ armed = FALSE
  /\ shouldStop = FALSE /\ gate = "open" /\ continueFuzzing = TRUE
  /\ canAbort = "nobody" /\ hasAborted = "nobody"
  /\ aborting = FALSE /\ direct = FALSE
  /\ ticks = 0
  /\ cache = "none" /\ status = "Running" /\ row = "none"
  /\ tested = FALSE /\ finished = FALSE /\ refused = FALSE

-----------------------------------------------------------------------------
(* The calls of the monitor.                                               *)

Requests == {"Start", "Pause", "Continue", "Stop", "Kill"}

GoTo(c, place) == at' = [at EXCEPT ![c] = place]

\* The call enters the lock and reads IsRunning.
Call(name) ==
  /\ at["web"] = "idle" /\ calls < MaxCalls
  /\ name = "Start" => starts < MaxStarts
  /\ calls' = calls + 1
  /\ IF runner = (name = "Start")
     THEN UNCHANGED <<request, at>>         \* answered at once
     ELSE request' = name /\ GoTo("web", "running")
  /\ UNCHANGED <<runner, starts, thread, runVars, stopVars, abortVars, ticks,
                 logVars, history>>

\* _runner may have become null since; the call throws.
ThrowNull ==
  /\ at["web"] = "running" /\ request # "Start" /\ ~runner
  /\ GoTo("web", "idle")
  /\ UNCHANGED <<runner, request, starts, calls, thread, runVars, stopVars,
                 abortVars, ticks, logVars, history>>

\* Everything of the job is new: row, runner, thread.  (A callback of the last
\* engine's timer that is still under way finds its thread gone.)
StartJob ==
  /\ at["web"] = "running" /\ request = "Start"
  /\ runner' = TRUE /\ thread' = "preparing" /\ starts' = starts + 1
  /\ at' = [web |-> "starting", timer |-> "idle"]
  /\ ready' = FALSE /\ engineMade' = FALSE /\ outcome' = "ok"
  /\ config' = FALSE /\ armed' = FALSE
  /\ shouldStop' = FALSE /\ gate' = "open" /\ continueFuzzing' = TRUE
  /\ canAbort' = "nobody" /\ hasAborted' = "nobody"
  /\ aborting' = FALSE /\ direct' = FALSE
  /\ ticks' = 0
  /\ cache' = "none" /\ status' = "Running" /\ row' = "Starting"
  /\ tested' = FALSE /\ finished' = FALSE /\ refused' = FALSE
  /\ UNCHANGED <<request, calls>>

StartReturns ==
  /\ at["web"] = "starting" /\ ready
  /\ GoTo("web", "idle")
  /\ UNCHANGED <<runner, request, starts, calls, thread, runVars, stopVars,
                 abortVars, ticks, logVars, history>>

\* Mutant: a start that has timed out forgets its runner, too.
StartTimesOut_Forgets ==
  /\ at["web"] = "starting" /\ ~ready
  /\ GoTo("web", "deleting")
  /\ runner' = FALSE
  /\ UNCHANGED <<request, starts, calls, thread, runVars, stopVars, abortVars,
                 ticks, logVars, history>>

\* The thread was not ready within a second.  It runs on.
StartTimesOut ==
  /\ at["web"] = "starting" /\ ~ready
  /\ GoTo("web", "deleting")
  /\ UNCHANGED <<runner, request, starts, calls, thread, runVars, stopVars,
                 abortVars, ticks, logVars, history>>

\* The thread has not yet added an event to its row.
Unannounced == thread \in {"preparing", "announcing"}

\* Start deletes the row and throws.  Events and log lines go before the row,
\* each in a statement of its own: if the thread adds one in between, the row
\* cannot be deleted.
DeleteRow ==
  /\ at["web"] = "deleting"
  /\ \/ row' = "none" /\ refused' = Unannounced
     \/ ~Over /\ UNCHANGED <<row, refused>>
  /\ GoTo("web", "idle")
  /\ UNCHANGED <<runner, request, starts, calls, thread, runVars, stopVars,
                 abortVars, ticks, cache, status, tested, finished>>

SetGate ==
  /\ at["web"] = "running" /\ runner /\ request \in {"Pause", "Continue"}
  /\ gate' = IF request = "Pause" THEN "closed" ELSE "open"
  /\ GoTo("web", "idle")
  /\ UNCHANGED <<runner, request, starts, calls, thread, runVars, shouldStop,
                 continueFuzzing, abortVars, ticks, logVars, history>>

\* JobRunner.Stop, in its three statements.
StopRunner ==
  /\ at["web"] = "running" /\ runner /\ request = "Stop"
  /\ shouldStop' = TRUE
  /\ GoTo("web", "opening")
  /\ UNCHANGED <<runner, request, starts, calls, thread, runVars, gate,
                 continueFuzzing, abortVars, ticks, logVars, history>>

\* Mutant: the gate stays as it is.
OpenGate_Not ==
  /\ at["web"] = "opening"
  /\ GoTo("web", "logging")
  /\ UNCHANGED <<runner, request, starts, calls, thread, runVars, stopVars,
                 abortVars, ticks, logVars, history>>

OpenGate ==
  /\ at["web"] = "opening"
  /\ gate' = "open"
  /\ GoTo("web", "logging")
  /\ UNCHANGED <<runner, request, starts, calls, thread, runVars, shouldStop,
                 continueFuzzing, abortVars, ticks, logVars, history>>

\* The row is read and updated, or just updated: if it was deleted, it stays
\* away.
Show(newStatus) == row' = IF row = "none" THEN row ELSE newStatus

\* The storage answers unless its task has ended (see AsyncDbCache): then the
\* call hangs, and with it the lock.
StopLogger ==
  /\ at["web"] = "logging"
  /\ IF cache = "open" THEN status' = "Stopping" /\ Show("Stopping")
                       ELSE UNCHANGED <<status, row>>
  /\ GoTo("web", IF cache = "over" THEN "hung" ELSE "idle")
  /\ UNCHANGED <<runner, request, starts, calls, thread, runVars, stopVars,
                 abortVars, ticks, cache, history>>

\* JobRunner.Abort, for Kill: through the engine if there is one by now.
AbortRunner ==
  /\ at["web"] = "running" /\ runner /\ request = "Kill"
  /\ GoTo("web", IF engineMade THEN "locking" ELSE "direct")
  /\ UNCHANGED <<runner, request, starts, calls, thread, runVars, stopVars,
                 abortVars, ticks, logVars, history>>

AbortThread ==
  /\ at["web"] = "direct"
  /\ aborting' = TRUE /\ direct' = TRUE
  /\ GoTo("web", "joining")
  /\ UNCHANGED <<runner, request, starts, calls, thread, runVars, stopVars,
                 canAbort, hasAborted, ticks, logVars, history>>

-----------------------------------------------------------------------------
(* Engine.Abort, called by Kill or by the timer.                           *)

LockAbort(c) ==
  /\ at[c] = "locking" /\ canAbort = "nobody"
  /\ canAbort' = c
  /\ GoTo(c, "trying")
  /\ UNCHANGED <<runner, request, starts, calls, thread, runVars, stopVars,
                 hasAborted, aborting, direct, ticks, logVars, history>>

\* Mutant: the lock is waited for.
TryEnter_Waits(c) ==
  /\ at[c] = "trying" /\ hasAborted = "nobody"
  /\ hasAborted' = c /\ GoTo(c, "aborting")
  /\ UNCHANGED <<runner, request, starts, calls, thread, runVars, stopVars,
                 canAbort, aborting, direct, ticks, logVars, history>>

\* The end of the run holds this lock for good; then there is nothing to abort.
TryEnter(c) ==
  /\ at[c] = "trying"
  /\ IF hasAborted = "nobody"
     THEN hasAborted' = c /\ GoTo(c, "aborting")
     ELSE UNCHANGED hasAborted /\ GoTo(c, "joining")
  /\ UNCHANGED <<runner, request, starts, calls, thread, runVars, stopVars,
                 canAbort, aborting, direct, ticks, logVars, history>>

AbortAndExit(c) ==
  /\ at[c] = "aborting"
  /\ aborting' = TRUE
  /\ hasAborted' = "nobody"
  /\ GoTo(c, "joining")
  /\ UNCHANGED <<runner, request, starts, calls, thread, runVars, stopVars,
                 canAbort, direct, ticks, logVars, history>>

Join(c) ==
  /\ at[c] = "joining" /\ thread = "none"
  /\ GoTo(c, "idle")
  /\ canAbort' = IF canAbort = c THEN "nobody" ELSE canAbort
  /\ UNCHANGED <<runner, request, starts, calls, thread, runVars, stopVars,
                 hasAborted, aborting, direct, ticks, logVars, history>>

AbortStep(c) == LockAbort(c) \/ TryEnter(c) \/ AbortAndExit(c) \/ Join(c)

WebStep ==
  \/ ThrowNull \/ StartJob \/ StartReturns \/ StartTimesOut \/ DeleteRow
  \/ SetGate \/ StopRunner \/ OpenGate \/ StopLogger
  \/ AbortRunner \/ AbortThread \/ AbortStep("web")

-----------------------------------------------------------------------------
(* The runner's thread.                                                    *)

\* A step of the thread from one place to another, with all else unchanged but
\* what the action names itself.
Runs(from, to) == thread = from /\ ~(aborting /\ from \notin Protected)
                  /\ thread' = to

\* JobRunner.Run up to evtReady.Set; it may throw before.
Prepare ==
  /\ \/ Runs("preparing", "announcing") /\ ready' = TRUE /\ UNCHANGED outcome
     \/ Runs("preparing", "failing") /\ outcome' = "error" /\ UNCHANGED ready
  /\ UNCHANGED <<monitorVars, engineMade, config, armed, stopVars, abortVars,
                 ticks, logVars, history>>

\* Mutant: an event does not need its row.
HasRow_Always == TRUE

\* The key of its job, which the database asks of a new event.
HasRow == row # "none"

\* The thread loads the configuration of the pit, which may fail, and adds an
\* event that says so.
AnnouncePit ==
  /\ \/ Runs("announcing", "parsing") /\ HasRow /\ UNCHANGED outcome
     \/ Runs("announcing", "failing") /\ outcome' = "error"
  /\ UNCHANGED <<monitorVars, setupVars, stopVars, abortVars, ticks, logVars,
                 history>>

\* The pit is parsed, which may take for ever, or fails.
ParsePit ==
  /\ \/ Runs("parsing", "made") /\ engineMade' = TRUE /\ UNCHANGED outcome
     \/ Runs("parsing", "failing") /\ outcome' = "error"
        /\ UNCHANGED engineMade
  /\ UNCHANGED <<monitorVars, ready, config, armed, stopVars, abortVars, ticks,
                 logVars, history>>

\* startFuzzing sets the context and initialises the loggers.
StartFuzzing ==
  /\ \/ Runs("made", "testing") /\ UNCHANGED outcome
     \/ Runs("made", "finalizing") /\ outcome' = "error"
  /\ config' = TRUE
  /\ UNCHANGED <<monitorVars, ready, engineMade, armed, stopVars, abortVars,
                 ticks, logVars, history>>

\* RunTest up to TestStarting.  It may refuse the configuration; it sets the
\* timer if the job has a duration.
PrepareTest ==
  /\ \/ /\ Runs("testing", "waiting")
        /\ armed' \in BOOLEAN
        /\ UNCHANGED outcome
     \/ /\ Runs("testing", "leaving")
        /\ outcome' = "error"
        /\ UNCHANGED armed
  /\ UNCHANGED <<monitorVars, ready, engineMade, config, stopVars, abortVars,
                 ticks, logVars, history>>

\* Mutant: TestStarting is raised without the lock.
MayStartTest_Always == TRUE

\* Nobody is about to abort the run.
MayStartTest == canAbort = "nobody"

EnterTestStarting ==
  /\ Runs("waiting", "starting")
  /\ MayStartTest
  /\ canAbort' = "engine"
  /\ UNCHANGED <<monitorVars, runVars, stopVars, hasAborted, aborting, direct,
                 ticks, logVars, history>>

\* JobLogger gets the row, or inserts it again if it was deleted, makes its
\* cache, adds an event and writes the row; the lock is released.  Files or
\* databases may fail, before or after the cache was made.
TestStarting ==
  /\ \/ /\ Runs("starting", "top") /\ tested' = TRUE /\ row' = "Running"
        /\ UNCHANGED outcome
     \/ /\ Runs("starting", "leaving") /\ tested' \in BOOLEAN
        /\ row' \in {row, "Starting"} /\ outcome' = "error"
  /\ IF tested' THEN cache' = "open" /\ status' = "Running"
               ELSE UNCHANGED <<cache, status>>
  /\ canAbort' = "nobody"
  /\ UNCHANGED <<monitorVars, setupVars, stopVars, hasAborted, aborting, direct,
                 ticks, finished, refused>>

\* Mutant: the loop does not ask whether the job is paused.
Held_Never == FALSE

\* Who asks for continueFuzzing is held at the gate while it is closed, unless
\* the duration is over.
Held == continueFuzzing /\ gate = "closed"

\* The loop condition: on to an iteration, or out, because of a stop or because
\* all iterations are done (which is tested first).
LoopTop ==
  /\ \/ Runs("top", "last")
     \/ Runs("top", "fuzzing") /\ ~Held /\ continueFuzzing /\ ~shouldStop
  /\ UNCHANGED <<monitorVars, runVars, stopVars, abortVars, ticks, logVars,
                 history>>

\* An iteration ends, or throws an exception that ends the run: an iteration
\* that adds an event of a deleted row is one of those.
Iterate ==
  /\ \/ Runs("fuzzing", "top") /\ UNCHANGED outcome
     \/ Runs("fuzzing", "leaving") /\ outcome' = "error"
  /\ UNCHANGED <<monitorVars, setupVars, stopVars, abortVars,
                 ticks, logVars, history>>

\* startFuzzing asks for continueFuzzing once more, for its log.
AskLast ==
  /\ Runs("last", "leaving") /\ ~Held
  /\ UNCHANGED <<monitorVars, runVars, stopVars, abortVars, ticks, logVars,
                 history>>

\* ShouldStop at the gate: the job is shown as paused, and later as running.
Gates == [top |-> "topGate", last |-> "lastGate"]

PauseAtGate ==
  /\ \E place \in DOMAIN Gates : Runs(place, Gates[place])
  /\ Held
  /\ status' = "Paused" /\ Show("Paused")
  /\ UNCHANGED <<monitorVars, runVars, stopVars, abortVars, ticks, cache,
                 history>>

ContinueFromGate ==
  /\ gate = "open"
  /\ \/ Runs("topGate", IF shouldStop THEN "last" ELSE "fuzzing")
     \/ Runs("lastGate", "leaving")
  /\ status' = "Running" /\ Show("Running")
  /\ UNCHANGED <<monitorVars, runVars, stopVars, abortVars, ticks, cache,
                 history>>

\* Mutant: an abort skips the end of the test.
AfterTest_Skip == IF outcome = "ok" THEN "ending" ELSE "finalizing"

AfterTest == "ending"

\* The inner finally block takes a lock for good: from here on nobody can abort
\* the run.  A pending abort strikes at its end, unless another exception is on
\* its way, and is reset.
LeaveTest ==
  /\ Runs("leaving", AfterTest) /\ hasAborted = "nobody"
  /\ hasAborted' = "engine"
  /\ aborting' = (aborting /\ outcome = "error")
  /\ outcome' = IF outcome = "error" THEN "error" ELSE "ok"
  /\ UNCHANGED <<monitorVars, setupVars, stopVars, canAbort,
                 direct, ticks, logVars, history>>

\* JobLogger's TestFinished: the cache's task ends, and the row is written.  If
\* the cache was never made, the row is inserted again if it was deleted; if it
\* was made, an event of a deleted row cannot be added.
TestFinished ==
  /\ finished' = TRUE /\ status' = "Stopping"
  /\ IF cache = "none"
     THEN row' = "Stopping" /\ UNCHANGED <<cache, outcome>>
     ELSE /\ cache' = "over"
          /\ \E shown \in {"Stopping", "Stopped"} : Show(shown)
          /\ outcome' = IF HasRow THEN outcome ELSE "error"

\* TestFinished comes last.  If the agents cannot be disposed of (or were never
\* made), it is not raised.
EndTest ==
  /\ Runs("ending", "finalizing")
  /\ \/ TestFinished
     \/ outcome' = "error" /\ UNCHANGED <<logVars, finished>>
  /\ UNCHANGED <<monitorVars, setupVars, stopVars, abortVars, ticks, tested,
                 refused>>

\* The outer finally block.  The timer is disposed of, but not waited for.  A
\* pending abort strikes in JobRunner.Run.
Finalize ==
  /\ Runs("finalizing", IF outcome = "ok" /\ ~aborting THEN "restoring"
                                                       ELSE "failing")
  /\ outcome' = IF outcome = "ok" /\ aborting THEN "killed" ELSE outcome
  /\ config' = FALSE /\ armed' = FALSE
  /\ UNCHANGED <<monitorVars, ready, engineMade, stopVars, abortVars, ticks,
                 logVars, history>>

\* JobRunner's handlers: JobFail, and an abort is reset.
JobFail ==
  /\ Runs("failing", "restoring")
  /\ Show("Stopped")
  /\ aborting' = (aborting /\ outcome = "error")
  /\ UNCHANGED <<monitorVars, runVars, stopVars, canAbort, hasAborted, direct,
                 ticks, cache, status, history>>

\* Mutant: the row of a job that did not fail is left as it is.
RestoreLogging_OnlyFailed ==
  /\ Runs("restoring", "clearing")
  /\ UNCHANGED <<monitorVars, runVars, stopVars, abortVars, ticks, logVars,
                 history>>

RestoreLogging ==
  /\ Runs("restoring", "clearing")
  /\ Show("Stopped")
  /\ UNCHANGED <<monitorVars, runVars, stopVars, abortVars, ticks, cache,
                 status, history>>

\* The monitor's finally block, without its lock; then InternalEvent.
ClearRunner ==
  /\ Runs("clearing", "notifying")
  /\ runner' = FALSE
  /\ UNCHANGED <<request, at, starts, calls, runVars, stopVars, abortVars,
                 ticks, logVars, history>>

Notify ==
  /\ Runs("notifying", "none")
  /\ UNCHANGED <<monitorVars, runVars, stopVars, abortVars, ticks, logVars,
                 history>>

\* Mutant: the lock is kept.
Unlock_Not == UNCHANGED canAbort

\* The lock statement around TestStarting is left.
Unlock == canAbort' = IF canAbort = "engine" THEN "nobody" ELSE canAbort

\* Where an abort that strikes leads: to JobRunner's handler, to the clean-up of
\* the loggers, or to the clean-up of the test; the lock of TestStarting is
\* given back.
AbortStrikes ==
  /\ aborting /\ thread \notin Protected
  /\ thread' = CASE Unannounced \/ thread = "parsing" -> "failing"
                 [] thread = "made" -> "finalizing"
                 [] thread = "notifying" -> "none"
                 [] OTHER -> "leaving"
  /\ outcome' = IF thread = "notifying" THEN outcome ELSE "killed"
  /\ Unlock
  /\ UNCHANGED <<monitorVars, setupVars, stopVars, hasAborted,
                 aborting, direct, ticks, logVars, history>>

ThreadStep ==
  \/ Prepare \/ AnnouncePit \/ StartFuzzing \/ PrepareTest
  \/ EnterTestStarting \/ TestStarting
  \/ LoopTop \/ Iterate \/ AskLast \/ PauseAtGate \/ ContinueFromGate
  \/ LeaveTest \/ EndTest \/ Finalize
  \/ JobFail \/ RestoreLogging \/ ClearRunner \/ Notify
  \/ AbortStrikes

-----------------------------------------------------------------------------
(* The timer, from RunTest on, and the heart beat of the cache's task.     *)

\* Mutant: the timer ticks once only.
MoreTicks_Once == ticks < 1

\* What a third tick does, the second has done.
MoreTicks == ticks < 2

Tick ==
  /\ armed /\ at["timer"] = "idle" /\ MoreTicks
  /\ ticks' = ticks + 1
  /\ IF ticks = 0 THEN continueFuzzing' = FALSE /\ UNCHANGED at
                  ELSE GoTo("timer", "reading") /\ UNCHANGED continueFuzzing
  /\ UNCHANGED <<runner, request, starts, calls, thread, runVars, shouldStop,
                 gate, abortVars, logVars, history>>

\* The second tick reads the configuration, for its log; if the run has ended
\* meanwhile, that is null, and the exception ends the process.
ReadConfig ==
  /\ at["timer"] = "reading"
  /\ GoTo("timer", IF config THEN "locking" ELSE "crashed")
  /\ UNCHANGED <<runner, request, starts, calls, thread, runVars, stopVars,
                 abortVars, ticks, logVars, history>>

TimerStep == ReadConfig \/ AbortStep("timer")

HeartBeat ==
  /\ cache = "open"
  /\ Show(status)
  /\ UNCHANGED <<monitorVars, thread, runVars, stopVars, abortVars, ticks,
                 cache, status, history>>

-----------------------------------------------------------------------------
Crashed == at["timer"] = "crashed"

\* Nothing has to happen while no job runs.
Rest == (thread = "none" \/ Crashed) /\ UNCHANGED vars

Next ==
  \/ ~Crashed /\ (\/ \E name \in Requests : Call(name)
                  \/ WebStep \/ ThreadStep \/ ParsePit
                  \/ Tick \/ TimerStep \/ HeartBeat)
  \/ Rest

Spec == Init /\ [][Next]_vars

\* A thread that can run does run, and a Start that waits for it does not wait
\* for ever; a timer that is armed ticks.  Parsing may
\* hang, and nobody has to call.
FairSpec ==
  /\ Spec
  /\ WF_vars(~Crashed /\ WebStep)
  /\ WF_vars(~Crashed /\ ThreadStep)
  /\ WF_vars(~Crashed /\ Tick) /\ WF_vars(~Crashed /\ TimerStep)

-----------------------------------------------------------------------------
(* Properties.                                                             *)

Places == {"idle", "running", "starting", "deleting", "opening", "logging",
           "hung", "direct", "locking", "trying", "aborting", "joining",
           "reading", "crashed"}

Positions == {"none", "preparing", "announcing", "parsing", "made",
              "testing", "waiting", "starting", "top", "fuzzing", "last",
              "topGate", "lastGate", "leaving", "ending", "finalizing",
              "failing", "restoring", "clearing", "notifying"}

MonitorOK ==
  /\ runner \in BOOLEAN /\ request \in Requests \cup {"none"}
  /\ at \in [Callers -> Places]

CountsOK == starts \in 0..MaxStarts /\ calls \in 0..MaxCalls /\ ticks \in 0..2

RunOK ==
  /\ thread \in Positions
  /\ ready \in BOOLEAN /\ engineMade \in BOOLEAN
  /\ config \in BOOLEAN /\ armed \in BOOLEAN
  /\ outcome \in {"ok", "error", "killed"}

StopOK ==
  /\ shouldStop \in BOOLEAN /\ gate \in {"open", "closed"}
  /\ continueFuzzing \in BOOLEAN
  /\ aborting \in BOOLEAN /\ direct \in BOOLEAN

LogOK ==
  /\ cache \in {"none", "open", "over"}
  /\ status \in {"Running", "Paused", "Stopping"}
  /\ row \in {"none", "Starting", "Running", "Paused", "Stopping", "Stopped"}
  /\ tested \in BOOLEAN /\ finished \in BOOLEAN /\ refused \in BOOLEAN

\* Who holds a lock is where the code holds it.  An abort never strikes in the
\* midst of TestStarting (Engine.cs:479), unless the request was made when there
\* was no engine yet (JobRunner.cs:180).
LocksOK ==
  /\ canAbort \in Callers \cup {"nobody", "engine"}
  /\ canAbort = "engine" <=> thread = "starting"
  /\ hasAborted \in Callers \cup {"nobody", "engine"}
  /\ \A c \in Callers : hasAborted = c <=> at[c] = "aborting"
  /\ aborting /\ ~direct => thread # "starting"

\* The types, and the locks.
TypeOK ==
  MonitorOK /\ CountsOK /\ RunOK /\ StopOK /\ LogOK /\ LocksOK

\* There is no run that the monitor does not know of, and could not kill, not
\* even after a start that has timed out (JobMonitor.cs:87,
\* InternalJobMonitor.cs:118); so there is never a second one beside it, either.
RunHasMonitor == Over \/ runner

\* As soon as the monitor says that no job runs, and Kill and Stop answer for
\* that reason, the row of the last job is final: stopped, or deleted.  This
\* holds for the row that a thread inserts again (JobLogger.cs:207, 300) after
\* its start has timed out, too; and a thread whose row was deleted before it
\* added its first event (JobRunner.cs:203, 243) never brings it back.  While
\* the cache of a run that was aborted in TestFinished is still open, its heart
\* beats may overwrite the row.
IdleMeansStopped ==
  /\ (~runner /\ starts > 0 /\ cache # "open") => row \in {"Stopped", "none"}
  /\ refused => row = "none"

\* However a run ends, by itself, by Stop, Kill or its duration, at any moment:
\* if the cache was made it gets TestFinished, unless an exception was thrown.
TestIsFinished == (Over /\ tested /\ ~finished) => outcome = "error"

\* A start that has not begun yet finds no other job, and is within the bound.
StartInv ==
  at["web"] = "running" /\ request = "Start" => ~runner /\ starts < MaxStarts

\* Who is about to abort the run keeps TestStarting away.
AbortInv ==
  \A c \in Callers : at[c] \in {"trying", "aborting"} => canAbort = c

\* The row is final before the runner is forgotten.
RowInv ==
  thread = "clearing" /\ cache # "open" => row \in {"Stopped", "none"}

\* TestStarting comes once, and TestFinished before the run is cleared away.
TestInv ==
  /\ thread \in {"preparing", "announcing", "parsing", "made", "testing",
                "waiting", "starting"}
       => ~tested
  /\ thread \in {"finalizing", "failing", "restoring", "clearing"}
       /\ tested /\ ~finished => outcome = "error"

\* A thread whose start was refused early enough never has an engine.
RefusedInv ==
  refused => thread \in {"preparing", "announcing", "failing", "restoring",
                         "clearing", "notifying", "none"}

\* The inductive invariant.
IInv ==
  /\ TypeOK
  /\ StartInv /\ AbortInv /\ RowInv /\ TestInv /\ RefusedInv
  /\ RunHasMonitor /\ IdleMeansStopped /\ TestIsFinished

\* A job that is paused comes to a halt at the gate, or ends.
PauseHolds ==
  (gate = "closed" /\ thread \in {"top", "fuzzing", "last"})
    ~> \/ gate = "open" \/ Crashed
       \/ thread \notin {"top", "fuzzing", "last"}

\* Stop ends the job, even one that is paused, unless it is paused again or its
\* pit is still being parsed.  A run with a duration ends once it is over, even
\* a paused one.
EndsWhenTold ==
  /\ (shouldStop /\ request = "Stop")
       ~> (Over \/ Crashed \/ thread = "parsing" \/ request = "Pause")
  /\ (ticks > 0) ~> (Over \/ Crashed)

\* Kill comes back (JobMonitorTests.cs:286): whatever the thread does or waits
\* for, and whether or not the timer aborts the run as well.
KillReturns ==
  (request = "Kill" /\ at["web"] # "idle") ~> (at["web"] = "idle" \/ Crashed)

=============================================================================
