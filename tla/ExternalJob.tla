----------------------------- MODULE ExternalJob -----------------------------
(***************************************************************************)
(* A job in a process of its own: ExternalJobMonitor starts PeachWorker,   *)
(* sends it commands and waits for it to exit.  A worker that dies is      *)
(* started again, and goes on behind the iteration count of the job's row. *)
(*                                                                         *)
(* Three parties: a web request and the monitor's task, which share the    *)
(* lock of the monitor, and the worker with its two threads, Worker.Loop   *)
(* and the engine.  The engine is the walk over the test cases of a range; *)
(* FuzzEngine has it in full, AsyncDbCache how the row is written.         *)
(*                                                                         *)
(* Starting the process, its error log and the end of the logger's cache   *)
(* are assumed to succeed.                                                 *)
(***************************************************************************)
EXTENDS Naturals

CONSTANTS
  RangeStop,  \* the last test case of the job
  MaxCrashes, \* bound: workers that die, or do not get ready
  MaxStarts,  \* bound: jobs started
  MaxCalls    \* bound: calls of the monitor, starts included

ASSUME ExternalAssumption ==
  RangeStop \in Nat \ {0} /\ {MaxCrashes, MaxStarts, MaxCalls} \subseteq Nat

VARIABLES
  \* ExternalJobMonitor
  running,           \* _process is not null
  holder,            \* who holds its lock: "nobody", "web", "task"
  at,                \* where the web request is
  task,              \* where MonitorTask is
  pendingKill,       \* _pendingKill
  \* the worker's process, with its pipes
  alive, exitCode,   \* it has not exited; its exit code
  command, answers,  \* a line it has not read; lines nobody has read
  loop, engine,      \* where its two threads are
  shouldStop, gate,  \* JobRunner: _shouldStop; _pausedEvt, "open" or "closed"
  next, counted,     \* the next test case; Job.IterationCount
  \* the row of the job
  status, count,     \* its status and its iteration count
  rangeStart,        \* as requested
  \* bounds and history
  starts, calls, crashes,
  done,              \* the test cases of this job that were run
  abandoned          \* a worker has left before its engine

monitorVars == <<running, holder, at, task, pendingKill>>
pipeVars == <<command, answers>>
gateVars == <<shouldStop, gate>>
engineVars == <<engine, next, counted, done>>
workerVars == <<alive, exitCode, loop, gateVars, engineVars, abandoned>>
rowVars == <<status, count>>
bounds == <<starts, calls, crashes>>
vars == <<monitorVars, pipeVars, workerVars, rowVars, rangeStart, bounds>>

EngineIsOver == engine \in {"ended", "thrown"}

Init ==
  /\ running = FALSE /\ holder = "nobody" /\ at = "idle" /\ task = "none"
  /\ pendingKill = FALSE
  /\ alive = FALSE /\ exitCode = "ok" /\ command = "none" /\ answers = 0
  /\ loop = "gone" /\ engine = "none"
  /\ shouldStop = FALSE /\ gate = "open"
  /\ next = 1 /\ counted = 0
  /\ status = "none" /\ count = 0 /\ rangeStart = 0
  /\ starts = 0 /\ calls = 0 /\ crashes = 0
  /\ done = {} /\ abandoned = FALSE

-----------------------------------------------------------------------------
(* The process.                                                            *)

\* Mutant: nobody waits for the exit of the process.
Watch_Once == task' = IF task = "none" THEN "waiting" ELSE "none"

\* OnStart starts a MonitorTask for each process.
Watch == task' = "waiting"

\* OnStart, up to the prompt, which is waited for under the lock.
StartProcess ==
  /\ running' = TRUE /\ alive' = TRUE
  /\ loop' = "starting" /\ engine' = "none"
  /\ shouldStop' = FALSE /\ gate' = "open"
  /\ command' = "none" /\ answers' = 0
  /\ Watch

\* The process and all its threads are gone.  What it wrote can still be read.
Exit(code) ==
  /\ alive' = FALSE /\ exitCode' = code
  /\ loop' = "gone" /\ engine' = "none"
  /\ command' = "none"

-----------------------------------------------------------------------------
(* The calls of the monitor.                                               *)

Commands == {"Pause", "Continue", "Stop"}

\* A process that has exited counts until its task has seen it.
IsRunning == running

Answered ==
  calls' = calls + 1 /\ UNCHANGED <<holder, at>>

Enter(place) ==
  /\ at = "idle" /\ calls < MaxCalls
  /\ holder = "nobody" /\ holder' = "web" /\ at' = place /\ calls' = calls + 1

Leave == at' = "idle" /\ holder' = "nobody"

\* Start returns null for a job that runs, and inserts the row of a new one.
Start ==
  /\ starts < MaxStarts
  /\ ~IsRunning
  /\ Enter("prompting")
  /\ StartProcess
  /\ starts' = starts + 1
  /\ rangeStart' \in {0, 1}
  /\ status' = "Starting" /\ count' = 0
  /\ next' = 1 /\ counted' = 0 /\ done' = {} /\ abandoned' = FALSE
  /\ UNCHANGED <<pendingKill, exitCode, crashes>>

\* Mutant: the end of the output is not an answer.
HasAnswer_Line == answers > 0

HasAnswer == answers > 0 \/ ~alive

\* Start comes back with the prompt, or with nothing if the worker has exited.
StartReturns ==
  /\ at = "prompting"
  /\ HasAnswer
  /\ answers' = 0
  /\ Leave
  /\ UNCHANGED <<running, task, pendingKill, command, workerVars, rowVars,
                 rangeStart, bounds>>

\* SendCommand.  To a worker that has exited nothing can be written.
SendCommand(cmd) ==
  /\ IsRunning
  /\ IF alive THEN Enter("reading") /\ command' = cmd
              ELSE /\ at = "idle" /\ calls < MaxCalls /\ holder = "nobody"
                   /\ Answered
                   /\ UNCHANGED command
  /\ UNCHANGED <<running, task, pendingKill, answers, workerVars, rowVars,
                 rangeStart, starts, crashes>>

ReadAnswer ==
  /\ at = "reading"
  /\ HasAnswer
  /\ answers' = 0
  /\ Leave
  /\ UNCHANGED <<running, task, pendingKill, command, workerVars, rowVars,
                 rangeStart, bounds>>

Kill ==
  /\ IsRunning
  /\ Enter("killing")
  /\ pendingKill' = TRUE
  /\ UNCHANGED <<running, task, pipeVars, workerVars, rowVars, rangeStart,
                 starts, crashes>>

\* The process may have exited already; Kill says true all the same.
KillProcess ==
  /\ at = "killing"
  /\ IF alive THEN Exit("error")
              ELSE UNCHANGED <<alive, exitCode, loop, engine, command>>
  /\ Leave
  /\ UNCHANGED <<running, task, pendingKill, answers, gateVars, next, counted,
                 done, abandoned, rowVars, rangeStart, bounds>>

WebStep == StartReturns \/ ReadAnswer \/ KillProcess

-----------------------------------------------------------------------------
(* MonitorTask.                                                            *)

WaitForExit ==
  /\ task = "waiting" /\ ~alive
  /\ task' = "exited"
  /\ UNCHANGED <<running, holder, at, pendingKill, pipeVars, workerVars,
                 rowVars, rangeStart, bounds>>

\* Mutant: a kill is a crash like any other.
Final_Ok == exitCode = "ok"

\* The job is over: the worker has come to its end, or was killed.  Exit code 2,
\* for a command line that is wrong, does not occur: the monitor builds it.
Final == exitCode = "ok" \/ pendingKill

\* Mutant: the row of a killed job is left to the worker.
AfterKill_Finish == "finishing"

AfterKill == "failing"

JudgeExit ==
  /\ task = "exited"
  /\ task' = CASE ~Final -> "sleeping"
               [] Final /\ exitCode # "ok" -> AfterKill
               [] OTHER -> "finishing"
  /\ UNCHANGED <<running, holder, at, pendingKill, pipeVars, workerVars,
                 rowVars, rangeStart, bounds>>

\* JobHelper.Fail
FailJob ==
  /\ task = "failing"
  /\ status' = "Stopped"
  /\ task' = "finishing"
  /\ UNCHANGED <<running, holder, at, pendingKill, pipeVars, workerVars, count,
                 rangeStart, bounds>>

FinishJob ==
  /\ task = "finishing" /\ holder = "nobody"
  /\ running' = FALSE /\ pendingKill' = FALSE
  /\ task' = "none"
  /\ UNCHANGED <<holder, at, pipeVars, workerVars, rowVars, rangeStart, bounds>>

\* After a second the worker is started again.  This task keeps the lock until
\* the prompt comes; a new one waits for the new process.
Restart ==
  /\ task = "sleeping" /\ holder = "nobody"
  /\ holder' = "task"
  /\ StartProcess
  /\ UNCHANGED <<at, pendingKill, exitCode, next, counted, done, abandoned,
                 rowVars, rangeStart, bounds>>

RestartReturns ==
  /\ holder = "task"
  /\ HasAnswer
  /\ answers' = 0
  /\ holder' = "nobody"
  /\ UNCHANGED <<running, at, task, pendingKill, command, workerVars, rowVars,
                 rangeStart, bounds>>

TaskStep ==
  WaitForExit \/ JudgeExit \/ FailJob \/ FinishJob \/ Restart \/ RestartReturns

-----------------------------------------------------------------------------
(* The worker: Worker.RunJob and Loop.                                     *)

\* Mutant: the row counts from zero.
Resume_Behind(n) == rangeStart + n + 1

\* JobRunner: where a job goes on that has counted n iterations.
Resume(n) == IF rangeStart + n = 0 THEN 1 ELSE rangeStart + n

\* The row is read, the runner made and its task started; the prompt is shown.
WorkerStarts ==
  /\ loop = "starting"
  /\ loop' = "ready" /\ engine' = "loading"
  /\ next' = Resume(count) /\ counted' = count
  /\ answers' = answers + 1
  /\ UNCHANGED <<monitorVars, command, alive, exitCode, gateVars, done,
                 abandoned, rowVars, rangeStart, bounds>>

\* The engine's end is seen before a command; an exception it threw is thrown.
LoopEnds ==
  /\ loop = "ready" /\ EngineIsOver
  /\ Exit(IF engine = "thrown" THEN "error" ELSE "ok")
  /\ UNCHANGED <<monitorVars, answers, gateVars, next, counted, done,
                 abandoned, rowVars, rangeStart, bounds>>

TakeCommand ==
  /\ loop = "ready" /\ command # "none" /\ ~EngineIsOver
  /\ command' = "none" /\ answers' = answers + 1
  /\ loop' = IF command = "Stop" THEN "stopping" ELSE loop
  /\ gate' = CASE command = "Pause" -> "closed"
               [] command = "Continue" -> "open"
               [] OTHER -> gate
  /\ UNCHANGED <<monitorVars, alive, exitCode, shouldStop, engineVars,
                 abandoned, rowVars, rangeStart, bounds>>

StopRunner ==
  /\ loop = "stopping"
  /\ shouldStop' = TRUE /\ gate' = "open"
  /\ loop' = "logging"
  /\ UNCHANGED <<monitorVars, pipeVars, alive, exitCode, engineVars, abandoned,
                 rowVars, rangeStart, bounds>>

\* The storage shows a copy of the job; if its task has ended the call hangs
\* (see AsyncDbCache), and if it was not made yet there is nothing to do.
StopLogger ==
  /\ loop = "logging"
  /\ loop' = IF EngineIsOver THEN "hung" ELSE "joining"
  /\ IF engine \in {"running", "held"}
     THEN status' = "Stopping" /\ count' = counted
     ELSE UNCHANGED rowVars
  /\ UNCHANGED <<monitorVars, pipeVars, alive, exitCode, gateVars, engineVars,
                 abandoned, rangeStart, bounds>>

\* Mutant: the engine is waited for, however long it takes.
Patience_Endless == EngineIsOver

\* The engine is waited for, for ten seconds.
Patience == TRUE

JoinEngine ==
  /\ loop = "joining"
  /\ Patience
  /\ Exit(IF engine = "thrown" THEN "error" ELSE "ok")
  /\ abandoned' = (abandoned \/ ~EngineIsOver)
  /\ UNCHANGED <<monitorVars, answers, gateVars, next, counted, done, rowVars,
                 rangeStart, bounds>>

LoopStep ==
  WorkerStarts \/ LoopEnds \/ TakeCommand \/ StopRunner \/ StopLogger
  \/ JoinEngine

-----------------------------------------------------------------------------
(* The worker: JobRunner and the engine.  RestoreLogging writes "Stopped"  *)
(* at every end that the process lives to see.                             *)

\* A job that cannot be loaded ends, with an exception that the runner handles
\* or one that it throws again.
Load ==
  /\ engine = "loading"
  /\ \/ engine' = "running" /\ status' = "Running"
     \/ engine' \in {"ended", "thrown"} /\ status' = "Stopped"
  /\ UNCHANGED <<monitorVars, pipeVars, alive, exitCode, loop, gateVars, next,
                 counted, done, abandoned, count, rangeStart, bounds>>

IsHeld == gate = "closed"

\* One test case; what its control iterations and searches do is not counted.
Iterate ==
  /\ engine = "running" /\ ~IsHeld /\ ~shouldStop /\ next <= RangeStop
  /\ done' = done \cup {next}
  /\ next' = next + 1 /\ counted' = counted + 1
  /\ UNCHANGED <<monitorVars, pipeVars, alive, exitCode, loop, gateVars, engine,
                 abandoned, rowVars, rangeStart, bounds>>

\* The storage's task writes a copy of the job; later ones may still be queued.
StoreRow ==
  /\ engine \in {"running", "held"}
  /\ count' \in (count + 1)..counted
  /\ UNCHANGED <<monitorVars, pipeVars, workerVars, status, rangeStart, bounds>>

Hold ==
  /\ \/ engine = "running" /\ IsHeld /\ engine' = "held" /\ status' = "Paused"
     \/ engine = "held" /\ ~IsHeld /\ engine' = "running" /\ status' = "Running"
  /\ count' = counted
  /\ UNCHANGED <<monitorVars, pipeVars, alive, exitCode, loop, gateVars, next,
                 counted, done, abandoned, rangeStart, bounds>>

\* The range is done, or a stop; or an exception ends the run, and the storage
\* may have failed.
End ==
  /\ engine = "running"
  /\ \/ /\ ~IsHeld
        /\ shouldStop \/ next > RangeStop
        /\ engine' = "ended" /\ count' = counted
     \/ engine' \in {"ended", "thrown"} /\ count' \in {count, counted}
  /\ status' = "Stopped"
  /\ UNCHANGED <<monitorVars, pipeVars, alive, exitCode, loop, gateVars, next,
                 counted, done, abandoned, rangeStart, bounds>>

EngineStep == Load \/ Iterate \/ StoreRow \/ Hold \/ End

\* The worker dies, from the target's deeds or its own, or does not get ready
\* in time.
Crash ==
  /\ alive /\ crashes < MaxCrashes
  /\ crashes' = crashes + 1
  /\ Exit("error")
  /\ UNCHANGED <<monitorVars, answers, gateVars, next, counted, done,
                 abandoned, rowVars, rangeStart, starts, calls>>

-----------------------------------------------------------------------------
Next ==
  \/ Start \/ (\E cmd \in Commands : SendCommand(cmd)) \/ Kill
  \/ WebStep \/ TaskStep \/ LoopStep \/ EngineStep \/ Crash

Spec == Init /\ [][Next]_vars

\* The threads of both processes run, but an iteration of the engine may hang.
\* The lock is free in the end, as calls are few.
FairSpec ==
  /\ Spec
  /\ WF_vars(WebStep) /\ WF_vars(TaskStep) /\ WF_vars(LoopStep)

-----------------------------------------------------------------------------
(* Properties.                                                             *)

\* The lock of the monitor is held just by who acts under it; a worker that
\* lives is watched, and by one task: the one that will see it exit.
MonitorOK ==
  /\ running \in BOOLEAN /\ pendingKill \in BOOLEAN
  /\ holder \in {"nobody", "web", "task"}
  /\ at \in {"idle", "prompting", "reading", "killing"}
  /\ holder = "web" <=> at # "idle"
  /\ task \in {"none", "waiting", "exited", "sleeping", "failing", "finishing"}
  /\ running <=> task # "none"
  /\ alive => task = "waiting"

WorkerOK ==
  /\ alive \in BOOLEAN /\ exitCode \in {"ok", "error"}
  /\ command \in Commands \cup {"none"} /\ answers \in 0..1
  /\ loop \in {"gone", "starting", "ready", "stopping", "logging", "hung",
               "joining"}
  /\ alive <=> loop # "gone"
  /\ engine \in {"none", "loading", "running", "held", "ended", "thrown"}
  /\ shouldStop \in BOOLEAN /\ gate \in {"open", "closed"}
  /\ abandoned \in BOOLEAN

RowOK ==
  /\ next \in 1..(RangeStop + 2) /\ counted \in 0..(RangeStop + 1)
  /\ status \in {"none", "Starting", "Running", "Paused", "Stopping", "Stopped"}
  /\ count \in 0..(RangeStop + 1) /\ rangeStart \in {0, 1}
  /\ done \subseteq 1..RangeStop

\* The types, with the lock and the threads of the monitor.
TypeOK == MonitorOK /\ WorkerOK /\ RowOK

\* However often the worker dies, and however far the row lags behind, a worker
\* that reads the row goes on at a test case before which all have been run
\* (JobRunner.cs:66-75), and has run all before the one it is at: also the last
\* one of the range, when it is past it.
NothingSkipped ==
  \A c \in 1..RangeStop : c < Resume(count) \/ c < next => c \in done

\* When the monitor says that no job runs, the row of the last one is stopped,
\* be the worker finished or killed at any moment; unless it left its engine
\* behind after ten seconds (Worker.cs:216).
IdleMeansStopped == (~running /\ starts > 0 /\ ~abandoned) => status = "Stopped"

\* One line at most is under way between the monitor and the worker, and only
\* while somebody waits for the answer.
PipeInv ==
  /\ holder = "nobody" \/ at = "killing" => answers = 0
  /\ loop = "starting" => answers = 0 /\ (at = "prompting" \/ holder = "task")
  /\ command # "none" => alive /\ answers = 0 /\ at = "reading"

\* Both threads of a worker start after it and end with it.
ThreadInv == loop \in {"gone", "starting"} <=> engine = "none"

\* Where the count in the row and the counter of the worker stand beside the
\* test cases that were run.  A job of rangeStart 0 that goes on runs its last
\* counted test case again, so that its counter gets ahead.
CountInv ==
  /\ next \in {counted, counted + 1}
  /\ rangeStart = 1 => next = counted + 1
  /\ count <= counted
  /\ \A c \in 1..RangeStop : c < next => c \in done

\* Who has written "Stopped", when the task comes to finish the job.
StatusInv ==
  /\ EngineIsOver => status = "Stopped"
  /\ running /\ ~alive /\ exitCode = "ok" /\ ~abandoned => status = "Stopped"
  /\ task = "finishing" /\ ~abandoned => status = "Stopped"

\* The inductive invariant.
IInv == TypeOK /\ PipeInv /\ ThreadInv /\ CountInv /\ StatusInv
        /\ IdleMeansStopped

\* A kill ends the job, also one that meets a crash, a stop or the worker's own
\* end; but not one in the second before a restart (see KilledIsDead).  A worker
\* that was told to stop exits, even if its engine hangs; unless its storage has
\* just ended (see AsyncDbCache!StopReturns).
EndsWhenTold ==
  /\ (at = "killing" /\ task # "sleeping") ~> ~running
  /\ (loop = "stopping") ~> (~alive \/ loop = "hung")

\* After a kill there is no worker any more (JobMonitorTests.cs:286, TestCrash).
KilledIsDead == (pendingKill /\ at # "killing") => ~alive

\* Every call comes back, whatever becomes of the worker, and whoever has the
\* lock; only a worker that hangs in a stop keeps the next call for ever.
CallsReturn == (at # "idle") ~> (at = "idle" \/ loop = "hung")

=============================================================================
