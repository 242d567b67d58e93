------------------------- MODULE InternalJob_proofs -------------------------
(***************************************************************************)
(* The invariants of InternalJob hold for all values of its constants: for *)
(* every number of jobs, of calls and of test cases. IInv is inductive.    *)
(* Beside the properties it says how far a Start may have come when the    *)
(* thread of its job is already running (StartInv), who holds or waits for *)
(* the lock of the engine and what an abort does there (AbortInv), who has *)
(* written the job's row last (RowInv), whether TestFinished is still to   *)
(* come (TestInv), and how far a thread comes whose row was deleted before *)
(* its first event (RefusedInv). One lemma for every action shows that it  *)
(* keeps IInv.                                                             *)
(***************************************************************************)
EXTENDS InternalJob, TLAPS

-----------------------------------------------------------------------------
\* No job yet.
LEMMA InitIInv ==
  ASSUME Init
  PROVE  IInv
<1>1. CountsOK
  BY JobAssumption DEF Init, CountsOK
<1>2. MonitorOK /\ StartInv
  BY DEF Init, monitorVars, setupVars, runVars, stopVars, abortVars, logVars,
    history, IInv, TypeOK, MonitorOK, CountsOK, Callers, Places, Requests,
    StartInv
<1>3. RunOK /\ StopOK
  BY DEF Init, monitorVars, setupVars, runVars, stopVars, abortVars, logVars,
    history, IInv, TypeOK, RunOK, Positions, StopOK
<1>4. LocksOK /\ AbortInv
  BY DEF Init, LocksOK, AbortInv, Callers
<1>5. /\ LogOK /\ RowInv /\ IdleMeansStopped /\ RunHasMonitor /\ TestInv
      /\ TestIsFinished /\ RefusedInv
  BY DEF Init, monitorVars, setupVars, runVars, stopVars, abortVars, logVars,
    history, IInv, TypeOK, LogOK, RowInv, RunOK, IdleMeansStopped,
    RunHasMonitor, Over, StartInv, TestInv, TestIsFinished, RefusedInv, history
<1> QED
  BY <1>1, <1>2, <1>3, <1>4, <1>5 DEF IInv, TypeOK

-----------------------------------------------------------------------------
(* The calls of the monitor.                                               *)

\* The call finds a job or not.
LEMMA CallKeeps ==
  ASSUME IInv, NEW name \in Requests, Call(name)
  PROVE  IInv'
<1>1. MonitorOK' /\ CountsOK' /\ StartInv'
  BY JobAssumption DEF Call, GoTo, IInv, TypeOK, MonitorOK, CountsOK, Places,
    StartInv
<1>2. RunOK' /\ StopOK'
  BY DEF Call, setupVars, runVars, stopVars, abortVars, IInv, TypeOK, RunOK,
    StopOK
<1>3. LocksOK' /\ AbortInv'
  BY DEF Call, GoTo, abortVars, IInv, TypeOK, LocksOK, MonitorOK, AbortInv
<1>4. /\ LogOK' /\ RowInv' /\ IdleMeansStopped' /\ RunHasMonitor' /\ TestInv'
      /\ TestIsFinished' /\ RefusedInv'
  BY DEF Call, runVars, logVars, history, IInv, TypeOK, LogOK, RowInv,
    IdleMeansStopped, RunHasMonitor, Over, TestInv, TestIsFinished, RefusedInv,
    history
<1> QED
  BY <1>1, <1>2, <1>3, <1>4 DEF IInv, TypeOK

\* The call throws.
LEMMA ThrowNullKeeps ==
  ASSUME IInv, ThrowNull
  PROVE  IInv'
<1>1. MonitorOK' /\ CountsOK' /\ StartInv'
  BY DEF ThrowNull, GoTo, IInv, TypeOK, MonitorOK, CountsOK, Callers, Places,
    StartInv
<1>2. RunOK' /\ StopOK'
  BY DEF ThrowNull, setupVars, runVars, stopVars, abortVars, IInv, TypeOK,
    RunOK, StopOK
<1>3. LocksOK' /\ AbortInv'
  BY DEF ThrowNull, GoTo, abortVars, IInv, TypeOK, LocksOK, AbortInv
<1>4. /\ LogOK' /\ RowInv' /\ IdleMeansStopped' /\ RunHasMonitor' /\ TestInv'
      /\ TestIsFinished' /\ RefusedInv'
  BY DEF ThrowNull, runVars, logVars, history, IInv, TypeOK, LogOK, RowInv,
    IdleMeansStopped, RunHasMonitor, Over, TestInv, TestIsFinished, RefusedInv,
    history
<1> QED
  BY <1>1, <1>2, <1>3, <1>4 DEF IInv, TypeOK

\* Everything is new.
LEMMA StartJobKeeps ==
  ASSUME IInv, StartJob
  PROVE  IInv'
<1>1. MonitorOK' /\ CountsOK' /\ StartInv'
  BY JobAssumption DEF StartJob, IInv, TypeOK, MonitorOK, CountsOK, Callers,
    Places, StartInv
<1>2. RunOK' /\ StopOK'
  BY DEF StartJob, monitorVars, setupVars, runVars, stopVars, abortVars,
    logVars, history, IInv, TypeOK, RunOK, Positions, StopOK
<1>3. LocksOK' /\ AbortInv'
  BY DEF StartJob, LocksOK, AbortInv, Callers
<1>4. /\ LogOK' /\ RowInv' /\ IdleMeansStopped' /\ RunHasMonitor' /\ TestInv'
      /\ TestIsFinished' /\ RefusedInv'
  BY DEF StartJob, monitorVars, setupVars, runVars, stopVars, abortVars,
    logVars, history, IInv, TypeOK, LogOK, RowInv, RunOK, IdleMeansStopped,
    RunHasMonitor, Over, StartInv, TestInv, TestIsFinished, RefusedInv, history
<1> QED
  BY <1>1, <1>2, <1>3, <1>4 DEF IInv, TypeOK

\* The thread is ready.
LEMMA StartReturnsKeeps ==
  ASSUME IInv, StartReturns
  PROVE  IInv'
<1>1. MonitorOK' /\ CountsOK' /\ StartInv'
  BY DEF StartReturns, GoTo, IInv, TypeOK, MonitorOK, CountsOK, Callers,
    Places, StartInv
<1>2. RunOK' /\ StopOK'
  BY DEF StartReturns, setupVars, runVars, stopVars, abortVars, IInv, TypeOK,
    RunOK, StopOK
<1>3. LocksOK' /\ AbortInv'
  BY DEF StartReturns, GoTo, abortVars, IInv, TypeOK, LocksOK, AbortInv
<1>4. /\ LogOK' /\ RowInv' /\ IdleMeansStopped' /\ RunHasMonitor' /\ TestInv'
      /\ TestIsFinished' /\ RefusedInv'
  BY DEF StartReturns, runVars, logVars, history, IInv, TypeOK, LogOK, RowInv,
    IdleMeansStopped, RunHasMonitor, Over, TestInv, TestIsFinished, RefusedInv,
    history
<1> QED
  BY <1>1, <1>2, <1>3, <1>4 DEF IInv, TypeOK

\* The row is still there.
LEMMA StartTimesOutKeeps ==
  ASSUME IInv, StartTimesOut
  PROVE  IInv'
<1>1. MonitorOK' /\ CountsOK' /\ StartInv'
  BY DEF StartTimesOut, GoTo, IInv, TypeOK, MonitorOK, CountsOK, Callers,
    Places, StartInv
<1>2. RunOK' /\ StopOK'
  BY DEF StartTimesOut, setupVars, runVars, stopVars, abortVars, IInv, TypeOK,
    RunOK, StopOK
<1>3. LocksOK' /\ AbortInv'
  BY DEF StartTimesOut, GoTo, abortVars, IInv, TypeOK, LocksOK, AbortInv
<1>4. /\ LogOK' /\ RowInv' /\ IdleMeansStopped' /\ RunHasMonitor' /\ TestInv'
      /\ TestIsFinished' /\ RefusedInv'
  BY DEF StartTimesOut, runVars, logVars, history, IInv, TypeOK, LogOK, RowInv,
    IdleMeansStopped, RunHasMonitor, Over, TestInv, TestIsFinished, RefusedInv,
    history
<1> QED
  BY <1>1, <1>2, <1>3, <1>4 DEF IInv, TypeOK

\* The row is deleted.
LEMMA DeleteRowKeeps ==
  ASSUME IInv, DeleteRow
  PROVE  IInv'
<1>1. MonitorOK' /\ CountsOK' /\ StartInv'
  BY DEF DeleteRow, GoTo, IInv, TypeOK, MonitorOK, CountsOK, Callers, Places,
    StartInv
<1>2. RunOK' /\ StopOK'
  BY DEF DeleteRow, setupVars, runVars, stopVars, abortVars, IInv, TypeOK,
    RunOK, StopOK
<1>3. LocksOK' /\ AbortInv'
  BY DEF DeleteRow, GoTo, abortVars, IInv, TypeOK, LocksOK, AbortInv
<1>4. RefusedInv'
  <2>1. CASE row' = "none" /\ refused' = Unannounced
    BY <2>1 DEF DeleteRow, Unannounced, RefusedInv
  <2>2. CASE UNCHANGED <<row, refused>>
    BY <2>2 DEF DeleteRow, IInv, RefusedInv
  <2> QED
    BY <2>1, <2>2 DEF DeleteRow
<1>5. refused' \in BOOLEAN
  <2>1. CASE refused' = Unannounced
    BY <2>1 DEF Unannounced
  <2>2. CASE UNCHANGED refused
    BY <2>2 DEF IInv, TypeOK, LogOK
  <2> QED
    BY <2>1, <2>2 DEF DeleteRow
<1>6. LogOK'
  BY <1>5 DEF DeleteRow, IInv, TypeOK, LogOK
<1>7. IdleMeansStopped'
  BY DEF DeleteRow, IInv, IdleMeansStopped
<1>8. RowInv' /\ RunHasMonitor'
  BY DEF DeleteRow, IInv, RowInv, RunHasMonitor, Over
<1>9. TestInv' /\ TestIsFinished'
  BY DEF DeleteRow, runVars, IInv, TestInv, TestIsFinished, Over
<1> QED
  BY <1>1, <1>2, <1>3, <1>4, <1>6, <1>7, <1>8, <1>9 DEF IInv, TypeOK

\* The gate is set.
LEMMA SetGateKeeps ==
  ASSUME IInv, SetGate
  PROVE  IInv'
<1>1. MonitorOK' /\ CountsOK' /\ StartInv'
  BY DEF SetGate, GoTo, IInv, TypeOK, MonitorOK, CountsOK, Callers, Places,
    StartInv
<1>2. RunOK' /\ StopOK'
  BY DEF SetGate, setupVars, runVars, abortVars, IInv, TypeOK, RunOK, StopOK
<1>3. LocksOK' /\ AbortInv'
  BY DEF SetGate, GoTo, abortVars, IInv, TypeOK, LocksOK, AbortInv
<1>4. /\ LogOK' /\ RowInv' /\ IdleMeansStopped' /\ RunHasMonitor' /\ TestInv'
      /\ TestIsFinished' /\ RefusedInv'
  BY DEF SetGate, runVars, logVars, history, IInv, TypeOK, LogOK, RowInv,
    IdleMeansStopped, RunHasMonitor, Over, TestInv, TestIsFinished, RefusedInv,
    history
<1> QED
  BY <1>1, <1>2, <1>3, <1>4 DEF IInv, TypeOK

\* The loop is told to stop.
LEMMA StopRunnerKeeps ==
  ASSUME IInv, StopRunner
  PROVE  IInv'
<1>1. MonitorOK' /\ CountsOK' /\ StartInv'
  BY DEF StopRunner, GoTo, IInv, TypeOK, MonitorOK, CountsOK, Callers, Places,
    StartInv
<1>2. RunOK' /\ StopOK'
  BY DEF StopRunner, setupVars, runVars, abortVars, IInv, TypeOK, RunOK, StopOK
<1>3. LocksOK' /\ AbortInv'
  BY DEF StopRunner, GoTo, abortVars, IInv, TypeOK, LocksOK, AbortInv
<1>4. /\ LogOK' /\ RowInv' /\ IdleMeansStopped' /\ RunHasMonitor' /\ TestInv'
      /\ TestIsFinished' /\ RefusedInv'
  BY DEF StopRunner, runVars, logVars, history, IInv, TypeOK, LogOK, RowInv,
    IdleMeansStopped, RunHasMonitor, Over, TestInv, TestIsFinished, RefusedInv,
    history
<1> QED
  BY <1>1, <1>2, <1>3, <1>4 DEF IInv, TypeOK

\* A paused job may go on to its end.
LEMMA OpenGateKeeps ==
  ASSUME IInv, OpenGate
  PROVE  IInv'
<1>1. MonitorOK' /\ CountsOK' /\ StartInv'
  BY DEF OpenGate, GoTo, IInv, TypeOK, MonitorOK, CountsOK, Callers, Places,
    StartInv
<1>2. RunOK' /\ StopOK'
  BY DEF OpenGate, setupVars, runVars, abortVars, IInv, TypeOK, RunOK, StopOK
<1>3. LocksOK' /\ AbortInv'
  BY DEF OpenGate, GoTo, abortVars, IInv, TypeOK, LocksOK, AbortInv
<1>4. /\ LogOK' /\ RowInv' /\ IdleMeansStopped' /\ RunHasMonitor' /\ TestInv'
      /\ TestIsFinished' /\ RefusedInv'
  BY DEF OpenGate, runVars, logVars, history, IInv, TypeOK, LogOK, RowInv,
    IdleMeansStopped, RunHasMonitor, Over, TestInv, TestIsFinished, RefusedInv,
    history
<1> QED
  BY <1>1, <1>2, <1>3, <1>4 DEF IInv, TypeOK

\* The row shows that, if the cache is open.
LEMMA StopLoggerKeeps ==
  ASSUME IInv, StopLogger
  PROVE  IInv'
<1>1. MonitorOK' /\ CountsOK' /\ StartInv'
  BY DEF StopLogger, GoTo, IInv, TypeOK, MonitorOK, CountsOK, Callers, Places,
    StartInv
<1>2. RunOK' /\ StopOK'
  BY DEF StopLogger, setupVars, runVars, stopVars, abortVars, IInv, TypeOK,
    RunOK, StopOK
<1>3. LocksOK' /\ AbortInv'
  BY DEF StopLogger, GoTo, abortVars, IInv, TypeOK, LocksOK, AbortInv
<1>4. /\ LogOK' /\ RowInv' /\ IdleMeansStopped' /\ RunHasMonitor' /\ TestInv'
      /\ TestIsFinished' /\ RefusedInv'
  BY DEF StopLogger, Show, runVars, history, IInv, TypeOK, LogOK, RowInv,
    IdleMeansStopped, RunHasMonitor, Over, TestInv, TestIsFinished, RefusedInv,
    history
<1> QED
  BY <1>1, <1>2, <1>3, <1>4 DEF IInv, TypeOK

\* Through the engine, or not.
LEMMA AbortRunnerKeeps ==
  ASSUME IInv, AbortRunner
  PROVE  IInv'
<1>1. MonitorOK' /\ CountsOK' /\ StartInv'
  BY DEF AbortRunner, GoTo, IInv, TypeOK, MonitorOK, CountsOK, Callers, Places,
    StartInv
<1>2. RunOK' /\ StopOK'
  BY DEF AbortRunner, setupVars, runVars, stopVars, abortVars, IInv, TypeOK,
    RunOK, StopOK
<1>3. LocksOK' /\ AbortInv'
  BY DEF AbortRunner, GoTo, abortVars, IInv, TypeOK, LocksOK, AbortInv
<1>4. /\ LogOK' /\ RowInv' /\ IdleMeansStopped' /\ RunHasMonitor' /\ TestInv'
      /\ TestIsFinished' /\ RefusedInv'
  BY DEF AbortRunner, runVars, logVars, history, IInv, TypeOK, LogOK, RowInv,
    IdleMeansStopped, RunHasMonitor, Over, TestInv, TestIsFinished, RefusedInv,
    history
<1> QED
  BY <1>1, <1>2, <1>3, <1>4 DEF IInv, TypeOK

\* The thread is aborted, wherever it is.
LEMMA AbortThreadKeeps ==
  ASSUME IInv, AbortThread
  PROVE  IInv'
<1>1. MonitorOK' /\ CountsOK' /\ StartInv'
  BY DEF AbortThread, GoTo, IInv, TypeOK, MonitorOK, CountsOK, Callers, Places,
    StartInv
<1>2. RunOK' /\ StopOK'
  BY DEF AbortThread, setupVars, runVars, stopVars, IInv, TypeOK, RunOK, StopOK
<1>3. LocksOK' /\ AbortInv'
  BY DEF AbortThread, GoTo, IInv, TypeOK, LocksOK, AbortInv
<1>4. /\ LogOK' /\ RowInv' /\ IdleMeansStopped' /\ RunHasMonitor' /\ TestInv'
      /\ TestIsFinished' /\ RefusedInv'
  BY DEF AbortThread, runVars, logVars, history, IInv, TypeOK, LogOK, RowInv,
    IdleMeansStopped, RunHasMonitor, Over, TestInv, TestIsFinished, RefusedInv,
    history
<1> QED
  BY <1>1, <1>2, <1>3, <1>4 DEF IInv, TypeOK

-----------------------------------------------------------------------------
(* Engine.Abort.                                                           *)

\* Nobody can be in TestStarting.
LEMMA LockAbortKeeps ==
  ASSUME IInv, NEW c \in Callers, LockAbort(c)
  PROVE  IInv'
<1>1. MonitorOK' /\ CountsOK' /\ StartInv'
  BY DEF LockAbort, GoTo, IInv, TypeOK, MonitorOK, CountsOK, Places, StartInv
<1>2. RunOK' /\ StopOK'
  BY DEF LockAbort, setupVars, runVars, stopVars, IInv, TypeOK, RunOK, StopOK
<1>3. LocksOK' /\ AbortInv'
  BY DEF LockAbort, GoTo, IInv, TypeOK, LocksOK, AbortInv, Callers
<1>4. /\ LogOK' /\ RowInv' /\ IdleMeansStopped' /\ RunHasMonitor' /\ TestInv'
      /\ TestIsFinished' /\ RefusedInv'
  BY DEF LockAbort, runVars, logVars, history, IInv, TypeOK, LogOK, RowInv,
    IdleMeansStopped, RunHasMonitor, Over, TestInv, TestIsFinished, RefusedInv,
    history
<1> QED
  BY <1>1, <1>2, <1>3, <1>4 DEF IInv, TypeOK

\* The run has not ended yet, or there is nothing to abort.
LEMMA TryEnterKeeps ==
  ASSUME IInv, NEW c \in Callers, TryEnter(c)
  PROVE  IInv'
<1>1. MonitorOK' /\ CountsOK' /\ StartInv'
  BY DEF TryEnter, GoTo, IInv, TypeOK, MonitorOK, CountsOK, Callers, Places,
    StartInv
<1>2. RunOK' /\ StopOK'
  BY DEF TryEnter, setupVars, runVars, stopVars, IInv, TypeOK, RunOK, StopOK
<1>3. LocksOK' /\ AbortInv'
  BY DEF TryEnter, GoTo, IInv, TypeOK, LocksOK, MonitorOK, AbortInv
<1>4. /\ LogOK' /\ RowInv' /\ IdleMeansStopped' /\ RunHasMonitor' /\ TestInv'
      /\ TestIsFinished' /\ RefusedInv'
  BY DEF TryEnter, runVars, logVars, history, IInv, TypeOK, LogOK, RowInv,
    IdleMeansStopped, RunHasMonitor, Over, TestInv, TestIsFinished, RefusedInv,
    history
<1> QED
  BY <1>1, <1>2, <1>3, <1>4 DEF IInv, TypeOK

\* The thread is aborted.
LEMMA AbortAndExitKeeps ==
  ASSUME IInv, NEW c \in Callers, AbortAndExit(c)
  PROVE  IInv'
<1>1. MonitorOK' /\ CountsOK' /\ StartInv'
  BY DEF AbortAndExit, GoTo, IInv, TypeOK, MonitorOK, CountsOK, Places,
    StartInv
<1>2. RunOK' /\ StopOK'
  BY DEF AbortAndExit, setupVars, runVars, stopVars, IInv, TypeOK, RunOK,
    StopOK
<1>3. LocksOK' /\ AbortInv'
  BY DEF AbortAndExit, GoTo, IInv, TypeOK, LocksOK, MonitorOK, AbortInv,
    Callers
<1>4. /\ LogOK' /\ RowInv' /\ IdleMeansStopped' /\ RunHasMonitor' /\ TestInv'
      /\ TestIsFinished' /\ RefusedInv'
  BY DEF AbortAndExit, runVars, logVars, history, IInv, TypeOK, LogOK, RowInv,
    IdleMeansStopped, RunHasMonitor, Over, TestInv, TestIsFinished, RefusedInv,
    history
<1> QED
  BY <1>1, <1>2, <1>3, <1>4 DEF IInv, TypeOK

\* The thread has ended.
LEMMA JoinKeeps ==
  ASSUME IInv, NEW c \in Callers, Join(c)
  PROVE  IInv'
<1>1. MonitorOK' /\ CountsOK' /\ StartInv'
  BY DEF Join, GoTo, IInv, TypeOK, MonitorOK, CountsOK, Places, StartInv
<1>2. RunOK' /\ StopOK'
  BY DEF Join, setupVars, runVars, stopVars, IInv, TypeOK, RunOK, StopOK
<1>3. LocksOK' /\ AbortInv'
  BY DEF Join, GoTo, IInv, TypeOK, LocksOK, AbortInv
<1>4. /\ LogOK' /\ RowInv' /\ IdleMeansStopped' /\ RunHasMonitor' /\ TestInv'
      /\ TestIsFinished' /\ RefusedInv'
  BY DEF Join, runVars, logVars, history, IInv, TypeOK, LogOK, RowInv,
    IdleMeansStopped, RunHasMonitor, Over, TestInv, TestIsFinished, RefusedInv,
    history
<1> QED
  BY <1>1, <1>2, <1>3, <1>4 DEF IInv, TypeOK

-----------------------------------------------------------------------------
(* The runner's thread.                                                    *)

\* The thread is ready, or has failed before.
LEMMA PrepareKeeps ==
  ASSUME IInv, Prepare
  PROVE  IInv'
<1>1. MonitorOK' /\ CountsOK' /\ StartInv'
  BY DEF Prepare, monitorVars, IInv, TypeOK, MonitorOK, CountsOK, StartInv
<1>2. RunOK' /\ StopOK'
  BY DEF Prepare, Runs, Protected, monitorVars, setupVars, runVars, stopVars,
    abortVars, logVars, history, IInv, TypeOK, RunOK, Positions, StopOK
<1>3. LocksOK' /\ AbortInv'
  BY DEF Prepare, Runs, monitorVars, abortVars, IInv, TypeOK, LocksOK, AbortInv
<1>4. /\ LogOK' /\ RowInv' /\ IdleMeansStopped' /\ RunHasMonitor' /\ TestInv'
      /\ TestIsFinished' /\ RefusedInv'
  BY DEF Prepare, Runs, monitorVars, logVars, history, IInv, TypeOK, LogOK,
    RowInv, IdleMeansStopped, RunHasMonitor, Over, TestInv, TestIsFinished,
    RefusedInv, history
<1> QED
  BY <1>1, <1>2, <1>3, <1>4 DEF IInv, TypeOK

\* The event is added, or cannot be.
LEMMA AnnouncePitKeeps ==
  ASSUME IInv, AnnouncePit
  PROVE  IInv'
<1>1. MonitorOK' /\ CountsOK' /\ StartInv'
  BY DEF AnnouncePit, monitorVars, IInv, TypeOK, MonitorOK, CountsOK, StartInv
<1>2. RunOK' /\ StopOK'
  BY DEF AnnouncePit, Runs, setupVars, stopVars, abortVars, logVars, history,
    IInv, TypeOK, RunOK, Positions, StopOK
<1>3. LocksOK' /\ AbortInv'
  BY DEF AnnouncePit, Runs, monitorVars, abortVars, IInv, TypeOK, LocksOK,
    AbortInv
<1>4. /\ LogOK' /\ RowInv' /\ IdleMeansStopped' /\ RunHasMonitor' /\ TestInv'
      /\ TestIsFinished' /\ RefusedInv'
  BY DEF AnnouncePit, HasRow, Runs, monitorVars, logVars, history, IInv,
    TypeOK, LogOK, RowInv, IdleMeansStopped, RunHasMonitor, Over, TestInv,
    TestIsFinished, RefusedInv, history
<1> QED
  BY <1>1, <1>2, <1>3, <1>4 DEF IInv, TypeOK

\* The engine is made.
LEMMA ParsePitKeeps ==
  ASSUME IInv, ParsePit
  PROVE  IInv'
<1>1. MonitorOK' /\ CountsOK' /\ StartInv'
  BY DEF ParsePit, monitorVars, IInv, TypeOK, MonitorOK, CountsOK, StartInv
<1>2. RunOK' /\ StopOK'
  BY DEF ParsePit, Runs, Protected, monitorVars, setupVars, runVars, stopVars,
    abortVars, logVars, history, IInv, TypeOK, RunOK, Positions, StopOK
<1>3. LocksOK' /\ AbortInv'
  BY DEF ParsePit, Runs, monitorVars, abortVars, IInv, TypeOK, LocksOK,
    AbortInv
<1>4. /\ LogOK' /\ RowInv' /\ IdleMeansStopped' /\ RunHasMonitor' /\ TestInv'
      /\ TestIsFinished' /\ RefusedInv'
  BY DEF ParsePit, Runs, monitorVars, logVars, history, IInv, TypeOK, LogOK,
    RowInv, IdleMeansStopped, RunHasMonitor, Over, TestInv, TestIsFinished,
    RefusedInv, history
<1> QED
  BY <1>1, <1>2, <1>3, <1>4 DEF IInv, TypeOK

\* The loggers are initialised.
LEMMA StartFuzzingKeeps ==
  ASSUME IInv, StartFuzzing
  PROVE  IInv'
<1>1. MonitorOK' /\ CountsOK' /\ StartInv'
  BY DEF StartFuzzing, monitorVars, IInv, TypeOK, MonitorOK, CountsOK, StartInv
<1>2. RunOK' /\ StopOK'
  BY DEF StartFuzzing, Runs, stopVars, abortVars, IInv, TypeOK, RunOK,
    Positions, StopOK
<1>3. LocksOK' /\ AbortInv'
  BY DEF StartFuzzing, Runs, monitorVars, abortVars, IInv, TypeOK, LocksOK,
    AbortInv
<1>4. /\ LogOK' /\ RowInv' /\ IdleMeansStopped' /\ RunHasMonitor' /\ TestInv'
      /\ TestIsFinished' /\ RefusedInv'
  BY DEF StartFuzzing, Runs, monitorVars, logVars, history, IInv, TypeOK,
    LogOK, RowInv, IdleMeansStopped, RunHasMonitor, Over, TestInv,
    TestIsFinished, RefusedInv, history
<1> QED
  BY <1>1, <1>2, <1>3, <1>4 DEF IInv, TypeOK

\* The timer is set.
LEMMA PrepareTestKeeps ==
  ASSUME IInv, PrepareTest
  PROVE  IInv'
<1>1. MonitorOK' /\ CountsOK' /\ StartInv'
  BY DEF PrepareTest, monitorVars, IInv, TypeOK, MonitorOK, CountsOK, StartInv
<1>2. RunOK' /\ StopOK'
  BY DEF PrepareTest, Runs, stopVars, abortVars, IInv, TypeOK, RunOK,
    Positions, StopOK
<1>3. LocksOK' /\ AbortInv'
  BY DEF PrepareTest, Runs, monitorVars, abortVars, IInv, TypeOK, LocksOK,
    AbortInv
<1>4. /\ LogOK' /\ RowInv' /\ IdleMeansStopped' /\ RunHasMonitor' /\ TestInv'
      /\ TestIsFinished' /\ RefusedInv'
  BY DEF PrepareTest, Runs, monitorVars, logVars, history, IInv, TypeOK, LogOK,
    RowInv, IdleMeansStopped, RunHasMonitor, Over, TestInv, TestIsFinished,
    RefusedInv, history
<1> QED
  BY <1>1, <1>2, <1>3, <1>4 DEF IInv, TypeOK

\* Nobody aborts from now on.
LEMMA EnterTestStartingKeeps ==
  ASSUME IInv, EnterTestStarting
  PROVE  IInv'
<1>1. MonitorOK' /\ CountsOK' /\ StartInv'
  BY DEF EnterTestStarting, monitorVars, IInv, TypeOK, MonitorOK, CountsOK,
    StartInv
<1>2. RunOK' /\ StopOK'
  BY DEF EnterTestStarting, Runs, setupVars, runVars, stopVars, IInv, TypeOK,
    RunOK, Positions, StopOK
<1>3. LocksOK' /\ AbortInv'
  BY DEF EnterTestStarting, Runs, Protected, MayStartTest, monitorVars, IInv,
    TypeOK, LocksOK, AbortInv, Callers
<1>4. /\ LogOK' /\ RowInv' /\ IdleMeansStopped' /\ RunHasMonitor' /\ TestInv'
      /\ TestIsFinished' /\ RefusedInv'
  BY DEF EnterTestStarting, Runs, monitorVars, logVars, history, IInv, TypeOK,
    LogOK, RowInv, IdleMeansStopped, RunHasMonitor, Over, TestInv,
    TestIsFinished, RefusedInv, history
<1> QED
  BY <1>1, <1>2, <1>3, <1>4 DEF IInv, TypeOK

\* The cache is made, and the lock released.
LEMMA TestStartingKeeps ==
  ASSUME IInv, TestStarting
  PROVE  IInv'
<1>1. MonitorOK' /\ CountsOK' /\ StartInv'
  BY DEF TestStarting, monitorVars, IInv, TypeOK, MonitorOK, CountsOK, StartInv
<1>2. RunOK' /\ StopOK'
  BY DEF TestStarting, Runs, setupVars, stopVars, IInv, TypeOK, RunOK,
    Positions, StopOK
<1>3. LocksOK' /\ AbortInv'
  BY DEF TestStarting, Runs, monitorVars, IInv, TypeOK, LocksOK, AbortInv,
    Callers
<1>4. /\ LogOK' /\ RowInv' /\ IdleMeansStopped' /\ RunHasMonitor' /\ TestInv'
      /\ TestIsFinished' /\ RefusedInv'
  BY DEF TestStarting, Runs, Protected, Show, monitorVars, setupVars, runVars,
    stopVars, abortVars, logVars, history, IInv, TypeOK, LogOK, RowInv, RunOK,
    IdleMeansStopped, RunHasMonitor, Over, StartInv, TestInv, TestIsFinished,
    RefusedInv, history
<1> QED
  BY <1>1, <1>2, <1>3, <1>4 DEF IInv, TypeOK

\* On to an iteration, or out.
LEMMA LoopTopKeeps ==
  ASSUME IInv, LoopTop
  PROVE  IInv'
<1>1. MonitorOK' /\ CountsOK' /\ StartInv'
  BY DEF LoopTop, monitorVars, IInv, TypeOK, MonitorOK, CountsOK, StartInv
<1>2. RunOK' /\ StopOK'
  BY DEF LoopTop, Runs, setupVars, runVars, stopVars, abortVars, IInv, TypeOK,
    RunOK, Positions, StopOK
<1>3. LocksOK' /\ AbortInv'
  BY DEF LoopTop, Runs, monitorVars, abortVars, IInv, TypeOK, LocksOK, AbortInv
<1>4. /\ LogOK' /\ RowInv' /\ IdleMeansStopped' /\ RunHasMonitor' /\ TestInv'
      /\ TestIsFinished' /\ RefusedInv'
  BY DEF LoopTop, Runs, monitorVars, logVars, history, IInv, TypeOK, LogOK,
    RowInv, IdleMeansStopped, RunHasMonitor, Over, TestInv, TestIsFinished,
    RefusedInv, history
<1> QED
  BY <1>1, <1>2, <1>3, <1>4 DEF IInv, TypeOK

\* An iteration, or an exception.
LEMMA IterateKeeps ==
  ASSUME IInv, Iterate
  PROVE  IInv'
<1>1. MonitorOK' /\ CountsOK' /\ StartInv'
  BY DEF Iterate, monitorVars, IInv, TypeOK, MonitorOK, CountsOK, StartInv
<1>2. RunOK' /\ StopOK'
  BY DEF Iterate, Runs, setupVars, stopVars, abortVars, IInv, TypeOK, RunOK,
    Positions, StopOK
<1>3. LocksOK' /\ AbortInv'
  BY DEF Iterate, Runs, monitorVars, abortVars, IInv, TypeOK, LocksOK, AbortInv
<1>4. /\ LogOK' /\ RowInv' /\ IdleMeansStopped' /\ RunHasMonitor' /\ TestInv'
      /\ TestIsFinished' /\ RefusedInv'
  BY DEF Iterate, Runs, monitorVars, logVars, history, IInv, TypeOK, LogOK,
    RowInv, IdleMeansStopped, RunHasMonitor, Over, TestInv, TestIsFinished,
    RefusedInv, history
<1> QED
  BY <1>1, <1>2, <1>3, <1>4 DEF IInv, TypeOK

\* Out of the loop.
LEMMA AskLastKeeps ==
  ASSUME IInv, AskLast
  PROVE  IInv'
<1>1. MonitorOK' /\ CountsOK' /\ StartInv'
  BY DEF AskLast, monitorVars, IInv, TypeOK, MonitorOK, CountsOK, StartInv
<1>2. RunOK' /\ StopOK'
  BY DEF AskLast, Runs, setupVars, runVars, stopVars, abortVars, IInv, TypeOK,
    RunOK, Positions, StopOK
<1>3. LocksOK' /\ AbortInv'
  BY DEF AskLast, Runs, monitorVars, abortVars, IInv, TypeOK, LocksOK, AbortInv
<1>4. /\ LogOK' /\ RowInv' /\ IdleMeansStopped' /\ RunHasMonitor' /\ TestInv'
      /\ TestIsFinished' /\ RefusedInv'
  BY DEF AskLast, Runs, monitorVars, logVars, history, IInv, TypeOK, LogOK,
    RowInv, IdleMeansStopped, RunHasMonitor, Over, TestInv, TestIsFinished,
    RefusedInv, history
<1> QED
  BY <1>1, <1>2, <1>3, <1>4 DEF IInv, TypeOK

\* The row shows it.
LEMMA PauseAtGateKeeps ==
  ASSUME IInv, PauseAtGate
  PROVE  IInv'
<1>1. MonitorOK' /\ CountsOK' /\ StartInv'
  BY DEF PauseAtGate, monitorVars, IInv, TypeOK, MonitorOK, CountsOK, StartInv
<1>2. RunOK' /\ StopOK'
  BY DEF PauseAtGate, Runs, Gates, setupVars, runVars, stopVars, abortVars,
    IInv, TypeOK, RunOK, Positions, StopOK
<1>3. LocksOK' /\ AbortInv'
  BY DEF PauseAtGate, Runs, Gates, monitorVars, abortVars, IInv, TypeOK,
    LocksOK, AbortInv
<1>4. /\ LogOK' /\ RowInv' /\ IdleMeansStopped' /\ RunHasMonitor' /\ TestInv'
      /\ TestIsFinished' /\ RefusedInv'
  BY DEF PauseAtGate, Runs, Show, Gates, monitorVars, history, IInv, TypeOK,
    LogOK, RowInv, IdleMeansStopped, RunHasMonitor, Over, TestInv,
    TestIsFinished, RefusedInv, history
<1> QED
  BY <1>1, <1>2, <1>3, <1>4 DEF IInv, TypeOK

\* The row shows that, too.
LEMMA ContinueFromGateKeeps ==
  ASSUME IInv, ContinueFromGate
  PROVE  IInv'
<1>1. MonitorOK' /\ CountsOK' /\ StartInv'
  BY DEF ContinueFromGate, monitorVars, IInv, TypeOK, MonitorOK, CountsOK,
    StartInv
<1>2. RunOK' /\ StopOK'
  BY DEF ContinueFromGate, Runs, setupVars, runVars, stopVars, abortVars, IInv,
    TypeOK, RunOK, Positions, StopOK
<1>3. LocksOK' /\ AbortInv'
  BY DEF ContinueFromGate, Runs, monitorVars, abortVars, IInv, TypeOK, LocksOK,
    AbortInv
<1>4. /\ LogOK' /\ RowInv' /\ IdleMeansStopped' /\ RunHasMonitor' /\ TestInv'
      /\ TestIsFinished' /\ RefusedInv'
  BY DEF ContinueFromGate, Runs, Show, monitorVars, history, IInv, TypeOK,
    LogOK, RowInv, IdleMeansStopped, RunHasMonitor, Over, TestInv,
    TestIsFinished, RefusedInv, history
<1> QED
  BY <1>1, <1>2, <1>3, <1>4 DEF IInv, TypeOK

\* From here on nobody aborts the run.
LEMMA LeaveTestKeeps ==
  ASSUME IInv, LeaveTest
  PROVE  IInv'
<1>1. MonitorOK' /\ CountsOK' /\ StartInv'
  BY DEF LeaveTest, monitorVars, IInv, TypeOK, MonitorOK, CountsOK, StartInv
<1>2. RunOK' /\ StopOK'
  BY DEF LeaveTest, Runs, AfterTest, setupVars, stopVars, IInv, TypeOK, RunOK,
    Positions, StopOK
<1>3. LocksOK' /\ AbortInv'
  BY DEF LeaveTest, Runs, AfterTest, monitorVars, IInv, TypeOK, LocksOK,
    AbortInv, Callers
<1>4. /\ LogOK' /\ RowInv' /\ IdleMeansStopped' /\ RunHasMonitor' /\ TestInv'
      /\ TestIsFinished' /\ RefusedInv'
  BY DEF LeaveTest, Runs, AfterTest, monitorVars, logVars, history, IInv,
    TypeOK, LogOK, RowInv, IdleMeansStopped, RunHasMonitor, Over, TestInv,
    TestIsFinished, RefusedInv, history
<1> QED
  BY <1>1, <1>2, <1>3, <1>4 DEF IInv, TypeOK

\* TestFinished is raised, or an exception thrown.
LEMMA EndTestKeeps ==
  ASSUME IInv, EndTest
  PROVE  IInv'
<1>1. MonitorOK' /\ CountsOK' /\ StartInv'
  BY DEF EndTest, monitorVars, IInv, TypeOK, MonitorOK, CountsOK, StartInv
<1>2. RunOK' /\ StopOK'
  BY DEF TestFinished, EndTest, Runs, setupVars, stopVars, abortVars, IInv,
    TypeOK, RunOK, Positions, StopOK
<1>3. LocksOK' /\ AbortInv'
  BY DEF EndTest, Runs, monitorVars, abortVars, IInv, TypeOK, LocksOK, AbortInv
<1>4. /\ LogOK' /\ RowInv' /\ IdleMeansStopped' /\ RunHasMonitor' /\ TestInv'
      /\ TestIsFinished' /\ RefusedInv'
  BY DEF TestFinished, HasRow, EndTest, Runs, Protected, Show, monitorVars,
    setupVars, runVars, stopVars, abortVars, logVars, history, IInv, TypeOK,
    LogOK, RowInv, RunOK, IdleMeansStopped, RunHasMonitor, Over, StartInv,
    TestInv, TestIsFinished, RefusedInv, history
<1> QED
  BY <1>1, <1>2, <1>3, <1>4 DEF IInv, TypeOK

\* The context is forgotten.
LEMMA FinalizeKeeps ==
  ASSUME IInv, Finalize
  PROVE  IInv'
<1>1. MonitorOK' /\ CountsOK' /\ StartInv'
  BY DEF Finalize, monitorVars, IInv, TypeOK, MonitorOK, CountsOK, StartInv
<1>2. RunOK' /\ StopOK'
  BY DEF Finalize, Runs, Protected, monitorVars, setupVars, runVars, stopVars,
    abortVars, logVars, history, IInv, TypeOK, RunOK, Positions, StopOK
<1>3. LocksOK' /\ AbortInv'
  BY DEF Finalize, Runs, monitorVars, abortVars, IInv, TypeOK, LocksOK,
    AbortInv
<1>4. /\ LogOK' /\ RowInv' /\ IdleMeansStopped' /\ RunHasMonitor' /\ TestInv'
      /\ TestIsFinished' /\ RefusedInv'
  BY DEF Finalize, Runs, monitorVars, logVars, history, IInv, TypeOK, LogOK,
    RowInv, IdleMeansStopped, RunHasMonitor, Over, TestInv, TestIsFinished,
    RefusedInv, history
<1> QED
  BY <1>1, <1>2, <1>3, <1>4 DEF IInv, TypeOK

\* The row is written.
LEMMA JobFailKeeps ==
  ASSUME IInv, JobFail
  PROVE  IInv'
<1>1. MonitorOK' /\ CountsOK' /\ StartInv'
  BY DEF JobFail, monitorVars, IInv, TypeOK, MonitorOK, CountsOK, StartInv
<1>2. RunOK' /\ StopOK'
  BY DEF JobFail, Runs, setupVars, runVars, stopVars, IInv, TypeOK, RunOK,
    Positions, StopOK
<1>3. LocksOK' /\ AbortInv'
  BY DEF JobFail, Runs, monitorVars, IInv, TypeOK, LocksOK, AbortInv
<1>4. /\ LogOK' /\ RowInv' /\ IdleMeansStopped' /\ RunHasMonitor' /\ TestInv'
      /\ TestIsFinished' /\ RefusedInv'
  BY DEF JobFail, Runs, Show, monitorVars, runVars, history, IInv, TypeOK,
    LogOK, RowInv, IdleMeansStopped, RunHasMonitor, Over, TestInv,
    TestIsFinished, RefusedInv, history
<1> QED
  BY <1>1, <1>2, <1>3, <1>4 DEF IInv, TypeOK

\* The row is written for good.
LEMMA RestoreLoggingKeeps ==
  ASSUME IInv, RestoreLogging
  PROVE  IInv'
<1>1. MonitorOK' /\ CountsOK' /\ StartInv'
  BY DEF RestoreLogging, monitorVars, IInv, TypeOK, MonitorOK, CountsOK,
    StartInv
<1>2. RunOK' /\ StopOK'
  BY DEF RestoreLogging, Runs, setupVars, runVars, stopVars, abortVars, IInv,
    TypeOK, RunOK, Positions, StopOK
<1>3. LocksOK' /\ AbortInv'
  BY DEF RestoreLogging, Runs, monitorVars, abortVars, IInv, TypeOK, LocksOK,
    AbortInv
<1>4. /\ LogOK' /\ RowInv' /\ IdleMeansStopped' /\ RunHasMonitor' /\ TestInv'
      /\ TestIsFinished' /\ RefusedInv'
  BY DEF RestoreLogging, Runs, Show, monitorVars, runVars, history, IInv,
    TypeOK, LogOK, RowInv, IdleMeansStopped, RunHasMonitor, Over, TestInv,
    TestIsFinished, RefusedInv, history
<1> QED
  BY <1>1, <1>2, <1>3, <1>4 DEF IInv, TypeOK

\* The runner is forgotten.
LEMMA ClearRunnerKeeps ==
  ASSUME IInv, ClearRunner
  PROVE  IInv'
<1>1. MonitorOK' /\ CountsOK' /\ StartInv'
  BY JobAssumption DEF ClearRunner, Runs, Protected, monitorVars, setupVars,
    runVars, stopVars, abortVars, logVars, history, IInv, TypeOK, MonitorOK,
    CountsOK, Callers, Places, Requests, StartInv
<1>2. RunOK' /\ StopOK'
  BY DEF ClearRunner, Runs, setupVars, runVars, stopVars, abortVars, IInv,
    TypeOK, RunOK, Positions, StopOK
<1>3. LocksOK' /\ AbortInv'
  BY DEF ClearRunner, Runs, abortVars, IInv, TypeOK, LocksOK, AbortInv
<1>4. /\ LogOK' /\ RowInv' /\ IdleMeansStopped' /\ RunHasMonitor' /\ TestInv'
      /\ TestIsFinished' /\ RefusedInv'
  BY DEF ClearRunner, Runs, runVars, logVars, history, IInv, TypeOK, LogOK,
    RowInv, IdleMeansStopped, RunHasMonitor, Over, TestInv, TestIsFinished,
    RefusedInv, history
<1> QED
  BY <1>1, <1>2, <1>3, <1>4 DEF IInv, TypeOK

\* The thread ends.
LEMMA NotifyKeeps ==
  ASSUME IInv, Notify
  PROVE  IInv'
<1>1. MonitorOK' /\ CountsOK' /\ StartInv'
  BY DEF Notify, monitorVars, IInv, TypeOK, MonitorOK, CountsOK, StartInv
<1>2. RunOK' /\ StopOK'
  BY DEF Notify, Runs, setupVars, runVars, stopVars, abortVars, IInv, TypeOK,
    RunOK, Positions, StopOK
<1>3. LocksOK' /\ AbortInv'
  BY DEF Notify, Runs, monitorVars, abortVars, IInv, TypeOK, LocksOK, AbortInv
<1>4. /\ LogOK' /\ RowInv' /\ IdleMeansStopped' /\ RunHasMonitor' /\ TestInv'
      /\ TestIsFinished' /\ RefusedInv'
  BY DEF Notify, Runs, monitorVars, runVars, logVars, history, IInv, TypeOK,
    LogOK, RowInv, IdleMeansStopped, RunHasMonitor, Over, TestInv,
    TestIsFinished, RefusedInv, history
<1> QED
  BY <1>1, <1>2, <1>3, <1>4 DEF IInv, TypeOK

\* The lock is given back.
LEMMA AbortStrikesKeeps ==
  ASSUME IInv, AbortStrikes
  PROVE  IInv'
<1>1. MonitorOK' /\ CountsOK' /\ StartInv'
  BY DEF AbortStrikes, monitorVars, IInv, TypeOK, MonitorOK, CountsOK, StartInv
<1>2. RunOK' /\ StopOK'
  BY DEF AbortStrikes, setupVars, stopVars, IInv, TypeOK, RunOK, Positions,
    StopOK
<1>3. LocksOK' /\ AbortInv'
  BY DEF AbortStrikes, Unlock, monitorVars, IInv, TypeOK, LocksOK, AbortInv,
    Callers
<1>4. /\ LogOK' /\ RowInv' /\ IdleMeansStopped' /\ RunHasMonitor' /\ TestInv'
      /\ TestIsFinished' /\ RefusedInv'
  BY DEF Unannounced, AbortStrikes, Protected, monitorVars, logVars, history,
    IInv, TypeOK, LogOK, RowInv, IdleMeansStopped, RunHasMonitor, Over,
    TestInv, TestIsFinished, RefusedInv, history
<1> QED
  BY <1>1, <1>2, <1>3, <1>4 DEF IInv, TypeOK

-----------------------------------------------------------------------------
(* The timer and the heart beat.                                           *)

\* The first tick ends the loop, the second the run.
LEMMA TickKeeps ==
  ASSUME IInv, Tick
  PROVE  IInv'
<1>1. MonitorOK' /\ CountsOK' /\ StartInv'
  BY DEF Tick, GoTo, MoreTicks, IInv, TypeOK, MonitorOK, CountsOK, Callers,
    Places, StartInv
<1>2. RunOK'
  BY DEF Tick, setupVars, runVars, IInv, TypeOK, RunOK
<1>3. StopOK'
  BY DEF Tick, GoTo, MoreTicks, monitorVars, setupVars, runVars, stopVars,
    abortVars, logVars, history, IInv, TypeOK, StopOK
<1>4. LocksOK' /\ AbortInv'
  BY DEF Tick, GoTo, abortVars, IInv, TypeOK, LocksOK, MonitorOK, AbortInv
<1>5. /\ LogOK' /\ RowInv' /\ IdleMeansStopped' /\ RunHasMonitor' /\ TestInv'
      /\ TestIsFinished' /\ RefusedInv'
  BY DEF Tick, runVars, logVars, history, IInv, TypeOK, LogOK, RowInv,
    IdleMeansStopped, RunHasMonitor, Over, TestInv, TestIsFinished, RefusedInv,
    history
<1> QED
  BY <1>1, <1>2, <1>3, <1>4, <1>5 DEF IInv, TypeOK

\* The process may end here.
LEMMA ReadConfigKeeps ==
  ASSUME IInv, ReadConfig
  PROVE  IInv'
<1>1. MonitorOK' /\ CountsOK' /\ StartInv'
  BY DEF ReadConfig, GoTo, IInv, TypeOK, MonitorOK, CountsOK, Callers, Places,
    StartInv
<1>2. RunOK' /\ StopOK'
  BY DEF ReadConfig, setupVars, runVars, stopVars, abortVars, IInv, TypeOK,
    RunOK, StopOK
<1>3. LocksOK' /\ AbortInv'
  BY DEF ReadConfig, GoTo, abortVars, IInv, TypeOK, LocksOK, AbortInv
<1>4. /\ LogOK' /\ RowInv' /\ IdleMeansStopped' /\ RunHasMonitor' /\ TestInv'
      /\ TestIsFinished' /\ RefusedInv'
  BY DEF ReadConfig, runVars, logVars, history, IInv, TypeOK, LogOK, RowInv,
    IdleMeansStopped, RunHasMonitor, Over, TestInv, TestIsFinished, RefusedInv,
    history
<1> QED
  BY <1>1, <1>2, <1>3, <1>4 DEF IInv, TypeOK

\* The row shows the status again.
LEMMA HeartBeatKeeps ==
  ASSUME IInv, HeartBeat
  PROVE  IInv'
<1>1. MonitorOK' /\ CountsOK' /\ StartInv'
  BY DEF HeartBeat, monitorVars, IInv, TypeOK, MonitorOK, CountsOK, StartInv
<1>2. RunOK' /\ StopOK'
  BY DEF HeartBeat, setupVars, runVars, stopVars, abortVars, IInv, TypeOK,
    RunOK, StopOK
<1>3. LocksOK' /\ AbortInv'
  BY DEF HeartBeat, monitorVars, abortVars, IInv, TypeOK, LocksOK, AbortInv
<1>4. /\ LogOK' /\ RowInv' /\ IdleMeansStopped' /\ RunHasMonitor' /\ TestInv'
      /\ TestIsFinished' /\ RefusedInv'
  BY DEF HeartBeat, Show, monitorVars, runVars, history, IInv, TypeOK, LogOK,
    RowInv, IdleMeansStopped, RunHasMonitor, Over, TestInv, TestIsFinished,
    RefusedInv, history
<1> QED
  BY <1>1, <1>2, <1>3, <1>4 DEF IInv, TypeOK

-----------------------------------------------------------------------------
(* All steps.                                                              *)

\* A stuttering step.
LEMMA StutterKeeps ==
  ASSUME IInv, UNCHANGED vars
  PROVE  IInv'
<1>1. MonitorOK' /\ CountsOK' /\ StartInv'
  BY DEF vars, monitorVars, IInv, TypeOK, MonitorOK, CountsOK, StartInv
<1>2. RunOK' /\ StopOK'
  BY DEF vars, setupVars, runVars, stopVars, abortVars, IInv, TypeOK, RunOK,
    StopOK
<1>3. LocksOK' /\ AbortInv'
  BY DEF vars, monitorVars, abortVars, IInv, TypeOK, LocksOK, AbortInv
<1>4. /\ LogOK' /\ RowInv' /\ IdleMeansStopped' /\ RunHasMonitor' /\ TestInv'
      /\ TestIsFinished' /\ RefusedInv'
  BY DEF vars, monitorVars, runVars, logVars, history, IInv, TypeOK, LogOK,
    RowInv, IdleMeansStopped, RunHasMonitor, Over, TestInv, TestIsFinished,
    RefusedInv, history
<1> QED
  BY <1>1, <1>2, <1>3, <1>4 DEF IInv, TypeOK

\* Engine.Abort, called by whomever.
LEMMA AbortStepKeeps ==
  ASSUME IInv, NEW c \in Callers, AbortStep(c)
  PROVE  IInv'
BY LockAbortKeeps, TryEnterKeeps, AbortAndExitKeeps, JoinKeeps DEF AbortStep

\* Every step keeps IInv.
LEMMA NextKeeps ==
  ASSUME IInv, [Next]_vars
  PROVE  IInv'
<1>1. ASSUME NEW name \in Requests, Call(name)
      PROVE  IInv'
  BY <1>1, CallKeeps
<1>2. CASE WebStep
  BY <1>2, ThrowNullKeeps, StartJobKeeps, StartReturnsKeeps,
    StartTimesOutKeeps, DeleteRowKeeps, SetGateKeeps, StopRunnerKeeps,
    OpenGateKeeps, StopLoggerKeeps, AbortRunnerKeeps, AbortThreadKeeps,
    AbortStepKeeps DEF WebStep, Callers
<1>3. CASE ParsePit \/ Tick \/ HeartBeat
  BY <1>3, ParsePitKeeps, TickKeeps, HeartBeatKeeps
<1>4. CASE ThreadStep
  BY <1>4, PrepareKeeps, AnnouncePitKeeps, StartFuzzingKeeps, PrepareTestKeeps,
    EnterTestStartingKeeps, TestStartingKeeps, LoopTopKeeps, IterateKeeps,
    AskLastKeeps, PauseAtGateKeeps, ContinueFromGateKeeps, LeaveTestKeeps,
    EndTestKeeps, FinalizeKeeps, JobFailKeeps, RestoreLoggingKeeps,
    ClearRunnerKeeps, NotifyKeeps, AbortStrikesKeeps DEF ThreadStep
<1>5. CASE TimerStep
  BY <1>5, ReadConfigKeeps, AbortStepKeeps DEF TimerStep, Callers
<1>6. CASE UNCHANGED vars
  BY <1>6, StutterKeeps
<1> QED
  BY <1>1, <1>2, <1>3, <1>4, <1>5, <1>6 DEF Next, Rest

-----------------------------------------------------------------------------
(* The theorems.                                                           *)

\* The inductive invariant holds in every reachable state.
THEOREM Invariance == Spec => []IInv
<1>1. IInv /\ [Next]_vars => IInv'
  BY NextKeeps
<1> QED
  BY <1>1, InitIInv, PTL DEF Spec

\* The types.
THEOREM TypeCorrect == Spec => []TypeOK
<1>1. IInv => TypeOK
  BY DEF IInv
<1> QED
  BY <1>1, Invariance, PTL

\* Every lock is held exactly where the code holds it, and no abort through the
\* engine strikes in TestStarting (Engine.cs:317, 479).
THEOREM LocksAreKept == Spec => []LocksOK
<1>1. IInv => LocksOK
  BY DEF IInv, TypeOK
<1> QED
  BY <1>1, Invariance, PTL

\* No thread runs a job behind the back of the monitor.
THEOREM RunIsKnown == Spec => []RunHasMonitor
<1>1. IInv => RunHasMonitor
  BY DEF IInv
<1> QED
  BY <1>1, Invariance, PTL

\* The row of a job is final when the monitor forgets it, whatever the calls,
\* the timer and the heart beats were doing meanwhile, and also when the thread
\* has inserted it again.  A thread whose row was deleted before its first event
\* never brings it back.
THEOREM IdleIsStopped == Spec => []IdleMeansStopped
<1>1. IInv => IdleMeansStopped
  BY DEF IInv
<1> QED
  BY <1>1, Invariance, PTL

\* A test that was started is finished, wherever an abort strikes.
THEOREM TestsAreFinished == Spec => []TestIsFinished
<1>1. IInv => TestIsFinished
  BY DEF IInv
<1> QED
  BY <1>1, Invariance, PTL

=============================================================================
