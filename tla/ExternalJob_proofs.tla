------------------------- MODULE ExternalJob_proofs -------------------------
(***************************************************************************)
(* The invariants of ExternalJob hold for all values of its constants: for *)
(* every number of test cases, crashes, jobs and calls. IInv is inductive: *)
(* beside the properties it says what is in the pipes (PipeInv), when the  *)
(* worker's threads live (ThreadInv), where the counters stand beside the  *)
(* test cases that were run (CountInv), and who has stopped the row        *)
(* (StatusInv). One lemma for every action shows that it keeps IInv.       *)
(***************************************************************************)
EXTENDS ExternalJob, TLAPS

-----------------------------------------------------------------------------
\* No job yet, and nothing was run.
LEMMA InitIInv == Init => IInv
<1> SUFFICES ASSUME Init PROVE IInv
  OBVIOUS
<1>1. MonitorOK
  BY DEF Init, MonitorOK
<1>4. WorkerOK
  <2>1. alive <=> loop # "gone"
    BY DEF Init
  <2>2. command \in Commands \cup {"none"} /\ answers \in 0..1
    BY DEF Init
  <2> QED
    BY <2>1, <2>2 DEF Init, WorkerOK
<1>5. PipeInv /\ ThreadInv
  BY DEF Init, PipeInv, ThreadInv
<1>2. RowOK /\ CountInv
  BY ExternalAssumption DEF Init, RowOK, CountInv
<1>3. StatusInv /\ IdleMeansStopped
  BY DEF Init, StatusInv, IdleMeansStopped, EngineIsOver
<1> QED
  BY <1>1, <1>2, <1>3, <1>4, <1>5 DEF IInv, TypeOK

-----------------------------------------------------------------------------
(* The calls of the monitor.                                               *)

\* A new row, a new worker, and nothing of the last job.
LEMMA StartKeeps ==
  ASSUME IInv, Start
  PROVE  IInv'
<1>1. MonitorOK'
  BY DEF Start, Enter, StartProcess, Watch, IInv, TypeOK, MonitorOK
<1>2. WorkerOK' /\ PipeInv' /\ ThreadInv'
  BY DEF Start, Enter, StartProcess, IInv, TypeOK, WorkerOK, PipeInv, ThreadInv
<1>3. RowOK' /\ CountInv'
  BY ExternalAssumption DEF Start, RowOK, CountInv
<1>4. StatusInv' /\ IdleMeansStopped'
  BY DEF Start, StartProcess, Watch, StatusInv, IdleMeansStopped, EngineIsOver
<1> QED
  BY <1>1, <1>2, <1>3, <1>4 DEF IInv, TypeOK

\* The prompt has come, or the end of the output.
LEMMA StartReturnsKeeps ==
  ASSUME IInv, StartReturns
  PROVE  IInv'
<1>1. MonitorOK'
  BY DEF StartReturns, Leave, workerVars, IInv, TypeOK, MonitorOK
<1>2. WorkerOK' /\ PipeInv' /\ ThreadInv'
  BY DEF StartReturns, HasAnswer, gateVars, engineVars, workerVars, IInv,
    TypeOK, WorkerOK, PipeInv, ThreadInv
<1>3. RowOK' /\ CountInv'
  BY DEF StartReturns, engineVars, workerVars, rowVars, IInv, TypeOK, RowOK,
    CountInv
<1>4. StatusInv' /\ IdleMeansStopped'
  BY DEF StartReturns, engineVars, workerVars, rowVars, bounds, IInv,
    StatusInv, IdleMeansStopped, EngineIsOver
<1> QED
  BY <1>1, <1>2, <1>3, <1>4 DEF IInv, TypeOK

\* The same for the answer to a command.
LEMMA ReadAnswerKeeps ==
  ASSUME IInv, ReadAnswer
  PROVE  IInv'
<1>1. MonitorOK'
  BY DEF ReadAnswer, Leave, workerVars, IInv, TypeOK, MonitorOK
<1>2. WorkerOK' /\ PipeInv' /\ ThreadInv'
  BY DEF ReadAnswer, HasAnswer, gateVars, engineVars, workerVars, IInv, TypeOK,
    WorkerOK, PipeInv, ThreadInv
<1>3. RowOK' /\ CountInv'
  BY DEF ReadAnswer, engineVars, workerVars, rowVars, IInv, TypeOK, RowOK,
    CountInv
<1>4. StatusInv' /\ IdleMeansStopped'
  BY DEF ReadAnswer, engineVars, workerVars, rowVars, bounds, IInv, StatusInv,
    IdleMeansStopped, EngineIsOver
<1> QED
  BY <1>1, <1>2, <1>3, <1>4 DEF IInv, TypeOK

\* A command is written, or the worker has exited before.
LEMMA SendCommandKeeps ==
  ASSUME IInv, NEW cmd \in Commands, SendCommand(cmd)
  PROVE  IInv'
<1>1. MonitorOK'
  BY DEF SendCommand, Enter, Answered, workerVars, IInv, TypeOK, MonitorOK
<1>2. WorkerOK' /\ PipeInv' /\ ThreadInv'
  BY DEF SendCommand, Enter, gateVars, engineVars, workerVars, IInv, TypeOK,
    WorkerOK, PipeInv, ThreadInv
<1>3. RowOK' /\ CountInv'
  BY DEF SendCommand, engineVars, workerVars, rowVars, IInv, TypeOK, RowOK,
    CountInv
<1>4. StatusInv' /\ IdleMeansStopped'
  BY DEF SendCommand, engineVars, workerVars, rowVars, IInv, StatusInv,
    IdleMeansStopped, EngineIsOver
<1> QED
  BY <1>1, <1>2, <1>3, <1>4 DEF IInv, TypeOK

\* The monitor remembers the kill before it kills.
LEMMA KillKeeps ==
  ASSUME IInv, Kill
  PROVE  IInv'
<1>1. MonitorOK'
  BY DEF Kill, Enter, workerVars, IInv, TypeOK, MonitorOK
<1>2. WorkerOK' /\ PipeInv' /\ ThreadInv'
  BY DEF Kill, Enter, pipeVars, gateVars, engineVars, workerVars, IInv, TypeOK,
    WorkerOK, PipeInv, ThreadInv
<1>3. RowOK' /\ CountInv'
  BY DEF Kill, engineVars, workerVars, rowVars, IInv, TypeOK, RowOK, CountInv
<1>4. StatusInv' /\ IdleMeansStopped'
  BY DEF Kill, engineVars, workerVars, rowVars, IInv, StatusInv,
    IdleMeansStopped, EngineIsOver
<1> QED
  BY <1>1, <1>2, <1>3, <1>4 DEF IInv, TypeOK

\* The process is gone, if it was not already.
LEMMA KillProcessKeeps ==
  ASSUME IInv, KillProcess
  PROVE  IInv'
<1>1. MonitorOK'
  BY DEF KillProcess, Leave, IInv, TypeOK, MonitorOK
<1>2. WorkerOK' /\ PipeInv' /\ ThreadInv'
  BY DEF KillProcess, Exit, gateVars, IInv, TypeOK, WorkerOK, PipeInv,
    ThreadInv
<1>3. RowOK' /\ CountInv'
  BY DEF KillProcess, rowVars, IInv, TypeOK, RowOK, CountInv
<1>4. StatusInv' /\ IdleMeansStopped'
  BY DEF KillProcess, Exit, rowVars, bounds, IInv, StatusInv, IdleMeansStopped,
    EngineIsOver
<1> QED
  BY <1>1, <1>2, <1>3, <1>4 DEF IInv, TypeOK

-----------------------------------------------------------------------------
(* MonitorTask.                                                            *)

\* The task sees that the worker has exited.
LEMMA WaitForExitKeeps ==
  ASSUME IInv, WaitForExit
  PROVE  IInv'
<1>1. MonitorOK'
  BY DEF WaitForExit, workerVars, IInv, TypeOK, MonitorOK
<1>2. WorkerOK' /\ PipeInv' /\ ThreadInv'
  BY DEF WaitForExit, pipeVars, gateVars, engineVars, workerVars, IInv, TypeOK,
    WorkerOK, PipeInv, ThreadInv
<1>3. RowOK' /\ CountInv'
  BY DEF WaitForExit, engineVars, workerVars, rowVars, IInv, TypeOK, RowOK,
    CountInv
<1>4. StatusInv' /\ IdleMeansStopped'
  BY DEF WaitForExit, engineVars, workerVars, rowVars, IInv, TypeOK, MonitorOK,
    StatusInv, IdleMeansStopped, EngineIsOver
<1> QED
  BY <1>1, <1>2, <1>3, <1>4 DEF IInv, TypeOK

\* A worker that is not started again has come to its end, or was killed.
LEMMA JudgeExitKeeps ==
  ASSUME IInv, JudgeExit
  PROVE  IInv'
<1>1. MonitorOK'
  BY DEF JudgeExit, AfterKill, workerVars, IInv, TypeOK, MonitorOK
<1>2. WorkerOK' /\ PipeInv' /\ ThreadInv'
  BY DEF JudgeExit, pipeVars, gateVars, engineVars, workerVars, IInv, TypeOK,
    WorkerOK, PipeInv, ThreadInv
<1>3. RowOK' /\ CountInv'
  BY DEF JudgeExit, engineVars, workerVars, rowVars, IInv, TypeOK, RowOK,
    CountInv
<1>4. StatusInv' /\ IdleMeansStopped'
  BY DEF JudgeExit, AfterKill, engineVars, workerVars, rowVars, IInv, TypeOK,
    MonitorOK, StatusInv, IdleMeansStopped, EngineIsOver
<1> QED
  BY <1>1, <1>2, <1>3, <1>4 DEF IInv, TypeOK

\* The row of a killed job is written by the monitor.
LEMMA FailJobKeeps ==
  ASSUME IInv, FailJob
  PROVE  IInv'
<1>1. MonitorOK'
  BY DEF FailJob, workerVars, IInv, TypeOK, MonitorOK
<1>2. WorkerOK' /\ PipeInv' /\ ThreadInv'
  BY DEF FailJob, pipeVars, gateVars, engineVars, workerVars, IInv, TypeOK,
    WorkerOK, PipeInv, ThreadInv
<1>3. RowOK' /\ CountInv'
  BY DEF FailJob, engineVars, workerVars, IInv, TypeOK, RowOK, CountInv
<1>4. StatusInv' /\ IdleMeansStopped'
  BY DEF FailJob, StatusInv, IdleMeansStopped
<1> QED
  BY <1>1, <1>2, <1>3, <1>4 DEF IInv, TypeOK

\* The monitor forgets the job: the row was stopped, by whoever it was.
LEMMA FinishJobKeeps ==
  ASSUME IInv, FinishJob
  PROVE  IInv'
<1>1. MonitorOK'
  BY DEF FinishJob, workerVars, IInv, TypeOK, MonitorOK
<1>2. WorkerOK' /\ PipeInv' /\ ThreadInv'
  BY DEF FinishJob, pipeVars, gateVars, engineVars, workerVars, IInv, TypeOK,
    WorkerOK, PipeInv, ThreadInv
<1>3. RowOK' /\ CountInv'
  BY DEF FinishJob, engineVars, workerVars, rowVars, IInv, TypeOK, RowOK,
    CountInv
<1>4. StatusInv' /\ IdleMeansStopped'
  BY DEF FinishJob, engineVars, workerVars, rowVars, IInv, StatusInv,
    IdleMeansStopped, EngineIsOver
<1> QED
  BY <1>1, <1>2, <1>3, <1>4 DEF IInv, TypeOK

\* A second worker for the same row.
LEMMA RestartKeeps ==
  ASSUME IInv, Restart
  PROVE  IInv'
<1>1. MonitorOK'
  BY DEF Restart, StartProcess, Watch, IInv, TypeOK, MonitorOK
<1>2. WorkerOK' /\ PipeInv' /\ ThreadInv'
  BY DEF Restart, StartProcess, IInv, TypeOK, WorkerOK, PipeInv, ThreadInv
<1>3. RowOK' /\ CountInv'
  BY DEF Restart, rowVars, IInv, TypeOK, RowOK, CountInv
<1>4. StatusInv' /\ IdleMeansStopped'
  BY DEF Restart, StartProcess, Watch, StatusInv, IdleMeansStopped,
    EngineIsOver
<1> QED
  BY <1>1, <1>2, <1>3, <1>4 DEF IInv, TypeOK

\* It has shown its prompt, or exited.
LEMMA RestartReturnsKeeps ==
  ASSUME IInv, RestartReturns
  PROVE  IInv'
<1>1. MonitorOK'
  BY DEF RestartReturns, workerVars, IInv, TypeOK, MonitorOK
<1>2. WorkerOK' /\ PipeInv' /\ ThreadInv'
  BY DEF RestartReturns, HasAnswer, gateVars, engineVars, workerVars, IInv,
    TypeOK, WorkerOK, PipeInv, ThreadInv
<1>3. RowOK' /\ CountInv'
  BY DEF RestartReturns, engineVars, workerVars, rowVars, IInv, TypeOK, RowOK,
    CountInv
<1>4. StatusInv' /\ IdleMeansStopped'
  BY DEF RestartReturns, engineVars, workerVars, rowVars, bounds, IInv,
    StatusInv, IdleMeansStopped, EngineIsOver
<1> QED
  BY <1>1, <1>2, <1>3, <1>4 DEF IInv, TypeOK

-----------------------------------------------------------------------------
(* The worker.                                                             *)

\* The worker reads the row.
LEMMA WorkerStartsKeeps ==
  ASSUME IInv, WorkerStarts
  PROVE  IInv'
<1>1. MonitorOK'
  BY DEF WorkerStarts, monitorVars, IInv, TypeOK, MonitorOK
<1>2. WorkerOK' /\ PipeInv' /\ ThreadInv'
  BY DEF WorkerStarts, monitorVars, gateVars, IInv, TypeOK, MonitorOK, WorkerOK,
    PipeInv, ThreadInv
<1>3. RowOK' /\ CountInv'
  BY ExternalAssumption DEF WorkerStarts, Resume, rowVars, IInv, TypeOK, RowOK,
    CountInv
<1>4. StatusInv' /\ IdleMeansStopped'
  BY DEF WorkerStarts, monitorVars, IInv, TypeOK, MonitorOK, WorkerOK,
    StatusInv, IdleMeansStopped, EngineIsOver
<1> QED
  BY <1>1, <1>2, <1>3, <1>4 DEF IInv, TypeOK

\* The worker exits behind its engine.
LEMMA LoopEndsKeeps ==
  ASSUME IInv, LoopEnds
  PROVE  IInv'
<1>1. MonitorOK'
  BY DEF LoopEnds, monitorVars, IInv, TypeOK, MonitorOK, WorkerOK
<1>2. WorkerOK' /\ PipeInv' /\ ThreadInv'
  BY DEF LoopEnds, Exit, monitorVars, gateVars, IInv, TypeOK, WorkerOK,
    PipeInv, ThreadInv
<1>3. RowOK' /\ CountInv'
  BY DEF LoopEnds, rowVars, IInv, TypeOK, RowOK, CountInv
<1>4. StatusInv' /\ IdleMeansStopped'
  BY DEF LoopEnds, rowVars, IInv, StatusInv, IdleMeansStopped
<1> QED
  BY <1>1, <1>2, <1>3, <1>4 DEF IInv, TypeOK

\* The worker answers a command.
LEMMA TakeCommandKeeps ==
  ASSUME IInv, TakeCommand
  PROVE  IInv'
<1>1. MonitorOK'
  BY DEF TakeCommand, monitorVars, IInv, TypeOK, MonitorOK
<1>2. WorkerOK' /\ PipeInv' /\ ThreadInv'
  BY DEF TakeCommand, monitorVars, engineVars, IInv, TypeOK, MonitorOK,
    WorkerOK, PipeInv, ThreadInv
<1>3. RowOK' /\ CountInv'
  BY DEF TakeCommand, engineVars, rowVars, IInv, TypeOK, RowOK, CountInv
<1>4. StatusInv' /\ IdleMeansStopped'
  BY DEF TakeCommand, monitorVars, engineVars, IInv, TypeOK, MonitorOK,
    WorkerOK, StatusInv, IdleMeansStopped, EngineIsOver
<1> QED
  BY <1>1, <1>2, <1>3, <1>4 DEF IInv, TypeOK

\* The engine is told to stop.
LEMMA StopRunnerKeeps ==
  ASSUME IInv, StopRunner
  PROVE  IInv'
<1>1. MonitorOK'
  BY DEF StopRunner, monitorVars, IInv, TypeOK, MonitorOK
<1>2. WorkerOK' /\ PipeInv' /\ ThreadInv'
  BY DEF StopRunner, monitorVars, pipeVars, engineVars, IInv, TypeOK, WorkerOK,
    PipeInv, ThreadInv
<1>3. RowOK' /\ CountInv'
  BY DEF StopRunner, engineVars, rowVars, IInv, TypeOK, RowOK, CountInv
<1>4. StatusInv' /\ IdleMeansStopped'
  BY DEF StopRunner, monitorVars, engineVars, rowVars, IInv, TypeOK, MonitorOK,
    WorkerOK, StatusInv, IdleMeansStopped, EngineIsOver
<1> QED
  BY <1>1, <1>2, <1>3, <1>4 DEF IInv, TypeOK

\* The row shows that.
LEMMA StopLoggerKeeps ==
  ASSUME IInv, StopLogger
  PROVE  IInv'
<1>1. MonitorOK'
  BY DEF StopLogger, monitorVars, IInv, TypeOK, MonitorOK
<1>2. WorkerOK' /\ PipeInv' /\ ThreadInv'
  BY DEF StopLogger, monitorVars, pipeVars, gateVars, engineVars, IInv, TypeOK,
    WorkerOK, PipeInv, ThreadInv
<1>3. RowOK' /\ CountInv'
  BY DEF StopLogger, engineVars, rowVars, IInv, TypeOK, RowOK, CountInv
<1>4. StatusInv' /\ IdleMeansStopped'
  BY DEF StopLogger, monitorVars, engineVars, rowVars, IInv, TypeOK, MonitorOK,
    WorkerOK, StatusInv, IdleMeansStopped, EngineIsOver
<1> QED
  BY <1>1, <1>2, <1>3, <1>4 DEF IInv, TypeOK

\* The worker exits, be the engine at its end or not.
LEMMA JoinEngineKeeps ==
  ASSUME IInv, JoinEngine
  PROVE  IInv'
<1>1. MonitorOK'
  BY DEF JoinEngine, monitorVars, IInv, TypeOK, MonitorOK, WorkerOK
<1>2. WorkerOK' /\ PipeInv' /\ ThreadInv'
  BY DEF JoinEngine, Exit, monitorVars, gateVars, IInv, TypeOK, WorkerOK,
    PipeInv, ThreadInv
<1>3. RowOK' /\ CountInv'
  BY DEF JoinEngine, rowVars, IInv, TypeOK, RowOK, CountInv
<1>4. StatusInv' /\ IdleMeansStopped'
  BY DEF JoinEngine, Exit, rowVars, IInv, StatusInv, IdleMeansStopped,
    EngineIsOver
<1> QED
  BY <1>1, <1>2, <1>3, <1>4 DEF IInv, TypeOK

\* A job that cannot be loaded is stopped.
LEMMA LoadKeeps ==
  ASSUME IInv, Load
  PROVE  IInv'
<1>1. MonitorOK'
  BY DEF Load, monitorVars, IInv, TypeOK, MonitorOK
<1>2. WorkerOK' /\ PipeInv' /\ ThreadInv'
  BY DEF Load, monitorVars, pipeVars, gateVars, IInv, TypeOK, WorkerOK,
    PipeInv, ThreadInv
<1>3. RowOK' /\ CountInv'
  BY DEF Load, IInv, TypeOK, RowOK, CountInv
<1>4. StatusInv' /\ IdleMeansStopped'
  BY DEF Load, monitorVars, IInv, TypeOK, MonitorOK, WorkerOK, ThreadInv,
    StatusInv, IdleMeansStopped, EngineIsOver
<1> QED
  BY <1>1, <1>2, <1>3, <1>4 DEF IInv, TypeOK

\* A test case is run.
LEMMA IterateKeeps ==
  ASSUME IInv, Iterate
  PROVE  IInv'
<1>1. MonitorOK'
  BY DEF Iterate, monitorVars, IInv, TypeOK, MonitorOK
<1>2. WorkerOK' /\ PipeInv' /\ ThreadInv'
  BY DEF Iterate, monitorVars, pipeVars, gateVars, IInv, TypeOK, WorkerOK,
    PipeInv, ThreadInv
<1>3. RowOK' /\ CountInv'
  BY ExternalAssumption DEF Iterate, rowVars, IInv, TypeOK, RowOK, CountInv
<1>4. StatusInv' /\ IdleMeansStopped'
  BY DEF Iterate, monitorVars, IInv, TypeOK, MonitorOK, WorkerOK, ThreadInv,
    StatusInv, IdleMeansStopped, EngineIsOver
<1> QED
  BY <1>1, <1>2, <1>3, <1>4 DEF IInv, TypeOK

\* The row catches up.
LEMMA StoreRowKeeps ==
  ASSUME IInv, StoreRow
  PROVE  IInv'
<1>1. MonitorOK'
  BY DEF StoreRow, monitorVars, workerVars, IInv, TypeOK, MonitorOK
<1>2. WorkerOK' /\ PipeInv' /\ ThreadInv'
  BY DEF StoreRow, monitorVars, pipeVars, gateVars, engineVars, workerVars,
    IInv, TypeOK, WorkerOK, PipeInv, ThreadInv
<1>3. RowOK' /\ CountInv'
  BY ExternalAssumption DEF StoreRow, engineVars, workerVars, IInv, TypeOK,
    RowOK, CountInv
<1>4. StatusInv' /\ IdleMeansStopped'
  BY DEF StoreRow, monitorVars, engineVars, workerVars, IInv, TypeOK, MonitorOK,
    WorkerOK, ThreadInv, StatusInv, IdleMeansStopped, EngineIsOver
<1> QED
  BY <1>1, <1>2, <1>3, <1>4 DEF IInv, TypeOK

\* The job is paused, or continued.
LEMMA HoldKeeps ==
  ASSUME IInv, Hold
  PROVE  IInv'
<1>1. MonitorOK'
  BY DEF Hold, monitorVars, IInv, TypeOK, MonitorOK
<1>2. WorkerOK' /\ PipeInv' /\ ThreadInv'
  BY DEF Hold, monitorVars, pipeVars, gateVars, IInv, TypeOK, WorkerOK,
    PipeInv, ThreadInv
<1>3. RowOK' /\ CountInv'
  BY DEF Hold, IInv, TypeOK, RowOK, CountInv
<1>4. StatusInv' /\ IdleMeansStopped'
  BY DEF Hold, monitorVars, IInv, TypeOK, MonitorOK, WorkerOK, ThreadInv,
    StatusInv, IdleMeansStopped, EngineIsOver
<1> QED
  BY <1>1, <1>2, <1>3, <1>4 DEF IInv, TypeOK

\* The engine leaves the row stopped.
LEMMA EndKeeps ==
  ASSUME IInv, End
  PROVE  IInv'
<1>1. MonitorOK'
  BY DEF End, monitorVars, IInv, TypeOK, MonitorOK
<1>2. WorkerOK' /\ PipeInv' /\ ThreadInv'
  BY DEF End, monitorVars, pipeVars, gateVars, IInv, TypeOK, WorkerOK, PipeInv,
    ThreadInv
<1>3. RowOK' /\ CountInv'
  BY DEF End, IInv, TypeOK, RowOK, CountInv
<1>4. StatusInv' /\ IdleMeansStopped'
  BY DEF End, StatusInv, IdleMeansStopped
<1> QED
  BY <1>1, <1>2, <1>3, <1>4 DEF IInv, TypeOK

\* The worker dies.
LEMMA CrashKeeps ==
  ASSUME IInv, Crash
  PROVE  IInv'
<1>1. MonitorOK'
  BY DEF Crash, monitorVars, IInv, TypeOK, MonitorOK
<1>2. WorkerOK' /\ PipeInv' /\ ThreadInv'
  BY DEF Crash, Exit, monitorVars, gateVars, IInv, TypeOK, WorkerOK, PipeInv,
    ThreadInv
<1>3. RowOK' /\ CountInv'
  BY DEF Crash, rowVars, IInv, TypeOK, RowOK, CountInv
<1>4. StatusInv' /\ IdleMeansStopped'
  BY DEF Crash, Exit, monitorVars, IInv, TypeOK, MonitorOK, StatusInv,
    IdleMeansStopped, EngineIsOver
<1> QED
  BY <1>1, <1>2, <1>3, <1>4 DEF IInv, TypeOK

-----------------------------------------------------------------------------
(* All steps.                                                              *)

LEMMA StutterKeeps == ASSUME IInv, UNCHANGED vars PROVE IInv'
<1>1. MonitorOK'
  BY DEF vars, monitorVars, workerVars, IInv, TypeOK, MonitorOK
<1>2. WorkerOK' /\ PipeInv' /\ ThreadInv'
  BY DEF vars, monitorVars, pipeVars, gateVars, engineVars, workerVars, IInv,
    TypeOK, WorkerOK, PipeInv, ThreadInv
<1>3. RowOK' /\ CountInv'
  BY DEF vars, engineVars, workerVars, rowVars, IInv, TypeOK, RowOK, CountInv
<1>4. StatusInv' /\ IdleMeansStopped'
  BY DEF vars, monitorVars, engineVars, workerVars, rowVars, bounds, IInv,
    StatusInv, IdleMeansStopped, EngineIsOver
<1> QED
  BY <1>1, <1>2, <1>3, <1>4 DEF IInv, TypeOK

\* Every step keeps IInv.
LEMMA NextKeeps ==
  ASSUME IInv, [Next]_vars
  PROVE  IInv'
<1>1. CASE Start \/ Kill \/ WebStep
  BY <1>1, StartKeeps, KillKeeps, StartReturnsKeeps, ReadAnswerKeeps,
    KillProcessKeeps DEF WebStep
<1>2. ASSUME NEW cmd \in Commands, SendCommand(cmd)
      PROVE  IInv'
  BY <1>2, SendCommandKeeps
<1>3. CASE TaskStep
  BY <1>3, WaitForExitKeeps, JudgeExitKeeps, FailJobKeeps, FinishJobKeeps,
    RestartKeeps, RestartReturnsKeeps DEF TaskStep
<1>4. CASE LoopStep
  BY <1>4, WorkerStartsKeeps, LoopEndsKeeps, TakeCommandKeeps, StopRunnerKeeps,
    StopLoggerKeeps, JoinEngineKeeps DEF LoopStep
<1>5. CASE EngineStep
  BY <1>5, LoadKeeps, IterateKeeps, StoreRowKeeps, HoldKeeps, EndKeeps DEF
    EngineStep
<1>6. CASE Crash
  BY <1>6, CrashKeeps
<1>7. CASE UNCHANGED vars
  BY <1>7, StutterKeeps
<1> QED
  BY <1>1, <1>2, <1>3, <1>4, <1>5, <1>6, <1>7 DEF Next

-----------------------------------------------------------------------------
(* The theorems.                                                           *)

\* The inductive invariant holds in every reachable state.
THEOREM Invariance == Spec => []IInv
<1>1. IInv /\ [Next]_vars => IInv'
  BY NextKeeps
<1> QED
  BY <1>1, InitIInv, PTL DEF Spec

\* Types, and the lock and the threads are where the code has them together.
THEOREM TypeCorrect == Spec => []TypeOK
<1>1. IInv => TypeOK
  BY DEF IInv
<1> QED
  BY <1>1, Invariance, PTL

\* A worker that reads the row at any moment, however often workers have died
\* before, goes on behind test cases that were all run.
THEOREM NothingIsSkipped == Spec => []NothingSkipped
<1>1. IInv => NothingSkipped
  <2> SUFFICES ASSUME IInv, NEW c \in 1..RangeStop,
                      c < Resume(count) \/ c < next
               PROVE  c \in done
    BY DEF NothingSkipped
  <2>1. Resume(count) <= next
    BY DEF IInv, TypeOK, RowOK, CountInv, Resume
  <2> QED
    BY <2>1 DEF IInv, TypeOK, RowOK, CountInv, Resume
<1> QED
  BY <1>1, Invariance, PTL

\* The monitor's lock is held just by who acts under it, and a worker that lives
\* is watched by one task, through restarts, kills and crashes.
THEOREM WorkerIsWatched == Spec => []MonitorOK
<1>1. IInv => MonitorOK
  BY DEF IInv, TypeOK
<1> QED
  BY <1>1, Invariance, PTL

\* When the monitor has forgotten a job, its row is stopped: whoever ended it,
\* the engine, the worker, a kill or a crash, and in whichever order they came.
THEOREM IdleIsStopped == Spec => []IdleMeansStopped
<1>1. IInv => IdleMeansStopped
  BY DEF IInv
<1> QED
  BY <1>1, Invariance, PTL

=============================================================================
