---------------------------- MODULE AsyncDbCache ----------------------------
(***************************************************************************)
(* The storage of a running job, class AsyncDbCache: the engine's thread   *)
(* and a web request hand over changes of the job, as functions in a       *)
(* bounded queue, and a background task applies them to the databases.     *)
(* Some calls enter the queue at its front; some wait until their own      *)
(* function has been applied.  While the queue is empty the task writes a  *)
(* heart beat every second.                                                *)
(*                                                                         *)
(* The module follows one cache from the end of JobLogger's TestStarting   *)
(* to JobRunner's RestoreLogging.  The engine is the most general one: any *)
(* order of the calls JobLogger makes, then TestFinished.                  *)
(***************************************************************************)
EXTENDS Naturals, Sequences

CONSTANTS
  QueueLimit,     \* count of the semaphore (10 in the code)
  IterationModes, \* modes that an iteration may start in
  MaxIterations,  \* bound: iterations that finish
  MaxFaults,      \* bound: faults reported
  MaxPauses,      \* bound: times that the job is paused
  MaxStops,       \* bound: Stop requests
  StorageFails    \* may a database throw?

ASSUME StorageAssumption ==
  /\ QueueLimit \in Nat \ {0}
  /\ "Fuzzing" \in IterationModes
  /\ MaxIterations \in Nat /\ MaxFaults \in Nat
  /\ MaxPauses \in Nat /\ MaxStops \in Nat
  /\ StorageFails \in BOOLEAN

VARIABLES
  \* the clients
  engine,    \* where the engine's thread is in the life of the job
  call,      \* the call of AsyncDbCache that each client is in
  pauses, stops, \* requests so far, for the bounds
  \* AsyncDbCache
  job,       \* Job: the record that the engine's calls update
  queue, permits, \* _queue, _queueSemaphore
  status,    \* _status
  task,      \* the background task
  running,   \* the function it has taken
  taskJob,   \* its local variable job
  shared,    \* is that still the very object that Job refers to?
  \* databases
  row,       \* the job's row in the node database
  stored,    \* batches of metrics in the job's database, in order of arrival
  \* history
  handed,    \* batches handed over so far
  finished   \* iterations that have finished

clientVars == <<engine, call, pauses, stops>>
taskVars == <<task, running, taskJob, shared, status>>
queueVars == <<queue, permits>>
history == <<handed, finished>>
vars == <<clientVars, job, queueVars, taskVars, row, stored, history>>

Clients == {"engine", "web"}

\* A function in the queue, with what it has captured: a copy of the job, a
\* batch of metrics to insert (0: none), a new status ("same": none), and the
\* client that waits for it.
Entry(kind, copy, batch, newStatus, by) ==
  [kind |-> kind, copy |-> copy, batch |-> batch, status |-> newStatus,
   by |-> by]

Update(copy) == Entry("update", copy, 0, "same", "nobody")
Metrics(copy, by) == Entry("update", copy, handed + 1, "same", by)
StatusChange(newStatus, by) == Entry("update", job, 0, newStatus, by)
Final == Entry("final", job, 0, "same", "engine")
Close == Entry("close", job, 0, "same", "nobody")

NoJob == [iterations |-> 0, faults |-> 0, mode |-> "Fuzzing", stopped |-> FALSE]
NoEntry == Entry("none", NoJob, 0, "same", "nobody")
NoCall == [at |-> "idle", entry |-> NoEntry, front |-> FALSE]

Idle(c) == call[c].at = "idle"

Bit(b) == IF b THEN 1 ELSE 0

-----------------------------------------------------------------------------
Init ==
  /\ engine = "fuzzing" /\ call = [c \in Clients |-> NoCall]
  /\ pauses = 0 /\ stops = 0
  /\ job = NoJob
  /\ queue = <<>> /\ permits = QueueLimit
  /\ task = "idle" /\ running = NoEntry
  /\ taskJob = NoJob /\ shared = TRUE /\ status = "Running"
  /\ row = [job |-> NoJob, status |-> "Running"]
  /\ stored = <<>>
  /\ handed = 0 /\ finished = 0

-----------------------------------------------------------------------------
(* EnqueueFront and EnqueueBack.                                           *)

\* The client has made its copy, and locked it if it is going to wait.
Issue(c, entry, front) ==
  call' = [call EXCEPT ![c] =
             [at |-> "checking", entry |-> entry, front |-> front]]

Move(c, place) == call' = [call EXCEPT ![c].at = place]

CheckTask(c) ==
  /\ call[c].at = "checking" /\ task # "failed"
  /\ Move(c, "acquiring")
  /\ UNCHANGED <<engine, pauses, stops, job, queueVars, taskVars, row, stored,
                 history>>

\* The task's exception is thrown at the client; it ends the engine's run.
TaskIsFaulted(c) ==
  /\ call[c].at = "checking" /\ task = "failed"
  /\ call' = [call EXCEPT ![c] = NoCall]
  /\ engine' = IF c = "engine" THEN "failed" ELSE engine
  /\ UNCHANGED <<pauses, stops, job, queueVars, taskVars, row, stored, history>>

WaitExpires(c) ==
  /\ call[c].at = "acquiring" /\ permits = 0
  /\ Move(c, "checking")
  /\ UNCHANGED <<engine, pauses, stops, job, queueVars, taskVars, row, stored,
                 history>>

\* Mutant: the semaphore lets everybody in.
MayEnter_Always == TRUE

MayEnter == permits > 0

Acquire(c) ==
  /\ call[c].at = "acquiring" /\ MayEnter
  /\ permits' = permits - 1
  /\ Move(c, "adding")
  /\ UNCHANGED <<engine, pauses, stops, job, queue, taskVars, row, stored,
                 history>>

\* Mutant: front and back are confused.
WithEntry_Reversed(entry, front) ==
  IF front THEN Append(queue, entry) ELSE <<entry>> \o queue

WithEntry(entry, front) ==
  IF front THEN <<entry>> \o queue ELSE Append(queue, entry)

Add(c) ==
  LET entry == call[c].entry
  IN /\ call[c].at = "adding"
     /\ queue' = WithEntry(entry, call[c].front)
     /\ call' = IF entry.by = c THEN [call EXCEPT ![c].at = "waiting"]
                ELSE [call EXCEPT ![c] = NoCall]
     /\ UNCHANGED <<engine, pauses, stops, job, permits, taskVars, row, stored,
                    history>>

CallStep(c) ==
  CheckTask(c) \/ TaskIsFaulted(c) \/ WaitExpires(c) \/ Acquire(c) \/ Add(c)

-----------------------------------------------------------------------------
(* The engine's calls.                                                     *)

Free(place) == engine = place /\ Idle("engine")

\* The call that an action of the engine makes is all it does.
EngineCalls(entry, front) ==
  /\ Issue("engine", entry, front)
  /\ UNCHANGED <<stops, queueVars, taskVars, row, stored>>

\* Mutant: the job is copied before its mode is set.
IterationStarting_CopyFirst(newMode) ==
  /\ Free("fuzzing") /\ newMode # job.mode
  /\ job' = [job EXCEPT !.mode = newMode]
  /\ EngineCalls(Update(job), FALSE)
  /\ UNCHANGED <<engine, pauses, history>>

IterationStarting(newMode) ==
  /\ Free("fuzzing") /\ newMode # job.mode
  /\ job' = [job EXCEPT !.mode = newMode]
  /\ EngineCalls(Update(job'), FALSE)
  /\ UNCHANGED <<engine, pauses, history>>

IterationFinished ==
  /\ Free("fuzzing") /\ finished < MaxIterations
  /\ job' = [job EXCEPT !.iterations = @ + 1]
  /\ EngineCalls(Metrics(job', "nobody"), FALSE)
  /\ handed' = handed + 1 /\ finished' = finished + 1
  /\ UNCHANGED <<engine, pauses>>

OnFault ==
  /\ Free("fuzzing") /\ job.faults < MaxFaults
  /\ job' = [job EXCEPT !.faults = @ + 1]
  /\ EngineCalls(Metrics(job', "engine"), FALSE)
  /\ handed' = handed + 1
  /\ UNCHANGED <<engine, pauses, finished>>

\* JobRunner.ShouldStop finds the job paused; later on, continued.
Pause ==
  /\ Free("fuzzing") /\ pauses < MaxPauses
  /\ engine' = "paused" /\ pauses' = pauses + 1
  /\ EngineCalls(StatusChange("Paused", "engine"), TRUE)
  /\ UNCHANGED <<job, history>>

Continue ==
  /\ Free("paused")
  /\ engine' = "fuzzing"
  /\ EngineCalls(StatusChange("Running", "engine"), TRUE)
  /\ UNCHANGED <<job, pauses, history>>

\* TestFinished, in its four parts.
TestFinished ==
  /\ Free("fuzzing")
  /\ engine' = "stopping"
  /\ EngineCalls(StatusChange("Stopping", "engine"), TRUE)
  /\ UNCHANGED <<job, pauses, history>>

\* Mutant: the final entry overtakes the others.
DrainQueue_Front ==
  /\ Free("stopping")
  /\ engine' = "draining"
  /\ EngineCalls(Final, TRUE)
  /\ UNCHANGED <<job, pauses, history>>

DrainQueue ==
  /\ Free("stopping")
  /\ engine' = "draining"
  /\ EngineCalls(Final, FALSE)
  /\ UNCHANGED <<job, pauses, history>>

CloseQueue ==
  /\ Free("draining")
  /\ engine' = "closing"
  /\ EngineCalls(Close, FALSE)
  /\ UNCHANGED <<job, pauses, history>>

\* The task's last job becomes the job; then JobLogger writes its whole row.
JoinTask ==
  /\ Free("closing") /\ task = "returned"
  /\ engine' = "closed"
  /\ job' = [taskJob EXCEPT !.mode = "Fuzzing"]
  /\ row' = [job |-> job',
             status |-> IF taskJob.iterations > 0 THEN "Stopped" ELSE status]
  /\ UNCHANGED <<call, pauses, stops, queueVars, taskVars, stored, history>>

JoinFaultedTask ==
  /\ Free("closing") /\ task = "failed"
  /\ engine' = "failed"
  /\ UNCHANGED <<call, pauses, stops, job, queueVars, taskVars, row, stored,
                 history>>

\* JobRunner's handlers: after an exception JobFail writes the row, too.
RestoreLogging ==
  /\ engine \in {"closed", "failed"}
  /\ row' = [job |-> [row.job EXCEPT !.stopped = TRUE, !.mode = "Fuzzing"],
             status |-> "Stopped"]
  /\ engine' = "done"
  /\ UNCHANGED <<call, pauses, stops, job, queueVars, taskVars, stored,
                 history>>

FinishStep ==
  DrainQueue \/ CloseQueue \/ JoinTask \/ JoinFaultedTask \/ RestoreLogging

EngineStep ==
  \/ \E newMode \in IterationModes : IterationStarting(newMode)
  \/ IterationFinished \/ OnFault \/ Pause \/ Continue
  \/ TestFinished \/ FinishStep

-----------------------------------------------------------------------------
(* A web request, under the lock of the job's monitor: one at a time, and as
   long as the monitor has a runner.                                       *)

Stop ==
  /\ Idle("web") /\ stops < MaxStops /\ engine # "done"
  /\ Issue("web", StatusChange("Stopping", "web"), TRUE)
  /\ stops' = stops + 1
  /\ UNCHANGED <<engine, pauses, job, queueVars, taskVars, row, stored,
                 history>>

-----------------------------------------------------------------------------
(* The background task.                                                    *)

TaskCopy == IF shared THEN job ELSE taskJob

\* DoUpdateRunningJob: the status is the cache's; the stop date is not written.
DoUpdateRunningJob(copy, newStatus) ==
  row' = [job |-> [copy EXCEPT !.stopped = row.job.stopped],
          status |-> newStatus]

\* Mutant: the place in the queue is not given back.
Release_Not == UNCHANGED permits

Release == permits' = permits + 1

Take ==
  /\ task = "idle" /\ queue # <<>>
  /\ Release
  /\ running' = Head(queue) /\ queue' = Tail(queue)
  /\ task' = "busy"
  /\ UNCHANGED <<clientVars, job, taskJob, shared, status, row, stored,
                 history>>

HeartBeat ==
  /\ task = "idle" /\ queue = <<>>
  /\ DoUpdateRunningJob(TaskCopy, status)
  /\ UNCHANGED <<clientVars, job, queueVars, taskVars, stored, history>>

StoreMetrics ==
  /\ task = "busy" /\ running.batch # 0
  /\ stored' = Append(stored, running.batch)
  /\ running' = [running EXCEPT !.batch = 0]
  /\ UNCHANGED <<clientVars, job, queueVars, task, taskJob, shared, status, row,
                 history>>

\* Mutant: the row is written first, and the metrics are forgotten.
ReadyToApply_RowFirst == task = "busy" /\ running.kind # "close"

ReadyToApply == task = "busy" /\ running.kind # "close" /\ running.batch = 0

\* Mutant: nobody is told.
Pulse_Nobody(client) == UNCHANGED call

Pulse(client) ==
  call' = IF client = "nobody" THEN call ELSE [call EXCEPT ![client] = NoCall]

AppliedCopy ==
  IF running.kind = "final"
  THEN [running.copy EXCEPT !.stopped = TRUE, !.mode = "Reporting"]
  ELSE running.copy

\* Mutant: a function that sets no status makes the job run.
NewStatus_Reset ==
  IF running.status = "same" THEN "Running" ELSE running.status

NewStatus == IF running.status = "same" THEN status ELSE running.status

\* The rest of the function, and the pulse that ends its client's wait.
Apply ==
  /\ ReadyToApply
  /\ status' = NewStatus
  /\ DoUpdateRunningJob(AppliedCopy, status')
  /\ taskJob' = AppliedCopy /\ shared' = FALSE
  /\ Pulse(running.by)
  /\ task' = "idle" /\ running' = NoEntry
  /\ UNCHANGED <<engine, pauses, stops, job, queueVars, stored, history>>

Return ==
  /\ task = "busy" /\ running.kind = "close"
  /\ task' = "returned" /\ running' = NoEntry
  /\ UNCHANGED <<clientVars, job, queueVars, taskJob, shared, status, row,
                 stored, history>>

Fail ==
  /\ StorageFails
  /\ \/ task = "busy" /\ running.kind # "close"
     \/ task = "idle" /\ queue = <<>>
  /\ task' = "failed" /\ running' = NoEntry
  /\ UNCHANGED <<engine, pauses, stops, job, queueVars, taskJob, shared, status,
                 row, stored, history>>

\* Mutant: a client is told that its function was applied when it was not.
StorageFailure_Pulse == Fail /\ Pulse(running.by)

\* An exception leaves the task; clients that wait are not told.
StorageFailure == Fail /\ UNCHANGED call

TaskStep == Take \/ StoreMetrics \/ Apply \/ Return

-----------------------------------------------------------------------------
Done == engine = "done" /\ UNCHANGED vars

Next ==
  \/ EngineStep \/ Stop \/ \E c \in Clients : CallStep(c)
  \/ TaskStep \/ HeartBeat \/ StorageFailure \/ Done

Spec == Init /\ [][Next]_vars

\* Threads that can run do run.  Nothing makes the engine finish or stop.
FairSpec ==
  /\ Spec
  /\ WF_vars(TaskStep) /\ WF_vars(FinishStep)
  /\ \A c \in Clients : WF_vars(CallStep(c))

-----------------------------------------------------------------------------
(* Properties.                                                             *)

Statuses == {"Running", "Paused", "Stopping", "Stopped"}

Jobs == [iterations : Nat, faults : Nat,
         mode : IterationModes \cup {"Reporting"}, stopped : BOOLEAN]

Entries == [kind : {"none", "update", "final", "close"}, copy : Jobs,
            batch : Nat, status : Statuses \cup {"same"},
            by : Clients \cup {"nobody"}]

Calls == [at : {"idle", "checking", "acquiring", "adding", "waiting"},
          entry : Entries, front : BOOLEAN]

ClientsOK ==
  /\ engine \in {"fuzzing", "paused", "stopping", "draining", "closing",
                 "closed", "failed", "done"}
  /\ call \in [Clients -> Calls]
  /\ pauses \in Nat /\ stops \in Nat

\* The semaphore counts the free places of the queue, whoever adds at either of
\* its ends while the task takes from it (AsyncDbCache.cs:57, 122, 144, 160).
PermitsOK ==
  /\ queue \in Seq(Entries) /\ permits \in Nat
  /\ permits + Len(queue) + Bit(call["engine"].at = "adding")
       + Bit(call["web"].at = "adding") = QueueLimit

TaskOK ==
  /\ task \in {"idle", "busy", "returned", "failed"}
  /\ running \in Entries /\ shared \in BOOLEAN

DataOK ==
  /\ job \in Jobs /\ taskJob \in Jobs /\ status \in Statuses
  /\ row \in [job : Jobs, status : Statuses]
  /\ stored \in Seq(Nat) /\ handed \in Nat /\ finished \in Nat

\* The types, and the permits.
TypeOK == ClientsOK /\ PermitsOK /\ TaskOK /\ DataOK

\* "Ensure that the queue is drained before proceeding" (AsyncDbCache.cs:339):
\* batches are stored in order, each once, and the report of a fault returns
\* when its batch and all before it are stored.
Reporting ==
  LET entry == call["engine"].entry
  IN ~Idle("engine") /\ entry.batch # 0 /\ entry.by = "engine"

Log == INSTANCE MetricLog WITH
         reporting <- Reporting,
         failed <- (engine \in {"failed", "done"} /\ task = "failed")

ImplementsMetricLog == Log!Spec

\* A restarted job goes on after the iterations that its row counts
\* (JobRunner.cs:69, 74): as long as nothing has entered the queue at its front,
\* the row counts nothing whose metrics could still be lost.
RowNeverAhead ==
  (engine = "fuzzing" /\ pauses = 0 /\ stops = 0 /\ ~shared)
    => row.job.iterations + row.job.faults <= Len(stored)

\* Once the queue is empty, the row shows the job as the engine left it, though
\* entries have overtaken one another on the way.  A paused job is shown as
\* paused, heart beats and older changes of the job notwithstanding
\* (JobMonitorTests.cs, TestHeartBeat), until it is continued or stopped.
RowIsCurrent ==
  /\ (engine \in {"fuzzing", "paused"} /\ Idle("engine") /\ stops = 0
        /\ task = "idle" /\ queue = <<>> /\ ~shared)
       => row.job = job /\ row.status = status
  /\ (engine = "paused" /\ Idle("engine") /\ stops = 0)
       => row.status = "Paused"

\* Without a Stop from outside, the job that the task leaves is the last one:
\* with its stop date (the assertion at AsyncDbCache.cs:408), every iteration
\* counted.
ResultIsFinal ==
  (engine = "closed" /\ stops = 0)
    => job.stopped /\ job.iterations = finished

\* Every call of the engine comes back, and a job that is being finished gets
\* closed, unless the storage fails.
EngineCallReturns ==
  /\ ~Idle("engine") ~> (Idle("engine") \/ task = "failed")
  /\ engine = "stopping" ~> (engine = "done" \/ task = "failed")

\* Stop answers (JobMonitorTests.cs:259).
StopReturns == ~Idle("web") ~> Idle("web")

-----------------------------------------------------------------------------
(* What the proofs of the properties need beside them.                     *)

\* The life of the engine: it makes no call any more when it has left the
\* cache, and it leaves when the task has ended.
EngineInv ==
  /\ engine \in {"closed", "failed", "done"} => Idle("engine")
  /\ engine = "closed" => task = "returned"
  /\ engine = "failed" => task = "failed"
  /\ engine = "done" => task \in {"returned", "failed"}
  /\ engine = "paused" => pauses > 0
  /\ stops = 0 => Idle("web")

\* The call that the engine makes at each of its places.
EngineCallInv ==
  LET entry == call["engine"].entry
      front == call["engine"].front
  IN ~Idle("engine") =>
       /\ entry.copy = job /\ entry.batch \in {0, handed}
       /\ entry.by \in {"engine", "nobody"}
       /\ front => entry.by = "engine" /\ entry.batch = 0
       /\ ~front => entry.status = "same"
       /\ engine = "fuzzing" =>
            entry.kind = "update"
              /\ (front => entry.status = "Running" /\ pauses > 0)
       /\ engine = "paused" =>
            front /\ entry.kind = "update" /\ entry.status = "Paused"
       /\ engine = "stopping" => front /\ entry.kind = "update"
       /\ engine = "draining" =>
            ~front /\ entry.kind = "final" /\ entry.by = "engine"
              /\ entry.batch = 0
       /\ engine = "closing" =>
            ~front /\ entry.kind = "close" /\ entry.by = "nobody"
              /\ entry.batch = 0

WebCallInv ==
  ~Idle("web") =>
    /\ call["web"].front
    /\ call["web"].entry.kind = "update" /\ call["web"].entry.batch = 0
    /\ call["web"].entry.by = "web"

\* A client waits for its entry, which is in one place; no other entry has its
\* name on it.
WaitInv ==
  \A c \in Clients :
    /\ call[c].at = "waiting" => call[c].entry.by = c
    /\ running.by = c =>
         /\ call[c].at = "waiting"
         /\ running = [call[c].entry EXCEPT !.batch = running.batch]
         /\ running.batch \in {0, call[c].entry.batch}
    /\ \A i \in 1..Len(queue) : queue[i].by = c =>
         /\ call[c].at = "waiting" /\ queue[i] = call[c].entry
         /\ running.by # c
         /\ \A j \in 1..Len(queue) : queue[j].by = c => j = i

\* What is in the queue and in the hands of the task.
Proper(entry) ==
  /\ entry.kind # "none"
  /\ entry.kind # "update" => entry.batch = 0
  /\ entry.kind = "final" => entry.by = "engine"
  /\ entry.kind = "close" => engine \in {"closing", "closed", "failed", "done"}
  /\ entry.status # "same" => entry.by # "nobody"

EntryInv ==
  /\ IF task = "busy" THEN Proper(running) ELSE running = NoEntry
  /\ \A i \in 1..Len(queue) : Proper(queue[i])

\* A call that has not reached the queue yet.
Calling(c) == call[c].at \in {"checking", "acquiring", "adding"}

\* Batches that the task has stored or is about to, and those that have been
\* put into the queue.
Taken == Len(stored) + Bit(running.batch # 0)

Queued ==
  handed - Bit(Calling("engine") /\ call["engine"].entry.batch # 0)

\* The batches between are in the queue, each once and in order.
InOrder ==
  \A i \in 1..Len(queue) : queue[i].batch # 0 =>
    /\ Taken < queue[i].batch /\ queue[i].batch <= Queued
    /\ \A j \in 1..Len(queue) : j < i => queue[j].batch < queue[i].batch

NoneLost ==
  \A n \in (Taken + 1)..Queued :
    \E i \in 1..Len(queue) : queue[i].batch = n

BatchInv ==
  /\ \A n \in 1..Len(stored) : stored[n] = n
  /\ Len(stored) <= handed
  /\ running.batch \in {0, Len(stored) + 1}
  /\ task # "failed" => Taken <= Queued /\ InOrder /\ NoneLost
  /\ call["engine"].at = "waiting" /\ call["engine"].entry.batch # 0
       /\ running.by = "engine" /\ running.batch = 0
       => Len(stored) = handed

\* While nothing has entered the queue at its front: the job as an entry shows
\* it counts no batch after the entry's own.
Counted(copy) == copy.iterations + copy.faults

Calm == engine = "fuzzing" /\ pauses = 0 /\ stops = 0

CountedInOrder ==
  \A i \in 1..Len(queue) :
    /\ Counted(queue[i].copy) <= Queued
    /\ queue[i].batch # 0 => Counted(queue[i].copy) = queue[i].batch
    /\ \A j \in 1..Len(queue) : i < j /\ queue[j].batch # 0
         => Counted(queue[i].copy) < queue[j].batch

CalmInv ==
  /\ engine \notin {"closed", "done"} => Counted(job) = handed
  /\ Calm /\ ~shared => Counted(taskJob) <= Len(stored)
  /\ Calm /\ task # "failed" =>
       Counted(running.copy) <= Taken /\ CountedInOrder

\* The last of the entries that are left has the job as it is.
NewestInv ==
  /\ engine \notin {"closed", "done"} =>
       /\ ~job.stopped /\ ~row.job.stopped
       /\ job.iterations = finished
       /\ row.status = status
  /\ engine \in {"fuzzing", "paused"} /\ stops = 0 /\ task # "failed"
       /\ (Calling("engine") => call["engine"].front)
       => IF queue # <<>> THEN queue[Len(queue)].copy = job
          ELSE IF task = "busy" THEN running.copy = job
          ELSE ~shared => taskJob = job /\ row.job = job
  /\ engine = "paused" /\ Idle("engine") /\ stops = 0 => status = "Paused"

\* The final entry is the last, and the job that it leaves is the last.
FinalInv ==
  stops = 0 =>
    /\ \A i \in 1..Len(queue) :
         queue[i].kind = "final" => i = Len(queue) /\ engine = "draining"
    /\ running.kind = "final" => queue = <<>> /\ engine = "draining"
    /\ (engine = "draining" /\ Idle("engine")) \/ engine = "closing"
         => /\ taskJob.stopped /\ taskJob.iterations = finished
            /\ running.kind \in {"none", "close"}
            /\ \A i \in 1..Len(queue) : queue[i].kind = "close"

\* The inductive invariant.
IInv ==
  /\ TypeOK /\ EngineInv /\ EngineCallInv /\ WebCallInv /\ WaitInv /\ EntryInv
  /\ BatchInv /\ CalmInv /\ NewestInv /\ FinalInv
  /\ RowNeverAhead /\ ResultIsFinal

=============================================================================
