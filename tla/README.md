# A verification of the Peach fuzzing engine

This directory holds TLA+ models of the fuzzer in `src/`, the TLC
configurations that check them on small instances, and proofs of their main
invariants for every value of the constants. File and line references are to
`src/`.

## 1. The system and its parts

Peach reads a *pit* (data models, a state model, agents, a mutation strategy),
runs the state model against a target over and over with mutated data, asks
monitors whether the target failed, and searches backwards through the session
when it did.

```
 web service / console
        |  start, pause, continue, stop, kill
        v
 job control  (JobMonitor, InternalJobMonitor, ExternalJobMonitor, JobRunner)
        |  startFuzzing, Abort, shouldStop            |
        v                                             v
 engine  (Engine, RunContext) --- events --->  job logger (JobLogger)
   |            |         |                           |  copies of the job,
   | Iteration  | Run     | IterationStarting,        |  faults, states
   v            v         v CollectFaults             v
 strategy   state model  agent manager          job storage queue
 (Random,   (StateModel, (AgentManager,         (AsyncDbCache) --> SQLite
  two-phase) State,       AgentClient,
             Action)      monitors)
                |               |
                v               v
            publishers  --->  target
```

| Part | Code | State it keeps | Operations |
|---|---|---|---|
| Engine loop and fault search | `core/Core/Engine.cs` RunTest, `RunContext.cs` | iteration counters, control and recording flags, the fault being reproduced, window, floor of searches | one pass of the loop; request to stop |
| Engine start and abort | `Engine.cs` startFuzzing, Abort, OnTimer, EndTest | two locks, the timer, the engine's thread | start, abort, first and second tick, clean-up |
| Random strategy | `pro/Core/MutationStrategies/RandomStrategy.cs` | block of the last switch, random generators, data set tracker | Iteration, IterationStarting, action events |
| Other strategies | `Sequential.cs`, `RandomDeterministicStrategy.cs`, `ReplayStrategy.cs` | position in an enumeration | Iteration, Count |
| Two-phase (LLM) strategy | `llm/Core/MutationStrategies/TwoPhaseRandomStrategy.cs` | phase, sent flag | output of one action in two phases |
| Job logger | `pro/Core/Loggers/JobLogger.cs` | pending fault, caches, log files | engine events, job events |
| Job storage queue | `pro/Core/Storage/AsyncDbCache.cs` | bounded queue, background task, status | enqueue front and back, wait for one's copy, finish |
| Job control | `pro/Core/Runtime/JobRunner.cs`, `pro/Core/WebServices/*JobMonitor.cs` | runner or worker process, pause gate, stop flag, pending kill | start, pause, continue, stop, kill, restart |
| Agents | `core/Core/Agent/AgentManager.cs`, channels | connected agents, their monitors, remote sessions | connect, iteration events, collect faults, dispose |
| Monitors | `pro/Core/Agent/Monitors`, `StartStopRestartMonitor.cs` | process or service of the target | restart on fault, detect, report |
| State model | `core/Core/Dom/StateModel.cs`, `State.cs`, `Action.cs` | current state, actions executed | Run, change of state by exception |
| Publishers | `core/Core/Publisher.cs`, `BufferedStreamPublisher.cs` | started and open flags, buffers, reader thread | start, open, input, output, close, stop |
| Data model, cracker, parser; mutators, fixups, transformers | `core/Core/Dom`, `Cracker`, ... | documents | pure functions of documents |
| Web service, user interface, tools | `pro/WebApi2`, ... | none of interest | routing |

**How they interact.** The engine is one thread. It calls the strategy (the
setter of `Iteration` may *change the engine's flags*: a switch of data sets
needs a recording iteration), the state model, the agent manager, and the
loggers, synchronously. Other threads reach it only through `continueFuzzing`
(first tick of the duration timer, `shouldStop` of the job) and through a thread
abort. The logger hands copies of the job to the storage queue, whose one
background task writes them; callers of pause, stop, fault and finish wait for
their copy. Job control runs the engine on a thread of its own or in a worker
process.

**What is hard in it.** The search after a fault: every pass of the loop ends by
setting up the next pass in about ten flags, and increments, decrements and jumps
of the iteration counter cancel each other out across passes. The strategy's
recording iterations can fall anywhere in it. In the storage, a bounded queue
whose front and back overtake each other, and callers that wait without a timeout
for a task that may be gone. In job control, stops, kills, a timer and thread
aborts that race with the start, the end and the clean-up of a run; workers that
die and are started again from a row that lags behind. In the agents, requests
that are lost or executed twice and a server that forgets everything when its
machine restarts. In the publisher, callbacks of the thread pool that end a
connection while an output of two phases goes on, and may take one connection for
another. `PROJECT.json` lists the hazards with their lines.

**What makes each part correct.**

- *Engine*: every test case of the range is fuzzed once, in order, whatever is
  found; a search covers 0, 10, 20, 40 ... test cases up to `MaxBackSearch` and
  never what an earlier search has covered; a fault that can be reproduced within
  these limits is reproduced; a restart of a session target is verified by a
  control iteration; every search and every bounded run ends.
- *Strategy*: a replayed test case sends what it sent before.
- *Logger*: it holds an unreproduced fault exactly while the engine reproduces one.
- *Storage*: rows are written in an order that leaves the last state of the job;
  no caller waits for ever.
- *Job control*: at most one run; stop and kill always end it; pause and continue
  alternate.
- *Agents*: monitors start before and stop after everything that uses them; every
  agent that was connected is disconnected, in reverse order.
- *Publishers, two-phase strategy*: the final data of an output is lost only to
  what happens to its own connection; nothing of a connection outlives its
  iteration; every output ends, unless its peer takes no more data and the write
  has no timeout.
- *State model*: states and actions run in their order, publishers are closed
  whatever happens.

## 2. The modules

| Module | What it is |
|---|---|
| `FuzzEngine` | `Engine.RunTest`, pass by pass, with the setter of `RandomStrategy.Iteration`, and JobLogger's `_reproFault` |
| `FaultSearch` | the abstract session: what a run promises about its test cases and searches |
| `EngineSearch` | the refinement mapping from `FuzzEngine` to `FaultSearch` |
| `EngineSessions` | that refinement in three configurations |
| `SessionTarget` | `FuzzEngine` composed with a target that has a real bug, a monitor that restarts it, and the data sets |
| `FuzzEngine_proofs`, `EngineSearch_proofs`, `SessionTarget_proofs` | theorems about the loop, about the refinement, about the loop and its target |
| `AsyncDbCache` | the storage queue of a running job, its clients and its background task |
| `MetricLog` | the abstract log: what the storage promises about metrics and faults |
| `InternalJob` | a job in the web service's process: monitor, runner, start and abort of the engine |
| `ExternalJob` | a job in a worker process that dies and is started again |
| `RemoteAgent` | the agent manager, a remote agent over HTTP and its server |
| `OutputPhases` | an output of the two-phase strategy over a TCP client |
| `AsyncDbCache_proofs`, `InternalJob_proofs`, `ExternalJob_proofs`, `RemoteAgent_proofs`, `OutputPhases_proofs` | theorems about these modules |

### FuzzEngine

The variables carry the names of the code's locals and of the members of
`RunContext`. A pass of the loop is four steps, and `pc` says which is next:

- `top`: the loop condition, the decision on a periodic control iteration, the
  setter of the strategy's iteration, `FaultOnPreviousIteration`
  (`BeginIteration`; `StopBeforeFuzzing`, `LeaveLoop` are the exits);
- `running`: state model and monitors, reduced to their outcome (`Execute`):
  nothing, a fault, a fault of a monitor that says `mustStop`, a SoftException,
  any other exception;
- `judging`: one action per branch of `Engine.cs:649-899`;
- `tail`: `mustStop`, the `continue`, the totals, the increment and the `finally`
  block.

`RequestStop` is the only step of another thread. Four details are simplified:
`firstRun` is reset where the local `isFirst` is last read; `randomDataSet ==
null` is `lastSwitchIteration = 0`; `faults` is "none", "some" or "mustStop";
flags are left alone by steps after which the loop has ended, where the `finally`
block sets them and nobody reads them.

The options of a run, `runMode` and `lifetime`, are chosen in the initial state and
never change; the four options of the command line exclude each other. `countOnly`
and `parallel` are refused by the code for a strategy that is not deterministic:
under them the model has one that never switches (`Switches`). `parallel` is
refused together with a range, which `EngineAssumption` says.

### FaultSearch and EngineSearch

`FaultSearch` knows a mode (fuzzing, searching, over), where the part of this machine
starts, the next test case to
fuzz, the floor below which no search goes, and for a search where the fault was
seen and how deep the current window is. `EngineSearch` maps the loop to it: the
abstract `next` is the test case that the loop will come to when the search is
over, across all the bookkeeping in between. `ImplementsSession` says that every
pass of the loop is one of the abstract steps or none, and that a search that has
begun ends. `EngineSessions` checks it in three configurations at once: `config`
is chosen in the initial state, and `E(config)` is the loop with these constants.

### SessionTarget

The target fails once the test cases `bug.from .. bug.at` have been run in a row,
in order, since its last start; it shows at once or on the next control
iteration. At most `MaxSpurious` other faults occur that never come back. A pass
with `faultOnPreviousIteration` restarts the target. What a test case sends is
its number together with the data set applied, so that `SameData` can tell a
faithful replay from another one. The data sets follow `SyncDataSets` and
`ApplyDataSet`; `choice` is what `Random(Seed + block)` draws, fixed for each
block. The target itself is not part of `src/`; it is the external environment
that the search is made for. `fuzzedWith`, `replayed` and `controlled` are history for the properties: with
which data each test case was fuzzed (`FuzzedNow`), what the current window has
replayed last, the last control iteration.

### AsyncDbCache and MetricLog

Two clients, the engine's thread and a web request, make the calls of
`AsyncDbCache`; `engine` says where the engine is in the life of the job and
`call` where each client is in its call: it asks whether the task has failed
(`CheckTask`, or `TaskIsFaulted` throws), takes a permit of the semaphore or asks
again after a second, adds its function to the queue under the queue's lock, and
waits for it where the code does. Between these steps everybody else may act. A
queued function is a record of what it has captured: a copy of the job, a batch
of metrics, a status. The task takes a function, stores its batch, then writes the
row and pulses its client; with an empty queue it writes heart beats; with
`StorageFails` a database may throw at any of these points. `JoinTask` and
`RestoreLogging` are the last writes of the row, by JobLogger and JobRunner.

A job is reduced to what the properties tell apart: the counts of iterations and
faults, the mode, and whether the stop date is set. Taking the copy, locking it
and calling is one step, and so are writing the row and the pulse: a client holds
the lock of its copy until it waits, so the pulse cannot come in between. Until
the first function has been applied the task writes heart beats of the very job
that the engine is changing (`shared`). The engine is the most general one that
JobLogger allows; `JobRunner`'s gate and stop flag are in `InternalJob`.

`MetricLog` says what this is for: batches arrive in the database in the order in
which they were handed over, each once, and the report of a fault returns when
everything handed over has arrived.

### InternalJob

Three threads. A *web request* has the lock of `InternalJobMonitor` from its call
to its answer (`request`, `at["web"]`). The *runner's thread* goes through
`JobRunner.Run` and `Engine.startFuzzing`; `thread` names the place: parsing the
pit, making the engine, waiting to be told to start, `TestStarting` under
`_canAbortSync`, the loop condition (`top`) with the pause gate in the getter of
`continueFuzzing`, an iteration, the same getter once more after the loop
(`last`, Engine.cs:259), `TestFinished`, the finally blocks, the handlers of the
runner. The *duration timer* sets `continueFuzzing` with its first tick and
aborts with its second. `Abort` takes `_hasAbortedSync`, tries `_canAbortSync`,
and calls `Thread.Abort`, which strikes where the code can be interrupted; it is
modelled as a mark (`aborting`) that takes effect at the next place that is not
in a catch or finally block. `cache`, `status` and `row` are the storage reduced
to what the monitor reads. `Rest` is the stuttering of a service with no job.

A start that is not ready within a second is two steps: `StartTimesOut`, after
which the thread may still get ready and go on, and `DeleteRow`. The row may stay,
for its three DELETE statements have no transaction around them and an event
added in between holds it by its foreign key. Where the code reads the row and
then writes it (`JobFail`, `RestoreLogging`, the storage), a deleted row stays away
(`Show`); where JobLogger makes a new `Job` (`TestStarting`, and `TestFinished`
without a cache; JobLogger.cs:207, 300), it comes back. An event cannot be added to
a job without a row (`HasRow`), so that a thread whose row was deleted before its
first event (`refused`) ends in `JobFail`; one that has added it inserts the row again.

### ExternalJob

The monitor and its task share a lock (`holder`); the worker has the loop that
reads commands (`loop`) and the engine's thread (`engine`). `Crash` may strike
at any moment; sending a command and reading the answer to it are separate steps,
so that a worker may die between the two. Exit code 2 (a wrong command line) is not
told apart from 0, for the monitor builds the command line; and the cache is closed
when the engine is over, while in the code one whose `TestFinished` failed goes on
writing until the process exits, at most ten seconds later.
`next`, `counted` and `done` are the test case to run, what the engine has
counted and what it has run; `count` is what the row says. `Resume` computes
where a worker goes on.

### RemoteAgent

One action per request of the client, with everything it changes on both sides:
the request may be answered, refused, lost, lost on its way back, or executed
twice (`Results`). A monitor that the server makes for the second time and then
refuses (MonitorHandler.cs:140) is not counted. `asked`, `messages`, `known`,
`offline` are the fields of `Client`; `current` and `stray` the contexts on the
server. The local agent's monitor restarts the machine after a fault, and the
server with it. `Stop`, `Crash` and `Boot` come from outside. The order of the
calls is AgentManager's.

### OutputPhases

The engine's thread walks through `SendOutputMessage` and `Output.OnRun`; `phase`
says which of them, and whether it is the retry; `at` says where in the publisher
it is. Exceptions go through `Raise`, returns of `output()` through `Sent` and of
`close()` through `Closed`: these three are the strategy and the state model, all
else is the publisher. The fields of the publisher keep their names (`client` is
`_client` together with the socket, `named` is `_clientName`). The peer may end,
reset or refuse connections, or read no more until the buffers are full (fate
"stalled"): then a write does not end, and fails after `SendTimeout` if there is one
(`sendTimeout`, chosen in the initial state; `TimedOut`). `read` is the one read
under way on the current socket, `stale` the callbacks that belong to closed
sockets and have not run. A stale callback asks the current socket for its
result (`StaleComplete`), which fails and closes it. `fate`, `early`,
`firstSent`, `firstFailed`, `final` are history for the properties.

## 3. What the runs check

Bounds of the engine's runs are chosen so that a window of more than 10 and one
that is cut by `MaxBackSearch` or by an earlier search both occur; 10 is a literal
of the code, so ranges have at least 13 iterations. The `target` run is about a
strategy that switches in the midst of windows; of one that does not, with and
without control iterations, section 4 has the same properties as theorems.

| Run | Instance | Shows |
|---|---|---|
| `engine_session` | 24 test cases, MaxBackSearch 22, both lifetimes, all run options, switches, more machines than test cases | bounds of every search, no unsigned subtraction wraps, every restart of the target is verified, the logger's assertions, the inductive invariant, every run ends |
| `engine_refinement` | three configurations, all with control iterations every 5 and switches: from iteration 3 on; both lifetimes and all run options, machine 2 of 2; no reproduction | refinement of `FaultSearch`, and every search ends |
| `target` | iterations 9..22, control iteration every 5, MaxBackSearch 11, blocks of 7, two data sets; every bug, one spurious fault | a search replays what ran, in order, with the same data; windows are complete unless they are cut short; control iterations come first; reachable bugs are reproduced, and the saved range holds them |
| `storage` | a queue of two, two iterations, a fault, a pause, a Stop from outside, a database that throws at any moment | metrics in order and faults stored when reported (refinement of `MetricLog`); the row right when the queue is empty, while the job is paused, and at the end; nothing counted that could be lost; permits and queue agree; the engine's calls return |
| `internal_job` | two jobs, with or without a duration, four calls | no run escapes the monitor; a stopped job's row is final, also if its start had timed out and deleted it; the logger gets its `TestFinished`; a pause holds; Stop, Kill and the duration end a run; no abort inside `TestStarting` |
| `external_job` | two jobs of two test cases, three crashes, four calls | no test case is skipped by a restart; rows are final; kill and stop end the job; every call returns |
| `remote_agent` | two monitors, two glitches, two refusals, two crashes | an iteration in which nothing fails is monitored, sends its output, records its faults; a lost agent comes back; it is left before its machine stops |
| `two_phase` | two outputs an iteration, three troubles by the peer, two late callbacks, with and without a SendTimeout | final data is lost only to its own connection and never goes over that of the first attempt; nothing is left behind; every output ends, but for a write that is blocked for ever |
| `stop_never_answers` | one iteration, a Stop while the job is finished | violation: finding 1 |
| `killed_job_restarts` | one job, a crash, a kill | violation: finding 2 |
| `agent_lost` | a crash and a refusal | violation: finding 3 |
| `final_data_lost` | one output, one reset | violation: finding 4 |

Two crashes are needed for a reconnect that is interrupted by a restart; two
glitches for a request that is repeated and then lost; three troubles for a
connection of each phase and the retry.

The type invariants (`TypeOK`) are proved; what is more than a type in them is run
under a name of its own: `PermitsOK`, the semaphore of the storage queue; `LocksOK`,
the locks of the engine; `MonitorOK`, the monitor's lock and the one task that
watches a worker; `ContextsOK`, the contexts on an agent's server.

**Fairness.** *Engine*: `FairSpec` has weak fairness of `EngineStep`, everything
the engine's own thread does: the loop has no wait that depends on anybody else,
and an iteration is assumed to end (a state model that hangs is what the abort
timer is for). `RequestStop` is not fair. `RunEnds` needs a bounded range; with
the default stop of `uint.MaxValue` and a strategy without a count the code does
not promise an end. Faults may come on every pass. *Storage*: weak fairness of the
task, of each client's steps inside a call, and of the engine's steps once it has
begun to finish the job. *Jobs*: the threads run and the armed timer ticks;
parsing a pit and, in a worker, an iteration may hang, and nobody has to call.
*Agent*: requests time out, and whoever hosts the server starts it again. *Two
phases*: the engine's thread runs, the pool runs its callbacks; the peer need do
nothing. Opening and closing wait with timeouts; a write waits for `SendTimeout`, or
without a limit if that is -1, the default (TcpClientPublisher.cs:39). So no step is
fair that writes to a peer which reads no more, and `ActionEnds` says: every action
ends, or is blocked for ever in just that write.

`CHECK_DEADLOCK FALSE` stands where a system may stop: the storage after a failed
database, a worker that hangs, an agent's run that is over.

### Findings

1. *A Stop from outside never answers* if its entry comes after the null that ends
   the storage task. It waits without a timeout and holds the monitor's lock, so
   the monitor accepts no other command. `JobMonitorTests.cs:259` asserts that
   Stop returns.
2. *A killed job is started again* if the kill falls into the second that
   `MonitorTask` sleeps before a restart: it has looked at `_pendingKill` before.
3. *A client that fails to reconnect never tries again*: refused with 503, it has
   no URL and is not marked offline, and the exceptions that follow are ignored.
4. *An error of the first phase costs the final data*: `CloseClient` leaves
   `_isOpen` set, so the action's `open()` does nothing and its `output()` finds no
   client. The comment at `TwoPhaseRandomStrategy.cs:681` says the data will still
   be sent.

Deviations met on the way. The passing runs keep clear of them by their bounds, or
the property names the exception:

- *The first block is replayed with other data*: until the first switch the data
  set is the first one, never one that was drawn (`RandomStrategy.cs:411`). The
  `target` run starts after that block.
- *A window ends before the faulting test case* when that is the first of a block:
  the recording iteration that the strategy forces there satisfies
  `Engine.cs:790`, and `Engine.cs:874-883` do not ask which iteration ran. Without
  control iterations, or in a window of more than 10, the faulting test case is
  then never replayed, and the search may give up on a bug within its reach.
  `CutShort` says when, and `WindowIsComplete` and `BugIsReproduced` except just
  that; in the `target` run it happens, to the window of 11 that ends with 22.
- *A parallel machine replays another machine's test cases*: `Engine.cs:939` moves
  the loop, `lastReproFault` stays. For the same reason the first test case of its
  part may be fuzzed without its control iteration: the loop is moved before
  `lastControlIteration` is set, which then names the new place.
- *A Stop from outside replaces the final job*, which then has no stop date (the
  assertion at `AsyncDbCache.cs:408`); `ResultIsFinal` excludes it.
- *A database that throws* while the engine waits for its function leaves the
  engine waiting for ever.
- *After a Pause, Continue or Stop the row counts iterations* whose metrics are
  still in the queue, so that a crash at that moment loses them; `RowNeverAhead`
  excludes that time.
- *The callback of a closed socket closes the next connection*
  (`BufferedStreamPublisher.cs:96`), and *a client that failed half way through
  StartClient jams its publisher* for the rest of the run (`TcpPublisher.cs:37`);
  `FinalIsSent` and `NothingIsLeft` name both exceptions.
- *A write to a peer that reads no more never ends* with the default `SendTimeout`
  (`BufferedStreamPublisher.cs:339`), and the iteration with it; `ActionEnds` names
  this exception.
- *A start that has timed out leaves a job behind*: the web service reports an error,
  but the thread may go on to fuzz and insert the deleted row again
  (`JobLogger.cs:207`). The job stays under the monitor's control (`RunHasMonitor`) and
  its row gets final (`IdleMeansStopped`).

## 4. What is proved

`FuzzEngine_proofs` proves `Spec => []IInv` for all constants that satisfy
`EngineAssumption`, by the usual three facts, with one lemma per action. From it
follow, as theorems of their own: `TypeOK`, `SearchStaysInBounds`,
`FuzzingIsPastSearches`, `RestartIsVerified`, `LoggerAgrees`.

`SearchStaysInBounds` is not inductive: what a pass does to the counter is only
right if the flags left by the pass before agree with it. `IInv` therefore speaks
of `NextIteration`, the iteration that will run once the increment at the end of
the pass has been done:

- `SearchShape`: the window lies above the floor; no search starts with both a
  pending verification of the restart and a fault on a control iteration;
- `IterationShape`: floor < next iteration, and the next iteration is inside the
  window; if it is the one whose *control* iteration failed, it is a control
  iteration (the test case itself was never run);
- `FirstIterationShape`: until the count of the strategy is known, the run is on
  its first recording iteration, and a search there has nowhere to go (this is
  what makes the jump of a parallel run to its part safe);
- `RestartShape`, `FlagShape`: what the flags promise to the next pass;
- `RestartIsVerified` itself.

`OutputPhases_proofs` proves `Spec => []IInv` for every number of output actions,
troubles and late callbacks. `FinalIsSent` is not inductive either: that the final
data was lost only for the reasons it names depends on where the publisher was
left by the phases before. The strengthening has two parts:

- `PublisherInv`: at which places the publisher is open; that it has a buffer
  exactly while it is open (or about to be), a named client or a read under way
  only then; a lost client means an ended connection; a jammed one a closed
  publisher;
- `PhaseInv`: what a phase leaves to the next: nothing was written before a
  retry, and the action meets a connection of the first phase only after a failed
  write, when that connection has no client.

`FinalIsFresh`, `NothingIsLeft` and `ReadHasBuffer` follow from it;
`EventTellsEnd` and `FirstAtMostOnce` are parts of it. `FinalIsFresh` is about the
connection of the first attempt; that of the retry (TwoPhaseRandomStrategy.cs:651-668)
is closed by nobody, and the final data does go over it. One lemma per action takes
the four parts of `IInv` one after the other; where an action may throw, a first
step says where the exception leads.

**The refinement of `FaultSearch`.** `EngineSearch_proofs` proves `Spec =>
Search!Spec`: for all constants, every action of the loop is one step of the
abstract session or none. The lemmas are grouped by what the session sees:
`SessionStays` says which variables must stay for the session to stay, and serves
all steps it does not see; the start of a search, a longer window, the end of a
search, the next test case and the end of the run have one lemma each. `IInv`
supplies what the session asks of a step; one fact more is needed,
`RangeAsConfigured`: the start of the range changes only where a parallel run takes
its part. From the refinement follows `FloorNeverFalls`: the floor of the
searches only rises.

**The loop and its target.** `SessionTarget_proofs` rests on the invariant of the
loop: `TargetRunsLoop` says that the composition is a run of `FuzzEngine`, so that
`IInv` holds. Beside it:

- `SearchInv` holds in every run. A window is replayed in order because the test
  case that must come next (`Due`) is the one the loop will run next, at every
  place where that is not decided by a control iteration (`IsDue`): `OrderInv`. It
  needs to know that a restart is verified only in a session (`FaultFlagInv`), that
  without control iterations of its own a search meets one only right after its
  floor (`PlainInv`), and that a search for the fault of a control iteration stops
  short of the test case of that number (`StopShortInv`). `WindowInv` says where in
  a window control iterations are: the strategy forces one only where a block
  begins, since the block it knows is that of the last test case replayed or of the
  one to come (`BlockInv`, and the lemma `BlockBegins` on the arithmetic of blocks).
  With it no test case is left out of a window that is not cut short
  (`WindowsComplete`).
- `RunInv` holds of a machine that does not share the run. All test cases of the
  range up to the last one have been fuzzed (`HistoryInv`), so that a search finds
  what it replays; the control iteration of a number is run before the number is
  marked (`ControlInv`), which gives `ControlFirst`.
- `DataInv`: the data set applied is that of the block of the test case, and every
  test case was fuzzed with that of its block. With it `SessionsReplayed` has the
  whole of `ReplaysSession`: in order, from the first of the window, none left out,
  each with its data.
- `RangeInv`, for `ReportedRange`: what the target has got of its bug since a
  search restarted it is part of what this search has replayed.
- `CauseInv`, `RetraceInv`, for `BugsReproduced`: what is broken, and what a search
  is for, was caused by test cases up to the one the search begins at; in a window,
  from its restart on, the target is where the test cases that were replayed have
  brought it, and has shown the bug if they include all of it. A window that holds
  the bug and has replayed its last test case without a fault is then impossible,
  and a window that has failed for a bug that shows on control iterations has ended
  with one (`StopShortInv`).

The hypotheses of these theorems are the deviations of section 3. `ControlFirst`,
`SessionsReplayed` and `BugsReproduced` exclude `parallel`; the last two ask that the
strategy does not switch or that the run starts after the first block, whose data
is not its own. The constants of the `target` run satisfy them; without them TLC
finds the counterexamples. `WindowsComplete` and `ReportedRange` have none.

**The storage.** `AsyncDbCache_proofs` proves `Spec => []IInv` for every size of the
queue, any number of iterations, faults, pauses and stops, and a database that
fails at any moment. The properties follow from where things are:

- `EngineInv`, `EngineCallInv`, `WebCallInv`: which call a client makes at each of
  its places, and with what;
- `WaitInv`: the entry that a client waits for is in exactly one place, the queue or
  the hands of the task, so that a pulse wakes who it should;
- `EntryInv`: a close entry enters when the engine closes the cache;
- `BatchInv`: the batches between the last one stored and the last one queued are in
  the queue, each once (`NoneLost`) and in order (`InOrder`), though entries overtake
  each other at its front;
- `CalmInv`: while nothing has been put in front, no copy of the job counts a
  batch after the entry's own: with `BatchInv`, `RowNeverAhead`;
- `NewestInv`, `FinalInv`: the last entry has the job as it is, and the final one is
  the last: `RowIsCurrent` and `ResultIsFinal`.

`StorageImplementsLog` is the refinement of `MetricLog`: storing a batch and the
return of the report of a fault are its steps, all others stutter.

**Job control.** `InternalJob_proofs`: `RunHasMonitor`, `IdleMeansStopped` and
`TestIsFinished` are inductive together with `StartInv` (a start that holds the
monitor's lock finds no other run), `AbortInv` (who is about to abort the thread has
`_canAbortSync`, which keeps `TestStarting` away), `RowInv` (the row is final before
the runner is forgotten), `TestInv` (`TestFinished` comes before the clean-up) and
`RefusedInv` (a thread whose row was deleted before its first event gets no further
than its first event).
The abort, which may strike wherever the thread can be interrupted, is one action
and one lemma.

`ExternalJob_proofs`: `NothingSkipped` needs `CountInv`, how far the count in the row
may lag behind what the worker has run, and what the worker counts when a job of
`rangeStart` 0 goes on; `IdleMeansStopped` needs `StatusInv`, who has written
"Stopped" when the monitor's task comes to finish the job, and both need to know
that one command at most is under way (`PipeInv`) and that a worker's threads live
and die with it (`ThreadInv`).

**Agents.** `RemoteAgent_proofs` proves `IterationIsMonitored`, `OutputArrives`,
`FaultIsRecorded` and the action property `DisconnectsFirst`. Each says that if nothing
failed something is there on the server, so the invariant says at every place of
the engine what the client knows (`ClientInv`), what the server has then
(`ContextInv`, `PublisherInv`), and that whatever is missing has a failure behind it:
of a reconnect (`RejoinInv`), of this iteration or one that is made up for before
the next output (`OfflineInv`), of the collection of a fault (`HitInv`). `StrayInv`
bounds the contexts that a server keeps for nobody: one that the client will
give up is owed to a request that failed.

Only model-checked is liveness, which the prover does not reach: `RunEnds`, the part
of `ImplementsSession` that says that a search ends, `EngineCallReturns`,
`PauseHolds`, `EndsWhenTold`, `KillReturns`, `CallsReturn`, `Reconnects`,
`ActionEnds`.

## 5. Plan

1. (done) the engine's loop, the abstract session, the target.
2. (done) the storage queue and its abstract log.
3. (done) job control in both forms, with the engine's abort.
4. (done) the agents.
5. (done) the two-phase output; its theorems.
6. (done) Proofs: the loop implements `FaultSearch` (safety), the storage implements
   `MetricLog`; the invariants of all modules; what the search finds.
7. `MetricIds`: the numbering of names and states across iterations,
   reproductions and restarts.
8. `StateMachine`: the run of a state model, what control iterations compare.
9. `Publishing`: the input side of BufferedStreamPublisher, lifetime Session.
10. `Algorithms`: SliceRange partitions the range (all machines together),
    variable length numbers.

## 6. What is not modelled and why

Data: documents, mutations, cracking and generation are recursive
transformations whose state spaces a model checker does not reach, and no
property of the control here depends on them. Plug-ins around operating system
facilities (most monitors and publishers), the web service, the user interface
and the tools have little state of their own. Waiting times (`waitTime`,
`faultWaitTime`) are delays without effect on the state. `uint` overflow of the
iteration counter needs 2^32 test cases; the models bound the range instead, and
the invariants show that nothing wraps *below* zero.

Inside the modelled parts: the numbering of states and names in the storage; the
contents of logs and reports; a worker process that cannot be started; the agent
channels other than HTTP, the log sink's own connection and agents without
monitors; of the publisher, what is received, lifetime Session and
`NoWriteException`; the run of a state model, which
the engine's models have as the choice of an outcome. Most files of the
repository are vendored libraries, which are left aside.
