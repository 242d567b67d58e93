----------------------------- MODULE FuzzEngine -----------------------------
(***************************************************************************)
(* The main loop of the fuzzing engine: Engine.RunTest in                  *)
(* src/core/Core/Engine.cs, together with the part of RandomStrategy that  *)
(* decides when a recording iteration is needed                            *)
(* (src/pro/Core/MutationStrategies/RandomStrategy.cs) and the one flag    *)
(* JobLogger keeps between the fault events of the loop                    *)
(* (src/pro/Core/Loggers/JobLogger.cs).                                    *)
(*                                                                         *)
(* One pass of the loop is four steps, named by pc:                        *)
(*   "top"      the loop condition, and everything up to IterationStarting *)
(*   "running"  the state model runs, the monitors report faults           *)
(*   "judging"  what the faults (or their absence) mean for the search     *)
(*   "tail"     totals, the increment of iterationCount, the finally block *)
(* The loop runs on one thread; the only outside influence is the request  *)
(* to stop, which the loop reads at "top".                                 *)
(***************************************************************************)
EXTENDS Integers

CONSTANTS
  IterationStart,       \* max(1, rangeStart or skipToIteration)
  RangeStop,            \* rangeStop; uint.MaxValue without a range
  StrategyCount,        \* mutationStrategy.Count
  ControlEvery,         \* test.controlIteration, 0 for never
  MaxBackSearch,        \* test.MaxBackSearch
  Lifetimes,            \* the values that test.TargetLifetime may have
  DisableReproduction,  \* context.disableReproduction
  SwitchCount,          \* RandomStrategy.switchCount
  Switching,            \* some data model has two or more data sets
  RunModes,             \* the exclusive run options that may be given
  ParallelNum,          \* config.parallelNum
  ParallelTotal         \* config.parallelTotal

ASSUME EngineAssumption ==
  /\ IterationStart \in Nat \ {0}
  /\ RangeStop \in Nat
  /\ StrategyCount \in Nat
  /\ ControlEvery \in Nat
  /\ MaxBackSearch \in Nat
  /\ Lifetimes \subseteq {"Session", "Iteration"}
  /\ DisableReproduction \in BOOLEAN
  /\ SwitchCount \in Nat \ {0}
  /\ Switching \in BOOLEAN
  /\ RunModes \subseteq {"fuzz", "countOnly", "singleIteration", "parallel"}
  /\ ParallelNum \in Nat \ {0} /\ ParallelTotal \in Nat \ {0}
  /\ ParallelNum <= ParallelTotal
  \* parallel is refused together with a range
  /\ "parallel" \in RunModes => RangeStop >= StrategyCount

VARIABLES
  runMode, lifetime,         \* options of the run; they never change
  pc,                        \* where in the loop body the engine is
  continueFuzzing,           \* context.continueFuzzing
  iterationCount, iterationStop, totalKnown, lastControlIteration,
  lastReproFault, firstRun, controlAfterRepro, isReplayJump

options  == <<runMode, lifetime>>
loopVars == <<iterationCount, iterationStop, totalKnown, lastControlIteration,
              lastReproFault, firstRun, controlAfterRepro, isReplayJump>>

VARIABLES                    \* members of RunContext
  controlIteration, controlRecordingIteration, controlIterationAfterFault,
  faultOnPreviousIteration, faults,
  reproducingFault, reproducingInitialIteration, reproducingIterationJumpCount,
  reproducingControlIteration, reproducingControlRecordingIteration

flagVars  == <<controlIteration, controlRecordingIteration>>
reproVars == <<reproducingFault, reproducingInitialIteration,
               reproducingIterationJumpCount, reproducingControlIteration,
               reproducingControlRecordingIteration>>

VARIABLES
  lastSwitchIteration,       \* RandomStrategy; 0 while randomDataSet is null
  reproFaultHeld             \* JobLogger: _reproFault is not null

stateVars == <<options, continueFuzzing, loopVars, flagVars,
               controlIterationAfterFault, faultOnPreviousIteration, faults,
               reproVars, lastSwitchIteration, reproFaultHeld>>

vars == <<pc, stateVars>>

-----------------------------------------------------------------------------
Lesser(a, b) == IF a < b THEN a ELSE b
Bit(b) == IF b THEN 1 ELSE 0

Session == lifetime = "Session"

\* What a pass of the state model and the monitors can end with: nothing to
\* report; a fault; a fault of a monitor that demands a stop; a SoftException;
\* any other exception.
Outcomes == {"clean", "fault", "mustStop", "soft", "exception"}

\* The first iteration of the block of SwitchCount iterations that i is in.
GetSwitchIteration(i) == i - ((i - 1) % SwitchCount)

\* Part ParallelNum of 1..stop, cut in ParallelTotal parts; the last part takes
\* the remainder.
SliceRange(stop) ==
  LET slice == stop \div ParallelTotal
      last  == ParallelNum * slice
  IN [start |-> last - slice + 1,
      stop  |-> IF ParallelNum = ParallelTotal
                THEN last + (stop % ParallelTotal) ELSE last]

Init ==
  /\ runMode \in RunModes /\ lifetime \in Lifetimes
  /\ pc = "top"
  /\ continueFuzzing = TRUE
  /\ iterationCount = IterationStart
  /\ iterationStop = RangeStop
  /\ totalKnown = FALSE
  /\ lastControlIteration = 0
  /\ lastReproFault = IterationStart - 1
  /\ firstRun = TRUE
  /\ controlAfterRepro = FALSE /\ isReplayJump = FALSE
  /\ controlIteration = TRUE /\ controlRecordingIteration = TRUE
  /\ controlIterationAfterFault = FALSE
  /\ faultOnPreviousIteration = FALSE
  /\ faults = "none"
  /\ reproducingFault = FALSE
  /\ reproducingInitialIteration = 0
  /\ reproducingIterationJumpCount = 0
  /\ reproducingControlIteration = FALSE
  /\ reproducingControlRecordingIteration = FALSE
  /\ lastSwitchIteration = 0
  /\ reproFaultHeld = FALSE

-----------------------------------------------------------------------------
(* The top of the loop.                                                    *)

LoopCondition ==
  (firstRun \/ iterationCount <= iterationStop) /\ continueFuzzing

\* Mutant: the control iterations come one too late.
PeriodicControl_Late ==
  /\ ControlEvery > 0 /\ ~reproducingFault
  /\ iterationCount % ControlEvery = 0
  /\ lastControlIteration # iterationCount

\* A control iteration every ControlEvery iterations, once per iteration, and
\* never while a fault is being reproduced.
PeriodicControl ==
  /\ ControlEvery > 0 /\ ~reproducingFault
  /\ ControlEvery = 1 \/ iterationCount % ControlEvery = 1
  /\ lastControlIteration # iterationCount

\* parallel and count need a deterministic strategy, which never switches.
Switches == Switching /\ runMode \notin {"countOnly", "parallel"}

\* Mutant: a switch is noticed on the way forward only.
SeedRandomDataSet_ForwardOnly ==
  \/ lastSwitchIteration = 0
  \/ Switches /\ lastSwitchIteration < GetSwitchIteration(iterationCount)

\* RandomStrategy reseeds its choice of data sets when the iteration it is given
\* lies in another block than the one before, and on the first call.
SeedRandomDataSet ==
  \/ lastSwitchIteration = 0
  \/ Switches /\ lastSwitchIteration # GetSwitchIteration(iterationCount)

\* The setter of strategy.Iteration may turn the iteration into a recording one.
SetStrategyIteration ==
  /\ controlIteration' =
       (controlIteration \/ PeriodicControl \/ SeedRandomDataSet)
  /\ controlRecordingIteration' =
       (controlRecordingIteration \/ SeedRandomDataSet)
  /\ lastSwitchIteration' = IF SeedRandomDataSet
                            THEN GetSwitchIteration(iterationCount)
                            ELSE lastSwitchIteration

BeginIteration ==
  /\ pc = "top" /\ LoopCondition
  /\ SetStrategyIteration
  /\ ~(runMode = "singleIteration" /\ ~controlIteration')
  /\ pc' = "running"
  /\ faultOnPreviousIteration' = (faults # "none" \/ isReplayJump)
  /\ faults' = "none"
  /\ isReplayJump' = FALSE
  /\ UNCHANGED <<options, continueFuzzing, iterationCount, iterationStop,
                 totalKnown, lastControlIteration, lastReproFault, firstRun,
                 controlAfterRepro, controlIterationAfterFault, reproVars,
                 reproFaultHeld>>

\* singleIteration: the run is over once the control iteration has passed.
StopBeforeFuzzing ==
  /\ pc = "top" /\ LoopCondition
  /\ SetStrategyIteration
  /\ runMode = "singleIteration" /\ ~controlIteration'
  /\ pc' = "done"
  /\ UNCHANGED <<options, continueFuzzing, loopVars,
                 controlIterationAfterFault, faultOnPreviousIteration, faults,
                 reproVars, reproFaultHeld>>

LeaveLoop ==
  /\ pc = "top" /\ ~LoopCondition
  /\ pc' = "done"
  /\ UNCHANGED stateVars

-----------------------------------------------------------------------------
(* The iteration runs.  A SoftException ends the run on the first          *)
(* iteration, is a fault on any later control iteration and is nothing on  *)
(* a fuzzing iteration.  (firstRun is reset here, not at the top: it       *)
(* stands for the local isFirst as well.)                                  *)

Execute(outcome) ==
  LET broken == outcome = "exception" \/ (outcome = "soft" /\ firstRun)
  IN /\ pc = "running"
     /\ pc' = IF broken THEN "error" ELSE "judging"
     /\ faults' = CASE broken -> "none"
                    [] outcome = "mustStop" -> "mustStop"
                    [] outcome = "fault" -> "some"
                    [] outcome = "soft" /\ controlIteration -> "some"
                    [] OTHER -> "none"
     /\ firstRun' = FALSE
     /\ UNCHANGED <<options, continueFuzzing, iterationCount, iterationStop,
                    totalKnown, lastControlIteration, lastReproFault,
                    controlAfterRepro, isReplayJump, flagVars,
                    controlIterationAfterFault, faultOnPreviousIteration,
                    reproVars, lastSwitchIteration, reproFaultHeld>>

-----------------------------------------------------------------------------
(* The iteration is judged: a fault was found.                             *)

\* The search a fault belongs to: the current one, or the one that starts here.
Initial     == IF reproducingFault THEN reproducingInitialIteration
                                   ELSE iterationCount
JumpCount   == IF reproducingFault THEN reproducingIterationJumpCount ELSE 0
OnControl   == IF reproducingFault THEN reproducingControlIteration
                                   ELSE controlIteration
OnRecording == IF reproducingFault THEN reproducingControlRecordingIteration
                                   ELSE controlRecordingIteration

RememberSearch ==
  /\ reproducingInitialIteration' = Initial
  /\ reproducingControlIteration' = OnControl
  /\ reproducingControlRecordingIteration' = OnRecording

\* Mutant: the test case after a failed control iteration counts as searched.
SearchedUpTo_TooFar == Initial

\* Mutant: the last test case of the search does not.
SearchedUpTo_TooShort == Initial - 1

\* How far a later search may not go back beyond: the last iteration of this
\* search, or the one before it if only its control iteration has run.
SearchedUpTo == Initial - Bit(OnControl)

\* Mutant: fuzzing goes on, whatever kind of iteration the fault was found on.
ResumeAtFault_Fuzzing ==
  /\ iterationCount' = Initial
  /\ controlIteration' = FALSE
  /\ controlRecordingIteration' = FALSE
  /\ reproducingFault' = FALSE

\* A search that ends leaves the loop on the iteration the fault was found on.
ResumeAtFault ==
  /\ iterationCount' = Initial
  /\ controlIteration' = OnControl
  /\ controlRecordingIteration' = OnRecording
  /\ reproducingFault' = FALSE

\* First sight of the fault.  A session target is restarted, so a control
\* iteration has to show that the restart worked.
StartReproduction ==
  /\ pc = "judging" /\ faults # "none"
  /\ ~reproducingFault /\ ~DisableReproduction
  /\ RememberSearch
  /\ reproducingIterationJumpCount' = 0
  /\ reproducingFault' = TRUE
  /\ controlAfterRepro' = FALSE
  /\ controlIterationAfterFault' = IF Session THEN ~controlIteration
                                              ELSE controlIterationAfterFault
  /\ controlIteration' = (Session \/ controlIteration)
  /\ reproFaultHeld' = TRUE
  /\ pc' = "tail"
  /\ UNCHANGED <<options, continueFuzzing, iterationCount, iterationStop,
                 totalKnown, lastControlIteration, lastReproFault, firstRun,
                 isReplayJump, controlRecordingIteration,
                 faultOnPreviousIteration, faults, lastSwitchIteration>>

\* Faults that end the run once they are reported.
FaultIsFatal ==
  \/ ~Session /\ (controlIteration \/ controlRecordingIteration)
  \/ /\ Session /\ (controlIteration \/ controlRecordingIteration)
     /\ OnControl /\ JumpCount = 0
  \/ controlIterationAfterFault

FaultReported == pc = "judging" /\ faults # "none"
                 /\ (reproducingFault \/ DisableReproduction)

ReportFatalFault ==
  /\ FaultReported /\ FaultIsFatal
  /\ RememberSearch
  /\ reproducingIterationJumpCount' = JumpCount
  /\ reproFaultHeld' = FALSE
  /\ pc' = "error"
  /\ UNCHANGED <<options, continueFuzzing, loopVars, flagVars,
                 controlIterationAfterFault, faultOnPreviousIteration, faults,
                 reproducingFault, lastSwitchIteration>>

\* The fault is reported and fuzzing goes on where it was left.
ReportFault ==
  /\ FaultReported /\ ~FaultIsFatal
  /\ RememberSearch
  /\ lastReproFault' = SearchedUpTo
  /\ controlAfterRepro' = FALSE
  /\ ResumeAtFault
  /\ reproducingIterationJumpCount' = 0
  /\ controlIterationAfterFault' = (Session \/ controlIterationAfterFault)
  /\ reproFaultHeld' = FALSE
  /\ pc' = "tail"
  /\ UNCHANGED <<options, continueFuzzing, iterationStop, totalKnown,
                 lastControlIteration, firstRun, isReplayJump,
                 faultOnPreviousIteration, faults, lastSwitchIteration>>

-----------------------------------------------------------------------------
(* The iteration is judged: no fault was found.                            *)

NoFault == pc = "judging" /\ faults = "none"

KeepFuzzing ==
  /\ NoFault /\ ~reproducingFault
  /\ pc' = "tail"
  /\ UNCHANGED stateVars

\* A target that is restarted for every iteration: one attempt is enough.
AttemptFailed ==
  /\ NoFault /\ reproducingFault /\ ~Session
  /\ ResumeAtFault
  /\ reproducingControlIteration' = FALSE
  /\ reproducingControlRecordingIteration' = FALSE
  /\ reproFaultHeld' = FALSE
  /\ pc' = "tail"
  /\ UNCHANGED <<options, continueFuzzing, iterationStop, totalKnown,
                 lastControlIteration, lastReproFault, firstRun,
                 controlAfterRepro, isReplayJump, controlIterationAfterFault,
                 faultOnPreviousIteration, faults,
                 reproducingInitialIteration, reproducingIterationJumpCount,
                 lastSwitchIteration>>

Searching == NoFault /\ reproducingFault /\ Session

\* What no step of the search touches.
SearchFrame ==
  UNCHANGED <<options, continueFuzzing, iterationStop, totalKnown,
              lastControlIteration, firstRun, faultOnPreviousIteration,
              faults, lastSwitchIteration>>

\* Mutant: the increment at the end of the pass is forgotten.
FuzzAfterControl_Next ==
  /\ controlIteration' = FALSE
  /\ UNCHANGED iterationCount

\* A control iteration is done; the test case of the same number follows.
FuzzAfterControl ==
  /\ controlIteration' = FALSE
  /\ iterationCount' = iterationCount - 1

\* The control iteration after the restart passed: retry the test case.
RestartVerified ==
  /\ Searching /\ controlIterationAfterFault
  /\ controlIterationAfterFault' = FALSE
  /\ FuzzAfterControl
  /\ pc' = "tail"
  /\ SearchFrame
  /\ UNCHANGED <<lastReproFault, controlAfterRepro, isReplayJump,
                 controlRecordingIteration, reproVars, reproFaultHeld>>

\* Mutant: a window ends before its last test case.
AtWindowEnd_Early ==
  /\ iterationCount + 1 >= reproducingInitialIteration
  /\ \/ ControlEvery = 0
     \/ controlIteration

\* The last iteration of a replay window: without periodic control iterations
\* the one the fault was found on, with them the control iteration after it.
AtWindowEnd ==
  /\ iterationCount = reproducingInitialIteration
  /\ \/ ControlEvery = 0
     \/ controlIteration /\ (reproducingControlIteration # controlAfterRepro)

\* Mutants: a search reaches the end of the one before; it stays one short of
\* it.
MaxJump_TooFar ==
  Lesser(MaxBackSearch, reproducingInitialIteration - lastReproFault)

MaxJump_TooShort ==
  Lesser(MaxBackSearch, reproducingInitialIteration - lastReproFault - 2)

\* How far the current search may go back.
MaxJump ==
  Lesser(MaxBackSearch, reproducingInitialIteration - lastReproFault - 1)

WindowFailed == Searching /\ ~controlIterationAfterFault /\ AtWindowEnd

GiveUpSearch ==
  /\ WindowFailed /\ reproducingIterationJumpCount >= MaxJump
  /\ lastReproFault' = SearchedUpTo
  /\ ResumeAtFault
  /\ controlAfterRepro' = FALSE
  /\ reproducingInitialIteration' = 0
  /\ reproducingIterationJumpCount' = 0
  /\ reproducingControlIteration' = FALSE
  /\ reproducingControlRecordingIteration' = FALSE
  /\ reproFaultHeld' = FALSE
  /\ pc' = "tail"
  /\ SearchFrame
  /\ UNCHANGED <<isReplayJump, controlIterationAfterFault>>

\* Mutant: the first window does not grow.
NextJump_Stuck == Lesser(MaxJump, 2 * reproducingIterationJumpCount)

\* The next window: 10 iterations back, then twice as many each time, and no
\* more than MaxJump.  A window that starts with a restart of the target starts
\* with a control iteration too.
NextJump == Lesser(MaxJump, IF reproducingIterationJumpCount = 0 THEN 10
                            ELSE 2 * reproducingIterationJumpCount)

RestartsTarget ==
  reproducingIterationJumpCount # 0 \/ ~reproducingControlIteration

\* Mutant: a window below the limit starts one test case early.
WindowStart_OneEarly ==
  reproducingInitialIteration - NextJump - Bit(NextJump < MaxJump)

WindowStart ==
  reproducingInitialIteration - NextJump - 1 + Bit(RestartsTarget)

JumpBack ==
  /\ WindowFailed /\ reproducingIterationJumpCount < MaxJump
  /\ reproducingIterationJumpCount' = NextJump
  /\ isReplayJump' = RestartsTarget
  /\ iterationCount' = WindowStart
  /\ controlIteration' = RestartsTarget
  /\ controlRecordingIteration' = FALSE
  /\ controlAfterRepro' = FALSE
  /\ pc' = "tail"
  /\ SearchFrame
  /\ UNCHANGED <<lastReproFault, controlIterationAfterFault, reproducingFault,
                 reproducingInitialIteration, reproducingControlIteration,
                 reproducingControlRecordingIteration, reproFaultHeld>>

-----------------------------------------------------------------------------
(* Inside a replay window.                                                 *)

InWindow == Searching /\ ~controlIterationAfterFault /\ ~AtWindowEnd

\* Are control iterations part of the window?
WindowHasControls == ControlEvery > 0 \/ reproducingControlRecordingIteration

WindowFrame ==
  /\ pc' = "tail"
  /\ controlRecordingIteration' = FALSE
  /\ SearchFrame
  /\ UNCHANGED <<lastReproFault, isReplayJump, controlIterationAfterFault,
                 reproVars, reproFaultHeld>>

\* Windows of at most 10 have a control iteration after every test case.
ShallowStep ==
  /\ InWindow /\ WindowHasControls /\ reproducingIterationJumpCount <= 10
  /\ \/ /\ ~controlIteration
        /\ LET last == iterationCount = reproducingInitialIteration
           IN /\ iterationCount' = iterationCount + Bit(~last)
              /\ controlAfterRepro' = last
        /\ controlIteration' = TRUE
     \/ /\ controlIteration
        /\ FuzzAfterControl
        /\ controlAfterRepro' = FALSE
  /\ WindowFrame

\* Larger windows have one at the end: on the iteration after the last test case
\* if the fault was found on a control iteration, on the same one otherwise.
DeepStep ==
  LET next == iterationCount + Bit(reproducingControlIteration)
      last == next = reproducingInitialIteration
  IN /\ InWindow /\ WindowHasControls /\ reproducingIterationJumpCount > 10
     /\ \/ /\ last
           /\ controlIteration' = TRUE
           /\ iterationCount' = next
           /\ controlAfterRepro' = ~reproducingControlIteration
        \/ /\ ~last /\ controlIteration
           /\ FuzzAfterControl
           /\ controlAfterRepro' = FALSE
        \/ /\ ~last /\ ~controlIteration
           /\ controlAfterRepro' = FALSE
           /\ UNCHANGED <<iterationCount, controlIteration>>
     /\ WindowFrame

\* Windows without control iterations, but for those the strategy asked for.
PlainStep ==
  /\ InWindow /\ ~WindowHasControls
  /\ iterationCount' = iterationCount - Bit(controlIteration)
  /\ controlIteration' = FALSE
  /\ WindowFrame
  /\ UNCHANGED controlAfterRepro

-----------------------------------------------------------------------------
(* The tail of the loop body.                                              *)

MustStop ==
  /\ pc = "tail" /\ faults = "mustStop"
  /\ pc' = "error"
  /\ UNCHANGED stateVars

\* The search has just begun: the next iteration is already set up.
ContinueLoop ==
  /\ pc = "tail" /\ faults = "some" /\ reproducingFault
  /\ pc' = "top"
  /\ UNCHANGED stateVars

AtTotals == /\ pc = "tail" /\ faults # "mustStop"
            /\ ~(faults = "some" /\ reproducingFault)

\* The first recording iteration tells how many iterations there are.
LearnsTotal == controlIteration /\ controlRecordingIteration /\ ~totalKnown

CountAndStop ==
  /\ AtTotals /\ LearnsTotal /\ runMode = "countOnly"
  /\ pc' = "done"
  /\ UNCHANGED stateVars

TooManyMachines ==
  /\ AtTotals /\ LearnsTotal /\ runMode = "parallel"
  /\ StrategyCount < ParallelTotal
  /\ pc' = "error"
  /\ UNCHANGED stateVars

\* Set the range to the total, or to this machine's part of it.
SetTotals ==
  LET stop  == Lesser(StrategyCount, iterationStop)
      slice == SliceRange(stop)
  IN /\ totalKnown' = TRUE
     /\ IF runMode = "parallel"
        THEN /\ iterationStop' = slice.stop
             /\ iterationCount' = IF IterationStart > slice.start
                                  THEN IterationStart ELSE slice.start
        ELSE /\ iterationStop' = stop
             /\ UNCHANGED iterationCount

\* Mutants: the flags are set for the next pass in the midst of a search, too; a
\* control iteration is followed by another one.
SetNextFlags_InSearch ==
  /\ lastControlIteration' = IF controlIteration THEN iterationCount'
                             ELSE lastControlIteration
  /\ controlIterationAfterFault' = FALSE
  /\ controlIteration' = controlIterationAfterFault
  /\ controlRecordingIteration' =
       (controlIterationAfterFault /\ controlRecordingIteration)

SetNextFlags_Kept ==
  /\ lastControlIteration' = iterationCount'
  /\ UNCHANGED <<flagVars, controlIterationAfterFault>>

\* The finally block: outside of a search, the flags are set for the next pass.
\* It also runs when the loop is left, by its tests or by an exception; nothing
\* reads the flags after that.
SetNextFlags ==
  IF reproducingFault
  THEN UNCHANGED <<lastControlIteration, flagVars, controlIterationAfterFault>>
  ELSE /\ lastControlIteration' = IF controlIteration THEN iterationCount'
                                  ELSE lastControlIteration
       /\ controlIterationAfterFault' = FALSE
       /\ controlIteration' = controlIterationAfterFault
       /\ controlRecordingIteration' =
            (controlIterationAfterFault /\ controlRecordingIteration)

Advance ==
  /\ AtTotals
  /\ \/ /\ LearnsTotal
        /\ runMode # "countOnly"
        /\ ~(runMode = "parallel" /\ StrategyCount < ParallelTotal)
        /\ SetTotals
     \/ /\ ~LearnsTotal
        /\ iterationCount' = iterationCount + Bit(~controlIteration)
        /\ UNCHANGED <<iterationStop, totalKnown>>
  /\ SetNextFlags
  /\ pc' = "top"
  /\ UNCHANGED <<options, continueFuzzing, lastReproFault, firstRun,
                 controlAfterRepro, isReplayJump, faultOnPreviousIteration,
                 faults, reproVars, lastSwitchIteration, reproFaultHeld>>

-----------------------------------------------------------------------------
Judge ==
  \/ StartReproduction \/ ReportFatalFault \/ ReportFault
  \/ KeepFuzzing \/ AttemptFailed
  \/ RestartVerified \/ GiveUpSearch \/ JumpBack
  \/ ShallowStep \/ DeepStep \/ PlainStep

LoopTail ==
  \/ MustStop \/ ContinueLoop \/ CountAndStop \/ TooManyMachines \/ Advance

\* Everything but the run of an iteration, whose outcome is the target's.
LoopStep ==
  BeginIteration \/ StopBeforeFuzzing \/ LeaveLoop \/ Judge \/ LoopTail

\* Another thread asks the engine to stop: the job's Stop, or the first tick of
\* the duration timer.
RequestStop ==
  /\ continueFuzzing /\ pc \notin {"done", "error"}
  /\ continueFuzzing' = FALSE
  /\ UNCHANGED <<options, pc, loopVars, flagVars, controlIterationAfterFault,
                 faultOnPreviousIteration, faults, reproVars,
                 lastSwitchIteration, reproFaultHeld>>

\* RunTest has returned or thrown.
Terminated == pc \in {"done", "error"} /\ UNCHANGED vars

EngineStep == LoopStep \/ \E outcome \in Outcomes : Execute(outcome)

Next == EngineStep \/ RequestStop \/ Terminated

Spec == Init /\ [][Next]_vars

\* The engine's thread keeps running; nobody has to stop it.
FairSpec == Spec /\ WF_vars(EngineStep)

-----------------------------------------------------------------------------
(* Properties.                                                             *)

Positions == {"top", "running", "judging", "tail", "done", "error"}

PlacesOK ==
  /\ runMode \in RunModes /\ lifetime \in Lifetimes
  /\ pc \in Positions
  /\ faults \in {"none", "some", "mustStop"}

CountersOK ==
  /\ iterationCount \in Nat /\ iterationStop \in Nat
  /\ lastControlIteration \in Nat /\ lastReproFault \in Nat
  /\ reproducingInitialIteration \in Nat
  /\ reproducingIterationJumpCount \in Nat
  /\ lastSwitchIteration \in Nat

FlagsOK ==
  /\ continueFuzzing \in BOOLEAN /\ totalKnown \in BOOLEAN
  /\ firstRun \in BOOLEAN /\ controlAfterRepro \in BOOLEAN
  /\ isReplayJump \in BOOLEAN
  /\ controlIteration \in BOOLEAN /\ controlRecordingIteration \in BOOLEAN
  /\ controlIterationAfterFault \in BOOLEAN
  /\ faultOnPreviousIteration \in BOOLEAN
  /\ reproducingFault \in BOOLEAN
  /\ reproducingControlIteration \in BOOLEAN
  /\ reproducingControlRecordingIteration \in BOOLEAN
  /\ reproFaultHeld \in BOOLEAN

\* Types.  iterationCount may be 0 between the decrement in a search and the
\* increment at the end of the pass.
TypeOK == PlacesOK /\ CountersOK /\ FlagsOK

\* A search replays nothing beyond the fault, nothing more than MaxBackSearch
\* iterations before it, and nothing at or before the point an earlier search
\* has ended at: the bounds of Engine.cs:797, whose unsigned subtractions must
\* not wrap around.
SearchStaysInBounds ==
  (reproducingFault /\ pc \in {"top", "running", "judging"}) =>
    /\ lastReproFault < iterationCount
    /\ iterationCount <= reproducingInitialIteration
    /\ reproducingInitialIteration - MaxBackSearch <= iterationCount

\* Whatever the strategy is asked for lies past everything that an ended search
\* has covered; in particular it is at least 1 (the strategies assert that:
\* RandomStrategy.cs:386, Sequential.cs).
FuzzingIsPastSearches == pc = "running" => lastReproFault < iterationCount

\* A session target that was restarted gets a control iteration before any other
\* test case (the assertion at Engine.cs:539).
RestartIsVerified ==
  (pc = "running" /\ Session /\ faultOnPreviousIteration) => controlIteration

\* The assertions of JobLogger.cs:361, 506 and 514: a fault is held exactly
\* while the engine tries to reproduce it, and the first attempt replays the
\* faulting iteration alone.
LoggerAgrees ==
  /\ pc # "error" => reproFaultHeld = reproducingFault
  /\ (pc = "running" /\ reproducingFault /\ reproducingIterationJumpCount = 0)
       => iterationCount = reproducingInitialIteration

\* The run of a bounded range ends, whatever faults are found on the way.
RunEnds == <>(pc \in {"done", "error"})

-----------------------------------------------------------------------------
(* The inductive invariant.                                                *)

\* The iteration that the next pass will run: at "tail" the increment is still
\* to come, but for a search that has just begun.
NextIteration ==
  IF pc = "tail" /\ ~(reproducingFault /\ faults # "none")
  THEN iterationCount + Bit(~controlIteration)
  ELSE iterationCount

\* A window lies between the floor of the search and the fault.
SearchShape ==
  reproducingFault =>
    /\ reproducingIterationJumpCount <= MaxBackSearch
    /\ lastReproFault <
         reproducingInitialIteration - reproducingIterationJumpCount
    /\ ~Session => reproducingIterationJumpCount = 0
    /\ controlIterationAfterFault => ~reproducingControlIteration
    /\ reproducingControlIteration => ~controlAfterRepro

IterationShape ==
  pc \in {"top", "running", "judging", "tail"} =>
    /\ lastReproFault < NextIteration
    /\ reproducingFault =>
         /\ reproducingInitialIteration - reproducingIterationJumpCount
              <= NextIteration
         /\ NextIteration <= reproducingInitialIteration
         \* the test case whose control iteration failed is not replayed
         /\ (ControlEvery > 0 /\ Session /\ reproducingControlIteration
               /\ NextIteration = reproducingInitialIteration)
              => controlIteration

\* Until the strategy's count is known, the first recording iteration is on.
FirstIterationShape ==
  (~totalKnown /\ pc \in {"top", "running", "judging", "tail"}) =>
    /\ controlIteration /\ controlRecordingIteration
    /\ lastReproFault = IterationStart - 1
    /\ iterationCount = IterationStart
    /\ reproducingFault =>
         /\ pc = "tail" => faults # "none"
         /\ reproducingInitialIteration = IterationStart
         /\ reproducingControlIteration
         /\ reproducingControlRecordingIteration

\* After a fault, and at the start of a window, the next iteration is a control
\* iteration.
RestartShape ==
  /\ pc \in {"running", "judging"} => ~isReplayJump
  /\ (pc = "top" /\ Session /\ (faults # "none" \/ isReplayJump))
       => controlIteration
  /\ (pc = "tail" /\ Session) =>
       /\ isReplayJump => reproducingFault /\ controlIteration
       /\ faults # "none" => IF reproducingFault THEN controlIteration
                             ELSE controlIterationAfterFault

FlagShape ==
  /\ (pc \in {"top", "running", "judging"} /\ ~reproducingFault)
       => ~controlIterationAfterFault
  /\ pc # "error" => reproFaultHeld = reproducingFault

IInv ==
  /\ TypeOK
  /\ SearchShape /\ IterationShape /\ FirstIterationShape
  /\ RestartShape /\ FlagShape
  /\ RestartIsVerified

=============================================================================
