-------------------------- MODULE FuzzEngine_proofs --------------------------
(***************************************************************************)
(* The inductive invariant IInv of the engine's loop holds for all values  *)
(* of the constants, and the properties that follow from it.  One lemma    *)
(* for every action of FuzzEngine says that it keeps IInv; a lemma first   *)
(* gives the parts of IInv that the action leaves alone, then the others   *)
(* one by one.                                                             *)
(***************************************************************************)
EXTENDS FuzzEngine, TLAPS

-----------------------------------------------------------------------------
(* Facts about operators of the model.                                     *)

\* The first iteration of a block has a number from 1 on.
LEMMA SwitchIterationType ==
  ASSUME NEW i \in Nat \ {0}
  PROVE  GetSwitchIteration(i) \in Nat \ {0}
<1>1. SwitchCount \in Nat \ {0}
  BY EngineAssumption
<1>2. (i - 1) % SwitchCount \in Nat /\ (i - 1) % SwitchCount <= i - 1
  BY <1>1
<1> QED
  BY <1>2 DEF GetSwitchIteration

\* The strategy may turn an iteration into a recording iteration, never the
\* other way round.
LEMMA StrategyFacts ==
  ASSUME IInv, pc = "top", SetStrategyIteration
  PROVE  /\ lastSwitchIteration' \in Nat
         /\ controlIteration' \in BOOLEAN
         /\ controlRecordingIteration' \in BOOLEAN
         /\ controlIteration => controlIteration'
         /\ controlRecordingIteration => controlRecordingIteration'
<1>1. iterationCount \in Nat \ {0}
  BY DEF IInv, TypeOK, CountersOK, IterationShape, NextIteration
<1>2. GetSwitchIteration(iterationCount) \in Nat
  BY <1>1, SwitchIterationType
<1>3. lastSwitchIteration \in Nat
  BY DEF IInv, TypeOK, CountersOK
<1>4. lastSwitchIteration' \in Nat
  BY <1>2, <1>3 DEF SetStrategyIteration
<1>5. /\ controlIteration' \in BOOLEAN
      /\ controlRecordingIteration' \in BOOLEAN
      /\ controlIteration => controlIteration'
      /\ controlRecordingIteration => controlRecordingIteration'
  BY DEF SetStrategyIteration
<1> QED
  BY <1>4, <1>5

\* A search that goes on inside a window has passed the first iteration of the
\* run, so the strategy's count is known.
LEMMA WindowKnown ==
  ASSUME IInv, InWindow
  PROVE  totalKnown
<1>1. AtWindowEnd \/ totalKnown
  BY DEF IInv, TypeOK, FlagsOK, SearchShape, FirstIterationShape, InWindow,
         Searching, NoFault, AtWindowEnd
<1> QED
  BY <1>1 DEF InWindow

-----------------------------------------------------------------------------
(* The initial state.                                                      *)

\* The loop is entered with IInv: no search, the floor right below the first
\* iteration, which is a recording iteration.
LEMMA InitIInv == Init => IInv
<1> SUFFICES ASSUME Init PROVE IInv
  OBVIOUS
<1> USE EngineAssumption DEF Init
<1>1. PlacesOK /\ FlagsOK
  BY DEF PlacesOK, Positions, FlagsOK
<1>2. CountersOK
  BY DEF CountersOK
<1>3. SearchShape
  BY DEF SearchShape
<1>4. IterationShape
  BY DEF IterationShape, NextIteration
<1>5. FirstIterationShape
  BY DEF FirstIterationShape
<1>6. RestartShape
  BY DEF RestartShape
<1>7. FlagShape /\ RestartIsVerified
  BY DEF FlagShape, RestartIsVerified
<1> QED
  BY <1>1, <1>2, <1>3, <1>4, <1>5, <1>6, <1>7 DEF IInv, TypeOK

-----------------------------------------------------------------------------
(* The actions.                                                            *)

\* The setter of the strategy's iteration and FaultOnPreviousIteration.
LEMMA BeginIterationKeeps ==
  ASSUME IInv, BeginIteration
  PROVE  IInv'
<1>1. PlacesOK'
  BY DEF BeginIteration, Positions, TypeOK, PlacesOK, IInv, options
<1>2. SearchShape' /\ RestartShape' /\ FlagShape'
  BY DEF BeginIteration, reproVars, SearchShape, RestartShape, FlagShape, IInv,
       Session, options
<1>3. CountersOK'
  BY StrategyFacts DEF BeginIteration, reproVars, TypeOK, CountersOK, IInv
<1>4. FlagsOK'
  BY StrategyFacts DEF BeginIteration, reproVars, TypeOK, FlagsOK, IInv
<1>5. IterationShape'
  BY StrategyFacts DEF BeginIteration, reproVars, IterationShape, IInv,
       NextIteration, Session, options
<1>6. FirstIterationShape'
  BY StrategyFacts DEF BeginIteration, reproVars, FirstIterationShape, IInv
<1>7. RestartIsVerified'
  BY StrategyFacts DEF BeginIteration, RestartShape, RestartIsVerified, IInv,
       Session, options
<1> QED
  BY <1>1, <1>2, <1>3, <1>4, <1>5, <1>6, <1>7 DEF IInv, TypeOK

\* A dry run leaves the loop at the first test case.
LEMMA StopBeforeFuzzingKeeps ==
  ASSUME IInv, StopBeforeFuzzing
  PROVE  IInv'
<1>1. PlacesOK'
  BY DEF StopBeforeFuzzing, Positions, TypeOK, PlacesOK, IInv, options
<1>2. /\ SearchShape' /\ IterationShape' /\ FirstIterationShape'
      /\ RestartShape' /\ FlagShape' /\ RestartIsVerified'
  BY DEF StopBeforeFuzzing, loopVars, reproVars, SearchShape, IterationShape,
       FirstIterationShape, RestartShape, FlagShape, RestartIsVerified, IInv,
       Session, options
<1>3. CountersOK'
  BY StrategyFacts DEF StopBeforeFuzzing, loopVars, reproVars, TypeOK,
       CountersOK, IInv
<1>4. FlagsOK'
  BY StrategyFacts DEF StopBeforeFuzzing, loopVars, reproVars, TypeOK, FlagsOK,
       IInv
<1> QED
  BY <1>1, <1>2, <1>3, <1>4 DEF IInv, TypeOK

\* The loop condition is false.
LEMMA LeaveLoopKeeps ==
  ASSUME IInv, LeaveLoop
  PROVE  IInv'
<1>1. PlacesOK' /\ CountersOK' /\ FlagsOK'
  BY DEF LeaveLoop, stateVars, Positions, loopVars, reproVars, flagVars,
       TypeOK, PlacesOK, CountersOK, FlagsOK, IInv, options
<1>2. /\ SearchShape' /\ IterationShape' /\ FirstIterationShape'
      /\ RestartShape' /\ FlagShape' /\ RestartIsVerified'
  BY DEF LeaveLoop, stateVars, loopVars, reproVars, SearchShape,
       IterationShape, FirstIterationShape, RestartShape, FlagShape,
       RestartIsVerified, IInv, Session, options
<1> QED
  BY <1>1, <1>2 DEF IInv, TypeOK

\* An iteration, whatever its outcome.
LEMMA ExecuteKeeps ==
  ASSUME IInv, NEW outcome \in Outcomes, Execute(outcome)
  PROVE  IInv'
<1>1. PlacesOK'
  BY DEF Execute, Positions, TypeOK, PlacesOK, IInv, options
<1>2. CountersOK'
  BY DEF Execute, reproVars, TypeOK, CountersOK, IInv
<1>3. FlagsOK'
  BY DEF Execute, flagVars, reproVars, TypeOK, FlagsOK, IInv
<1>4. /\ SearchShape' /\ IterationShape' /\ FirstIterationShape'
      /\ RestartShape' /\ FlagShape' /\ RestartIsVerified'
  BY DEF Execute, reproVars, flagVars, SearchShape, IterationShape,
       FirstIterationShape, RestartShape, FlagShape, RestartIsVerified, IInv,
       NextIteration, Session, options
<1> QED
  BY <1>1, <1>2, <1>3, <1>4 DEF IInv, TypeOK

\* A new fault is remembered and its search begins.
LEMMA StartReproductionKeeps ==
  ASSUME IInv, StartReproduction
  PROVE  IInv'
<1>1. PlacesOK' /\ CountersOK' /\ FlagsOK'
  BY DEF StartReproduction, Positions, RememberSearch, Initial, OnControl,
       OnRecording, TypeOK, PlacesOK, CountersOK, FlagsOK, IInv, options
<1>2. FirstIterationShape' /\ RestartShape' /\ FlagShape' /\ RestartIsVerified'
  BY DEF StartReproduction, RememberSearch, Initial, OnControl, OnRecording,
       FirstIterationShape, RestartShape, FlagShape, RestartIsVerified, IInv,
       Session, options
<1>3. SearchShape'
  BY EngineAssumption DEF StartReproduction, RememberSearch, Initial,
       OnControl, TypeOK, CountersOK, SearchShape, IterationShape, FlagShape,
       IInv, NextIteration
<1>4. IterationShape'
  BY DEF StartReproduction, RememberSearch, Initial, OnControl, TypeOK,
       CountersOK, FlagsOK, IterationShape, IInv, NextIteration
<1> QED
  BY <1>1, <1>2, <1>3, <1>4 DEF IInv, TypeOK

\* A fault that ends the run.
LEMMA ReportFatalFaultKeeps ==
  ASSUME IInv, ReportFatalFault
  PROVE  IInv'
<1>1. PlacesOK'
  BY DEF ReportFatalFault, Positions, TypeOK, PlacesOK, IInv, options
<1>2. CountersOK'
  BY DEF ReportFatalFault, RememberSearch, Initial, JumpCount, loopVars,
       TypeOK, CountersOK, IInv
<1>3. FlagsOK'
  BY DEF ReportFatalFault, RememberSearch, OnControl, OnRecording, loopVars,
       flagVars, TypeOK, FlagsOK, IInv
<1>4. /\ SearchShape' /\ IterationShape' /\ FirstIterationShape'
      /\ RestartShape' /\ FlagShape' /\ RestartIsVerified'
  BY DEF ReportFatalFault, RememberSearch, Initial, OnControl, JumpCount,
       loopVars, SearchShape, IterationShape, FirstIterationShape,
       RestartShape, FlagShape, RestartIsVerified, IInv, Session, options
<1> QED
  BY <1>1, <1>2, <1>3, <1>4 DEF IInv, TypeOK

\* A fault that is reported, and with it a search that has found it.
LEMMA ReportFaultKeeps ==
  ASSUME IInv, ReportFault
  PROVE  IInv'
<1>1. PlacesOK' /\ FlagsOK'
  BY DEF ReportFault, Positions, RememberSearch, OnControl, OnRecording,
       ResumeAtFault, TypeOK, PlacesOK, FlagsOK, IInv, options
<1>2. /\ SearchShape' /\ FirstIterationShape' /\ RestartShape' /\ FlagShape'
      /\ RestartIsVerified'
  BY DEF ReportFault, ResumeAtFault, FaultReported, Initial, OnControl,
       OnRecording, SearchedUpTo, Bit, SearchShape, FirstIterationShape,
       RestartShape, FlagShape, RestartIsVerified, IInv, Session, options
<1>3. CountersOK'
  BY DEF ReportFault, FaultIsFatal, RememberSearch, Initial, OnControl,
       JumpCount, SearchedUpTo, ResumeAtFault, Bit, TypeOK, CountersOK,
       SearchShape, IInv
<1>4. IterationShape'
  BY DEF ReportFault, Initial, SearchedUpTo, ResumeAtFault, Bit, TypeOK,
       CountersOK, IterationShape, IInv, NextIteration
<1> QED
  BY <1>1, <1>2, <1>3, <1>4 DEF IInv, TypeOK

\* No fault and no search.
LEMMA KeepFuzzingKeeps ==
  ASSUME IInv, KeepFuzzing
  PROVE  IInv'
<1>1. PlacesOK' /\ CountersOK' /\ FlagsOK'
  BY DEF KeepFuzzing, stateVars, Positions, loopVars, reproVars, flagVars,
       TypeOK, PlacesOK, CountersOK, FlagsOK, IInv, options
<1>2. /\ SearchShape' /\ FirstIterationShape' /\ RestartShape' /\ FlagShape'
      /\ RestartIsVerified'
  BY DEF KeepFuzzing, stateVars, reproVars, NoFault, loopVars, flagVars,
       SearchShape, FirstIterationShape, RestartShape, FlagShape,
       RestartIsVerified, IInv
<1>3. IterationShape'
  BY DEF KeepFuzzing, NoFault, stateVars, loopVars, reproVars, Bit, TypeOK,
       CountersOK, IterationShape, IInv, NextIteration
<1> QED
  BY <1>1, <1>2, <1>3 DEF IInv, TypeOK

\* The iteration of the fault, repeated, shows nothing.
LEMMA AttemptFailedKeeps ==
  ASSUME IInv, AttemptFailed
  PROVE  IInv'
<1>1. PlacesOK' /\ CountersOK' /\ FlagsOK'
  BY DEF AttemptFailed, Positions, ResumeAtFault, Initial, OnControl,
       OnRecording, TypeOK, PlacesOK, CountersOK, FlagsOK, IInv, options
<1>2. /\ SearchShape' /\ FirstIterationShape' /\ RestartShape' /\ FlagShape'
      /\ RestartIsVerified'
  BY DEF AttemptFailed, ResumeAtFault, NoFault, Initial, OnControl,
       OnRecording, SearchShape, FirstIterationShape, RestartShape, FlagShape,
       RestartIsVerified, IInv
<1>3. IterationShape'
  BY DEF AttemptFailed, NoFault, ResumeAtFault, Initial, Bit, TypeOK,
       CountersOK, IterationShape, IInv, NextIteration
<1> QED
  BY <1>1, <1>2, <1>3 DEF IInv, TypeOK

\* The control iteration before a window passes.
LEMMA RestartVerifiedKeeps ==
  ASSUME IInv, RestartVerified
  PROVE  IInv'
<1>1. PlacesOK'
  BY DEF RestartVerified, SearchFrame, Positions, TypeOK, PlacesOK, IInv,
       options
<1>2. FlagsOK'
  BY DEF RestartVerified, FuzzAfterControl, SearchFrame, reproVars, TypeOK,
       FlagsOK, IInv
<1>3. SearchShape' /\ RestartShape' /\ FlagShape' /\ RestartIsVerified'
  BY DEF RestartVerified, reproVars, Searching, NoFault, SearchFrame,
       SearchShape, RestartShape, FlagShape, RestartIsVerified, IInv, Session,
       options
<1>4. CountersOK'
  BY DEF RestartVerified, Searching, NoFault, FuzzAfterControl, SearchFrame,
       reproVars, TypeOK, CountersOK, IterationShape, IInv, NextIteration
<1>5. IterationShape'
  BY DEF RestartVerified, Searching, NoFault, FuzzAfterControl, SearchFrame,
       reproVars, Bit, TypeOK, CountersOK, SearchShape, IterationShape, IInv,
       NextIteration
<1>6. FirstIterationShape'
  BY DEF RestartVerified, Searching, NoFault, SearchFrame, SearchShape,
       FirstIterationShape, IInv
<1> QED
  BY <1>1, <1>2, <1>3, <1>4, <1>5, <1>6 DEF IInv, TypeOK

\* The longest window has been replayed in vain.
LEMMA GiveUpSearchKeeps ==
  ASSUME IInv, GiveUpSearch
  PROVE  IInv'
<1>1. PlacesOK' /\ FlagsOK'
  BY DEF GiveUpSearch, SearchFrame, Positions, ResumeAtFault, OnControl,
       OnRecording, TypeOK, PlacesOK, FlagsOK, IInv, options
<1>2. /\ SearchShape' /\ FirstIterationShape' /\ RestartShape' /\ FlagShape'
      /\ RestartIsVerified'
  BY DEF GiveUpSearch, ResumeAtFault, WindowFailed, Searching, NoFault,
       SearchedUpTo, Initial, OnControl, OnRecording, SearchFrame, Bit,
       SearchShape, FirstIterationShape, RestartShape, FlagShape,
       RestartIsVerified, IInv
<1>3. CountersOK'
  BY DEF GiveUpSearch, WindowFailed, Searching, SearchedUpTo, ResumeAtFault,
       Initial, SearchFrame, Bit, TypeOK, CountersOK, SearchShape, IInv
<1>4. IterationShape'
  BY DEF GiveUpSearch, SearchedUpTo, ResumeAtFault, Initial, Bit, TypeOK,
       CountersOK, IterationShape, IInv, NextIteration
<1> QED
  BY <1>1, <1>2, <1>3, <1>4 DEF IInv, TypeOK

\* The next window, and the jump to its start.
LEMMA JumpBackKeeps ==
  ASSUME IInv, JumpBack
  PROVE  IInv'
<1>1. PlacesOK' /\ FlagsOK'
  BY DEF JumpBack, SearchFrame, Positions, RestartsTarget, TypeOK, PlacesOK,
       FlagsOK, IInv, options
<1>2. RestartShape' /\ FlagShape' /\ RestartIsVerified'
  BY DEF JumpBack, WindowFailed, Searching, NoFault, SearchFrame, RestartShape,
       FlagShape, RestartIsVerified, IInv
<1>3. CountersOK'
  BY EngineAssumption DEF JumpBack, MaxJump, NextJump, WindowStart, Lesser,
       SearchFrame, Bit, TypeOK, CountersOK, IInv
<1>4. SearchShape'
  BY EngineAssumption DEF JumpBack, WindowFailed, Searching, MaxJump, NextJump,
       Lesser, TypeOK, CountersOK, SearchShape, IInv, Session, options,
       SearchFrame
<1>5. IterationShape'
  BY EngineAssumption DEF JumpBack, WindowFailed, Searching, NoFault, MaxJump,
       NextJump, WindowStart, Lesser, SearchFrame, Bit, TypeOK, CountersOK,
       FlagsOK, IterationShape, IInv, NextIteration
<1>6. FirstIterationShape'
  BY EngineAssumption DEF JumpBack, WindowFailed, Searching, NoFault, MaxJump,
       Lesser, SearchFrame, TypeOK, CountersOK, FirstIterationShape, IInv
<1> QED
  BY <1>1, <1>2, <1>3, <1>4, <1>5, <1>6 DEF IInv, TypeOK

\* A step through a window of at most 10, with control iterations.
LEMMA ShallowStepKeeps ==
  ASSUME IInv, ShallowStep
  PROVE  IInv'
<1>1. PlacesOK'
  BY DEF ShallowStep, WindowFrame, SearchFrame, Positions, TypeOK, PlacesOK,
       IInv, options
<1>2. FlagsOK'
  BY DEF ShallowStep, FuzzAfterControl, WindowFrame, SearchFrame, reproVars,
       TypeOK, FlagsOK, IInv
<1>3. RestartShape' /\ FlagShape' /\ RestartIsVerified'
  BY DEF ShallowStep, InWindow, Searching, NoFault, WindowFrame, SearchFrame,
       reproVars, RestartShape, FlagShape, RestartIsVerified, IInv
<1>4. CountersOK'
  BY DEF ShallowStep, InWindow, Searching, NoFault, FuzzAfterControl,
       WindowFrame, SearchFrame, reproVars, Bit, TypeOK, CountersOK,
       IterationShape, IInv, NextIteration
<1>5. SearchShape'
  BY EngineAssumption DEF ShallowStep, InWindow, Searching, NoFault,
       AtWindowEnd, WindowFrame, reproVars, TypeOK, FlagsOK, SearchShape,
       IterationShape, IInv, NextIteration, Session, options, SearchFrame
<1>6. IterationShape'
  BY DEF ShallowStep, InWindow, Searching, NoFault, AtWindowEnd,
       FuzzAfterControl, WindowFrame, SearchFrame, reproVars, Bit, TypeOK,
       CountersOK, SearchShape, IterationShape, IInv, NextIteration
<1>7. FirstIterationShape'
  BY WindowKnown DEF ShallowStep, WindowFrame, SearchFrame, FirstIterationShape
<1> QED
  BY <1>1, <1>2, <1>3, <1>4, <1>5, <1>6, <1>7 DEF IInv, TypeOK

\* A step through a longer window.
LEMMA DeepStepKeeps ==
  ASSUME IInv, DeepStep
  PROVE  IInv'
<1>1. PlacesOK'
  BY DEF DeepStep, WindowFrame, SearchFrame, Positions, TypeOK, PlacesOK, IInv,
       options
<1>2. FlagsOK'
  BY DEF DeepStep, FuzzAfterControl, WindowFrame, SearchFrame, reproVars,
       TypeOK, FlagsOK, IInv
<1>3. SearchShape' /\ RestartShape' /\ FlagShape' /\ RestartIsVerified'
  BY DEF DeepStep, WindowFrame, reproVars, InWindow, Searching, NoFault,
       SearchFrame, SearchShape, RestartShape, FlagShape, RestartIsVerified,
       IInv, Session, options
<1>4. CountersOK'
  BY DEF DeepStep, InWindow, Searching, NoFault, FuzzAfterControl, WindowFrame,
       SearchFrame, reproVars, TypeOK, CountersOK, IterationShape, IInv,
       NextIteration
<1>5. IterationShape'
  BY EngineAssumption DEF DeepStep, InWindow, Searching, NoFault, AtWindowEnd,
       FuzzAfterControl, WindowFrame, SearchFrame, reproVars, Bit, TypeOK,
       CountersOK, SearchShape, IterationShape, IInv, NextIteration
<1>6. FirstIterationShape'
  BY WindowKnown DEF DeepStep, WindowFrame, SearchFrame, FirstIterationShape
<1> QED
  BY <1>1, <1>2, <1>3, <1>4, <1>5, <1>6 DEF IInv, TypeOK

\* A step through a window without control iterations.
LEMMA PlainStepKeeps ==
  ASSUME IInv, PlainStep
  PROVE  IInv'
<1>1. PlacesOK'
  BY DEF PlainStep, WindowFrame, SearchFrame, Positions, TypeOK, PlacesOK,
       IInv, options
<1>2. FlagsOK'
  BY DEF PlainStep, WindowFrame, SearchFrame, reproVars, TypeOK, FlagsOK, IInv
<1>3. SearchShape' /\ RestartShape' /\ FlagShape' /\ RestartIsVerified'
  BY DEF PlainStep, WindowFrame, reproVars, InWindow, Searching, NoFault,
       SearchFrame, SearchShape, RestartShape, FlagShape, RestartIsVerified,
       IInv, Session, options
<1>4. CountersOK'
  BY DEF PlainStep, InWindow, Searching, NoFault, WindowFrame, SearchFrame,
       reproVars, Bit, TypeOK, CountersOK, IterationShape, IInv, NextIteration
<1>5. IterationShape'
  BY EngineAssumption DEF PlainStep, InWindow, WindowHasControls, Searching,
       NoFault, AtWindowEnd, WindowFrame, SearchFrame, reproVars, Bit, TypeOK,
       CountersOK, IterationShape, IInv, NextIteration
<1>6. FirstIterationShape'
  BY WindowKnown DEF PlainStep, WindowFrame, SearchFrame, FirstIterationShape
<1> QED
  BY <1>1, <1>2, <1>3, <1>4, <1>5, <1>6 DEF IInv, TypeOK

\* A monitor wants the run to stop.
LEMMA MustStopKeeps ==
  ASSUME IInv, MustStop
  PROVE  IInv'
<1>1. PlacesOK' /\ CountersOK' /\ FlagsOK'
  BY DEF MustStop, stateVars, Positions, loopVars, reproVars, flagVars, TypeOK,
       PlacesOK, CountersOK, FlagsOK, IInv, options
<1>2. /\ SearchShape' /\ IterationShape' /\ FirstIterationShape'
      /\ RestartShape' /\ FlagShape' /\ RestartIsVerified'
  BY DEF MustStop, stateVars, loopVars, reproVars, SearchShape, IterationShape,
       FirstIterationShape, RestartShape, FlagShape, RestartIsVerified, IInv,
       Session, options
<1> QED
  BY <1>1, <1>2 DEF IInv, TypeOK

\* The continue statement of a pass that keeps the counter.
LEMMA ContinueLoopKeeps ==
  ASSUME IInv, ContinueLoop
  PROVE  IInv'
<1>1. PlacesOK' /\ CountersOK' /\ FlagsOK'
  BY DEF ContinueLoop, stateVars, Positions, loopVars, reproVars, flagVars,
       TypeOK, PlacesOK, CountersOK, FlagsOK, IInv, options
<1>2. /\ SearchShape' /\ IterationShape' /\ FirstIterationShape'
      /\ RestartShape' /\ FlagShape' /\ RestartIsVerified'
  BY DEF ContinueLoop, stateVars, loopVars, reproVars, flagVars, SearchShape,
       IterationShape, FirstIterationShape, RestartShape, FlagShape,
       RestartIsVerified, IInv, NextIteration, Session, options
<1> QED
  BY <1>1, <1>2 DEF IInv, TypeOK

\* The run that only counts stops.
LEMMA CountAndStopKeeps ==
  ASSUME IInv, CountAndStop
  PROVE  IInv'
<1>1. PlacesOK' /\ CountersOK' /\ FlagsOK'
  BY DEF CountAndStop, stateVars, Positions, loopVars, reproVars, flagVars,
       TypeOK, PlacesOK, CountersOK, FlagsOK, IInv, options
<1>2. /\ SearchShape' /\ IterationShape' /\ FirstIterationShape'
      /\ RestartShape' /\ FlagShape' /\ RestartIsVerified'
  BY DEF CountAndStop, stateVars, loopVars, reproVars, AtTotals, SearchShape,
       IterationShape, FirstIterationShape, RestartShape, FlagShape,
       RestartIsVerified, IInv, Session, options
<1> QED
  BY <1>1, <1>2 DEF IInv, TypeOK

\* More machines than test cases.
LEMMA TooManyMachinesKeeps ==
  ASSUME IInv, TooManyMachines
  PROVE  IInv'
<1>1. PlacesOK' /\ CountersOK' /\ FlagsOK'
  BY DEF TooManyMachines, stateVars, Positions, loopVars, reproVars, flagVars,
       TypeOK, PlacesOK, CountersOK, FlagsOK, IInv, options
<1>2. /\ SearchShape' /\ IterationShape' /\ FirstIterationShape'
      /\ RestartShape' /\ FlagShape' /\ RestartIsVerified'
  BY DEF TooManyMachines, stateVars, loopVars, reproVars, SearchShape,
       IterationShape, FirstIterationShape, RestartShape, FlagShape,
       RestartIsVerified, IInv, Session, options
<1> QED
  BY <1>1, <1>2 DEF IInv, TypeOK

\* Totals, the increment, and the flags for the next pass.
LEMMA AdvanceKeeps ==
  ASSUME IInv, Advance
  PROVE  IInv'
<1>1. PlacesOK'
  BY DEF Advance, Positions, TypeOK, PlacesOK, IInv, options
<1>2. /\ SearchShape' /\ FirstIterationShape' /\ RestartShape' /\ FlagShape'
      /\ RestartIsVerified'
  BY DEF Advance, SetNextFlags, reproVars, AtTotals, LearnsTotal, SetTotals,
       flagVars, SearchShape, FirstIterationShape, RestartShape, FlagShape,
       RestartIsVerified, IInv, Session, options
<1>3. CountersOK'
  BY EngineAssumption DEF Advance, SetTotals, SetNextFlags, Lesser, SliceRange,
       Bit, reproVars, TypeOK, CountersOK, IInv
<1>4. FlagsOK'
  <2>1. FlagsOK
    BY DEF IInv, TypeOK
  <2>2. totalKnown' \in BOOLEAN
    BY <2>1 DEF Advance, SetTotals, FlagsOK
  <2>3. /\ controlIteration' \in BOOLEAN
        /\ controlRecordingIteration' \in BOOLEAN
        /\ controlIterationAfterFault' \in BOOLEAN
    BY <2>1 DEF Advance, SetNextFlags, FlagsOK, flagVars
  <2> QED
    BY <2>1, <2>2, <2>3 DEF Advance, FlagsOK, reproVars
<1>5. IterationShape'
  BY EngineAssumption DEF Advance, AtTotals, LearnsTotal, SetTotals,
       SetNextFlags, Lesser, SliceRange, flagVars, reproVars, TypeOK, PlacesOK,
       CountersOK, IterationShape, FirstIterationShape, IInv, NextIteration,
       Session, options
<1> QED
  BY <1>1, <1>2, <1>3, <1>4, <1>5 DEF IInv, TypeOK

\* Another thread asks for a stop.
LEMMA RequestStopKeeps ==
  ASSUME IInv, RequestStop
  PROVE  IInv'
<1>1. PlacesOK'
  BY DEF RequestStop, TypeOK, PlacesOK, IInv, options
<1>2. CountersOK'
  BY DEF RequestStop, loopVars, reproVars, TypeOK, CountersOK, IInv
<1>3. FlagsOK'
  BY DEF RequestStop, loopVars, flagVars, reproVars, TypeOK, FlagsOK, IInv
<1>4. /\ SearchShape' /\ IterationShape' /\ FirstIterationShape'
      /\ RestartShape' /\ FlagShape' /\ RestartIsVerified'
  BY DEF RequestStop, loopVars, reproVars, flagVars, SearchShape,
       IterationShape, FirstIterationShape, RestartShape, FlagShape,
       RestartIsVerified, IInv, NextIteration, Session, options
<1> QED
  BY <1>1, <1>2, <1>3, <1>4 DEF IInv, TypeOK

\* A step of somebody else.
LEMMA StutterKeeps ==
  ASSUME IInv, UNCHANGED vars
  PROVE  IInv'
<1>1. PlacesOK' /\ CountersOK' /\ FlagsOK'
  BY DEF vars, stateVars, loopVars, reproVars, flagVars, TypeOK, PlacesOK,
       CountersOK, FlagsOK, IInv, options
<1>2. /\ SearchShape' /\ IterationShape' /\ FirstIterationShape'
      /\ RestartShape' /\ FlagShape' /\ RestartIsVerified'
  BY DEF vars, stateVars, loopVars, reproVars, flagVars, SearchShape,
       IterationShape, FirstIterationShape, RestartShape, FlagShape,
       RestartIsVerified, IInv, NextIteration, Session, options
<1> QED
  BY <1>1, <1>2 DEF IInv, TypeOK
-----------------------------------------------------------------------------
(* The invariant and what follows from it.                                 *)

\* Every branch of the judgement keeps the invariant.
LEMMA JudgeKeeps ==
  ASSUME IInv, Judge
  PROVE  IInv'
<1>1. CASE StartReproduction \/ ReportFatalFault \/ ReportFault
  BY <1>1, StartReproductionKeeps, ReportFatalFaultKeeps, ReportFaultKeeps
<1>2. CASE KeepFuzzing \/ AttemptFailed
  BY <1>2, KeepFuzzingKeeps, AttemptFailedKeeps
<1>3. CASE RestartVerified \/ GiveUpSearch \/ JumpBack
  BY <1>3, RestartVerifiedKeeps, GiveUpSearchKeeps, JumpBackKeeps
<1>4. CASE ShallowStep \/ DeepStep \/ PlainStep
  BY <1>4, ShallowStepKeeps, DeepStepKeeps, PlainStepKeeps
<1> QED
  BY <1>1, <1>2, <1>3, <1>4 DEF Judge

\* Every exit and end of a pass keeps the invariant.
LEMMA LoopTailKeeps ==
  ASSUME IInv, LoopTail
  PROVE  IInv'
<1>1. CASE MustStop \/ ContinueLoop
  BY <1>1, MustStopKeeps, ContinueLoopKeeps
<1>2. CASE CountAndStop \/ TooManyMachines \/ Advance
  BY <1>2, CountAndStopKeeps, TooManyMachinesKeeps, AdvanceKeeps
<1> QED
  BY <1>1, <1>2 DEF LoopTail

\* Every step keeps the invariant.
LEMMA NextIInv == IInv /\ [Next]_vars => IInv'
<1> SUFFICES ASSUME IInv, [Next]_vars PROVE IInv'
  OBVIOUS
<1>1. CASE BeginIteration \/ StopBeforeFuzzing \/ LeaveLoop
  BY <1>1, BeginIterationKeeps, StopBeforeFuzzingKeeps, LeaveLoopKeeps
<1>2. CASE Judge
  BY <1>2, JudgeKeeps
<1>3. CASE LoopTail
  BY <1>3, LoopTailKeeps
<1>4. CASE \E outcome \in Outcomes : Execute(outcome)
  BY <1>4, ExecuteKeeps
<1>5. CASE RequestStop
  BY <1>5, RequestStopKeeps
<1>6. CASE Terminated \/ UNCHANGED vars
  BY <1>6, StutterKeeps DEF Terminated
<1> QED
  BY <1>1, <1>2, <1>3, <1>4, <1>5, <1>6 DEF Next, EngineStep, LoopStep

\* IInv holds in every state of every run: whatever faults appear on whatever
\* iterations, whatever the strategy switches, under every run option.
THEOREM Invariance == Spec => []IInv
<1> QED
  BY InitIInv, NextIInv, PTL DEF Spec

\* Every variable keeps its type; no counter of the loop falls below zero.
THEOREM TypeCorrect == Spec => []TypeOK
<1>1. IInv => TypeOK
  BY DEF IInv
<1> QED
  BY Invariance, <1>1, PTL

\* The arithmetic of Engine.cs:797 and 839 never wraps around: a search stays
\* between its floor and its fault, and within MaxBackSearch.
THEOREM SearchBounds == Spec => []SearchStaysInBounds
<1>1. IInv => SearchStaysInBounds
  <2> SUFFICES ASSUME IInv, reproducingFault,
                      pc \in {"top", "running", "judging"}
               PROVE  /\ lastReproFault < iterationCount
                      /\ iterationCount <= reproducingInitialIteration
                      /\ reproducingInitialIteration - MaxBackSearch
                           <= iterationCount
    BY DEF SearchStaysInBounds
  <2>1. NextIteration = iterationCount
    BY DEF NextIteration
  <2>2. reproducingIterationJumpCount <= MaxBackSearch
    BY DEF IInv, SearchShape
  <2> QED
    BY <2>1, <2>2, EngineAssumption
    DEF IInv, TypeOK, CountersOK, IterationShape
<1> QED
  BY Invariance, <1>1, PTL

\* What is asked of the strategy lies past everything that an ended search has
\* covered.
THEOREM PastSearches == Spec => []FuzzingIsPastSearches
<1>1. IInv => FuzzingIsPastSearches
  BY DEF IInv, FuzzingIsPastSearches, IterationShape, NextIteration
<1> QED
  BY Invariance, <1>1, PTL

\* The assertion at Engine.cs:539 never fails.
THEOREM RestartsVerified == Spec => []RestartIsVerified
<1>1. IInv => RestartIsVerified
  BY DEF IInv
<1> QED
  BY Invariance, <1>1, PTL

\* A fault is held by the logger exactly while the engine reproduces it, and
\* the first attempt replays its iteration (JobLogger.cs:361, 506, 514).
THEOREM LoggerAgreement == Spec => []LoggerAgrees
<1>1. IInv => LoggerAgrees
  <2> SUFFICES ASSUME IInv PROVE LoggerAgrees
    OBVIOUS
  <2>1. pc # "error" => reproFaultHeld = reproducingFault
    BY DEF IInv, FlagShape
  <2>2. ASSUME pc = "running", reproducingFault,
               reproducingIterationJumpCount = 0
        PROVE  iterationCount = reproducingInitialIteration
    BY <2>2 DEF IInv, TypeOK, CountersOK, IterationShape, NextIteration
  <2> QED
    BY <2>1, <2>2 DEF LoggerAgrees
<1> QED
  BY Invariance, <1>1, PTL

=============================================================================
