------------------------- MODULE EngineSearch_proofs -------------------------
(***************************************************************************)
(* The engine's loop implements the session of FaultSearch, for all values *)
(* of the constants.  Every action of the loop is one action of the        *)
(* session, or leaves the session alone; IInv, proved in FuzzEngine_proofs *)
(* for every reachable state, supplies what the session asks of a step.    *)
(***************************************************************************)
EXTENDS EngineSearch, FuzzEngine_proofs

-----------------------------------------------------------------------------
(* Steps that the session does not see.                                    *)

\* What has to stay for the session to stay: outside of a search the variables
\* of the search are free.
LEMMA SessionStays ==
  ASSUME UNCHANGED <<options, SessionMode, NextTestCase, lastReproFault,
                     reproducingFault>>,
         reproducingFault => UNCHANGED <<reproducingInitialIteration,
                                         reproducingIterationJumpCount>>
  PROVE  UNCHANGED Search!searchVars
BY DEF Search!searchVars, options, Session

\* The first half of a pass: the iteration is set up.
LEMMA BeginIterationMaps ==
  ASSUME IInv, BeginIteration
  PROVE  UNCHANGED Search!searchVars
<1>1. UNCHANGED <<options, reproVars, lastReproFault>>
  BY DEF BeginIteration
<1>2. UNCHANGED <<SessionMode, NextTestCase>>
  BY <1>1 DEF BeginIteration, SessionMode, NextTestCase, reproVars, Bit
<1> QED
  BY <1>1, <1>2, SessionStays DEF reproVars

\* A pass that finds nothing, outside of a search.
LEMMA KeepFuzzingMaps ==
  ASSUME IInv, KeepFuzzing
  PROVE  UNCHANGED Search!searchVars
<1>1. UNCHANGED <<options, reproVars, lastReproFault>>
  BY DEF KeepFuzzing, stateVars, loopVars
<1>2. UNCHANGED <<SessionMode, NextTestCase>>
  BY <1>1 DEF KeepFuzzing, NoFault, SessionMode, NextTestCase, stateVars,
       loopVars, flagVars, reproVars, Bit
<1> QED
  BY <1>1, <1>2, SessionStays DEF reproVars

\* A step inside a window, or the control iteration after a restart: where the
\* engine stands in its window is nothing that the session knows.
LEMMA WindowStepMaps ==
  ASSUME IInv, \/ RestartVerified
               \/ ShallowStep \/ DeepStep \/ PlainStep
               \/ ContinueLoop
  PROVE  UNCHANGED Search!searchVars
<1>1. UNCHANGED <<options, reproVars, lastReproFault>> /\ reproducingFault
  BY DEF RestartVerified, ShallowStep, DeepStep, PlainStep, ContinueLoop,
       WindowFrame, SearchFrame, InWindow, Searching, stateVars, loopVars
<1>2. UNCHANGED SessionMode
  BY <1>1 DEF SessionMode, RestartVerified, ShallowStep, DeepStep, PlainStep,
       ContinueLoop, WindowFrame, InWindow, Searching, NoFault, reproVars
<1>3. UNCHANGED NextTestCase
  BY <1>1 DEF NextTestCase, reproVars
<1> QED
  BY <1>1, <1>2, <1>3, SessionStays DEF reproVars

\* A stop is asked for, or the loop has been left.
LEMMA OtherStepMaps ==
  ASSUME IInv, RequestStop \/ Terminated
  PROVE  UNCHANGED Search!searchVars
<1>1. UNCHANGED <<options, pc, loopVars, flagVars, reproVars>>
  BY DEF RequestStop, Terminated, vars, stateVars
<1>2. UNCHANGED <<SessionMode, NextTestCase, lastReproFault>>
  BY <1>1 DEF SessionMode, NextTestCase, loopVars, flagVars, reproVars
<1> QED
  BY <1>1, <1>2, SessionStays DEF reproVars

-----------------------------------------------------------------------------
(* The run of an iteration.                                                *)

\* The test case counts as fuzzed once it has run; an exception ends the session
\* on it.  Control iterations and replays are not fuzzed.
LEMMA ExecuteMaps ==
  ASSUME IInv, NEW outcome \in Outcomes, Execute(outcome)
  PROVE  Search!Fuzz \/ Search!Stop \/ UNCHANGED Search!searchVars
<1>1. /\ UNCHANGED <<options, flagVars, reproVars, lastReproFault,
                     iterationCount>>
      /\ pc = "running" /\ pc' \in {"judging", "error"}
  BY DEF Execute
<1>2. /\ controlIteration \in BOOLEAN /\ reproducingFault \in BOOLEAN
      /\ NextTestCase \in Nat
  BY DEF IInv, TypeOK, CountersOK, FlagsOK, NextTestCase, Bit
<1>3. NextTestCase' = NextTestCase + Bit(~reproducingFault /\ ~controlIteration)
  BY <1>1, <1>2 DEF NextTestCase, Bit, flagVars, reproVars, IInv, TypeOK,
     CountersOK
<1>4. CASE pc' = "error"
  BY <1>1, <1>2, <1>3, <1>4
  DEF Search!Stop, SessionMode, Session, options, reproVars, Bit
<1>5. CASE pc' = "judging" /\ (reproducingFault \/ controlIteration)
  <2>1. UNCHANGED <<SessionMode, NextTestCase>>
    BY <1>1, <1>2, <1>3, <1>5
    DEF SessionMode, NextTestCase, reproVars, flagVars, Bit
  <2> QED
    BY <1>1, <2>1, SessionStays DEF reproVars
<1>6. CASE pc' = "judging" /\ ~reproducingFault /\ ~controlIteration
  BY <1>1, <1>2, <1>3, <1>6
  DEF Search!Fuzz, SessionMode, Session, options, reproVars, Bit
<1> QED
  BY <1>1, <1>4, <1>5, <1>6

-----------------------------------------------------------------------------
(* The verdict.                                                            *)

\* The first sight of a fault.
LEMMA StartReproductionMaps ==
  ASSUME IInv, StartReproduction
  PROVE  Search!Detect
<1>1. SessionMode = "fuzzing" /\ SessionMode' = "searching"
  BY DEF StartReproduction, SessionMode
<1>2. NextTestCase' = NextTestCase
  BY DEF StartReproduction, NextTestCase, RememberSearch, Initial, OnControl,
         IInv, TypeOK, FlagsOK
<1>3. /\ reproducingInitialIteration' \in {NextTestCase - 1, NextTestCase}
      /\ reproducingInitialIteration' > lastReproFault
  BY DEF StartReproduction, NextTestCase, RememberSearch, Initial, Bit,
         IInv, TypeOK, FlagsOK, CountersOK, IterationShape, NextIteration
<1>4. UNCHANGED <<Session, lastReproFault>>
  BY DEF StartReproduction, options, Session
<1> QED
  BY <1>1, <1>2, <1>3, <1>4 DEF Search!Detect, StartReproduction

\* The end of a search, or of a fault that needs none: what was fuzzed last is
\* the floor of the next search.
LEMMA FloorIsLastFuzzed ==
  ASSUME IInv, pc = "judging"
  PROVE  SearchedUpTo = NextTestCase - 1
<1>1. /\ iterationCount \in Nat /\ reproducingInitialIteration \in Nat
      /\ controlIteration \in BOOLEAN /\ reproducingControlIteration \in BOOLEAN
  BY DEF IInv, TypeOK, CountersOK, FlagsOK
<1> QED
  BY <1>1 DEF SearchedUpTo, NextTestCase, Initial, OnControl, Bit

\* Fuzzing goes on behind the fault.
LEMMA ResumeKeepsNext ==
  ASSUME IInv, pc = "judging", pc' = "tail", ResumeAtFault
  PROVE  NextTestCase' = NextTestCase
BY DEF ResumeAtFault, NextTestCase, Initial, OnControl, Bit, IInv, TypeOK,
   FlagsOK

\* A fault that was reproduced, or is reported when it is seen.
LEMMA ReportFaultMaps ==
  ASSUME IInv, ReportFault
  PROVE  Search!Report \/ Search!ReportAtOnce
<1>1. pc = "judging" /\ pc' = "tail" /\ ResumeAtFault
      /\ lastReproFault' = SearchedUpTo /\ UNCHANGED options
  BY DEF ReportFault, FaultReported
<1>2. lastReproFault' = NextTestCase - 1 /\ NextTestCase' = NextTestCase
  BY <1>1, FloorIsLastFuzzed, ResumeKeepsNext
<1>3. ~reproducingFault'
  BY <1>1 DEF ResumeAtFault
<1>4. CASE reproducingFault
  BY <1>1, <1>2, <1>3, <1>4
  DEF Search!Report, Search!EndSearch, SessionMode, Session, options
<1>5. CASE ~reproducingFault
  BY <1>1, <1>2, <1>3, <1>5
  DEF Search!ReportAtOnce, SessionMode, Session, options
<1> QED
  BY <1>4, <1>5

\* A fault that ends the run.
LEMMA ReportFatalFaultMaps ==
  ASSUME IInv, ReportFatalFault
  PROVE  Search!Stop
<1>1. /\ pc = "judging" /\ pc' = "error"
      /\ UNCHANGED <<options, loopVars, flagVars, reproducingFault>>
  BY DEF ReportFatalFault, FaultReported
<1>2. reproducingFault => UNCHANGED <<reproducingInitialIteration,
        reproducingIterationJumpCount, reproducingControlIteration>>
  BY DEF ReportFatalFault, RememberSearch, Initial, OnControl, JumpCount
<1>3. NextTestCase' = NextTestCase
  BY <1>1, <1>2 DEF NextTestCase, loopVars, flagVars
<1> QED
  BY <1>1, <1>2, <1>3 DEF Search!Stop, SessionMode, Session, options, loopVars

\* The one attempt on a target that is restarted for every test case.
LEMMA AttemptFailedMaps ==
  ASSUME IInv, AttemptFailed
  PROVE  Search!GiveUp
<1>1. /\ pc = "judging" /\ pc' = "tail" /\ ResumeAtFault
      /\ reproducingFault /\ ~Session /\ UNCHANGED <<options, lastReproFault>>
  BY DEF AttemptFailed, NoFault
<1>2. NextTestCase' = NextTestCase /\ ~reproducingFault'
  BY <1>1, ResumeKeepsNext DEF ResumeAtFault
<1>3. reproducingIterationJumpCount = 0
  BY <1>1 DEF IInv, SearchShape
<1> QED
  BY <1>1, <1>2, <1>3 DEF Search!GiveUp, Search!EndSearch, Search!Limit,
     SessionMode, Session, options

\* How far a search may go back is the same for both.
LEMMA LimitIsMaxJump ==
  ASSUME Session, reproducingFault
  PROVE  Search!Limit = MaxJump
BY DEF Search!Limit, MaxJump, Search!Smaller, Lesser

\* The longest window was tried in vain.
LEMMA GiveUpSearchMaps ==
  ASSUME IInv, GiveUpSearch
  PROVE  Search!GiveUp
<1>1. /\ pc = "judging" /\ pc' = "tail" /\ ResumeAtFault
      /\ reproducingFault /\ Session /\ lastReproFault' = SearchedUpTo
      /\ reproducingIterationJumpCount >= MaxJump
      /\ UNCHANGED options
  BY DEF GiveUpSearch, WindowFailed, Searching, NoFault, SearchFrame
<1>2. /\ NextTestCase' = NextTestCase /\ lastReproFault' = NextTestCase - 1
      /\ ~reproducingFault'
  BY <1>1, ResumeKeepsNext, FloorIsLastFuzzed DEF ResumeAtFault
<1>3. reproducingIterationJumpCount = Search!Limit
  <2>1. reproducingIterationJumpCount <= MaxJump
    BY <1>1, EngineAssumption
    DEF IInv, TypeOK, CountersOK, SearchShape, MaxJump, Lesser
  <2>2. MaxJump \in Int /\ reproducingIterationJumpCount \in Int
    BY EngineAssumption DEF IInv, TypeOK, CountersOK, MaxJump, Lesser
  <2> QED
    BY <1>1, <2>1, <2>2, LimitIsMaxJump
<1> QED
  BY <1>1, <1>2, <1>3
  DEF Search!GiveUp, Search!EndSearch, SessionMode, Session, options

\* The search goes deeper.
LEMMA JumpBackMaps ==
  ASSUME IInv, JumpBack
  PROVE  Search!Deepen
<1>1. SessionMode = "searching" /\ SessionMode' = "searching"
  BY DEF JumpBack, SessionMode, WindowFailed, Searching, NoFault
<1>2. UNCHANGED <<NextTestCase, Session>>
  BY DEF JumpBack, NextTestCase, WindowFailed, Searching, SearchFrame, Session,
     options
<1>3. Session /\ reproducingFault
  BY DEF JumpBack, WindowFailed, Searching
<1>4. Search!Limit = MaxJump
  BY <1>3, LimitIsMaxJump
<1> QED
  BY <1>1, <1>2, <1>3, <1>4
  DEF Search!Deepen, JumpBack, NextJump, Search!Smaller, Lesser

-----------------------------------------------------------------------------
(* The tail of the loop, and its end.                                      *)

\* The loop is left, by one of its tests or by an exception.
LEMMA EndMaps ==
  ASSUME IInv, \/ StopBeforeFuzzing \/ LeaveLoop
               \/ MustStop \/ CountAndStop \/ TooManyMachines
  PROVE  Search!Stop
<1>1. /\ UNCHANGED <<options, loopVars, reproVars>>
      /\ pc \in {"top", "tail"} /\ pc' \in {"done", "error"}
  BY DEF StopBeforeFuzzing, LeaveLoop, MustStop, CountAndStop, TooManyMachines,
     AtTotals, stateVars
<1>2. \/ pc = "top" /\ pc' = "done"
      \/ pc = "tail" /\ pc' = "error" /\ UNCHANGED flagVars
      \/ pc = "tail" /\ controlIteration /\ UNCHANGED flagVars
  BY DEF StopBeforeFuzzing, LeaveLoop, MustStop, CountAndStop, TooManyMachines,
     AtTotals, LearnsTotal, stateVars
<1>3. NextTestCase' = NextTestCase
  BY <1>1, <1>2 DEF NextTestCase, Bit, loopVars, flagVars, reproVars
<1> QED
  BY <1>1, <1>3
  DEF Search!Stop, SessionMode, Session, options, loopVars, reproVars

\* The range is as configured until the strategy's count is known.
RangeAsConfigured == ~totalKnown => iterationStop = RangeStop

\* The part of a machine is computed from the configured range.
LEMMA PartIsTaken ==
  ASSUME IInv, RangeAsConfigured, AtTotals, LearnsTotal, SetTotals,
         UNCHANGED options
  PROVE  /\ ~reproducingFault
         /\ iterationCount' = IF runMode = "parallel" THEN FirstOfPart
                              ELSE iterationCount
         /\ iterationCount = IterationStart
<1>1. ~reproducingFault /\ iterationCount = IterationStart
  BY DEF IInv, TypeOK, PlacesOK, FirstIterationShape, AtTotals, LearnsTotal
<1>2. iterationStop = RangeStop /\ runMode \in RunModes
  BY DEF RangeAsConfigured, LearnsTotal, IInv, TypeOK, PlacesOK
<1>3. CASE runMode = "parallel"
  <2> DEFINE start == SliceRange(Lesser(StrategyCount, RangeStop)).start
  <2>1. iterationCount' = IF IterationStart > start THEN IterationStart
                          ELSE start
    BY <1>2, <1>3 DEF SetTotals
  <2>2. FirstOfPart = IF IterationStart < start THEN start ELSE IterationStart
    BY <1>2, <1>3 DEF FirstOfPart
  <2>3. start \in Int /\ IterationStart \in Int
    BY EngineAssumption DEF SliceRange, Lesser
  <2> QED
    BY <1>1, <1>3, <2>1, <2>2, <2>3
<1>4. CASE runMode # "parallel"
  BY <1>1, <1>4 DEF SetTotals
<1> QED
  BY <1>3, <1>4

\* The increment at the end of a pass; the first one of a parallel run takes
\* this machine to its part.
LEMMA AdvanceMaps ==
  ASSUME IInv, RangeAsConfigured, Advance
  PROVE  Search!TakePart \/ UNCHANGED Search!searchVars
<1>1. /\ UNCHANGED <<options, reproVars, lastReproFault>>
      /\ AtTotals /\ pc = "tail" /\ pc' = "top"
  BY DEF Advance, AtTotals
<1>2. UNCHANGED SessionMode
  BY <1>1 DEF SessionMode, reproVars
<1>3. CASE LearnsTotal
  <2>1. SetTotals
    BY <1>3 DEF Advance
  <2>2. /\ ~reproducingFault /\ iterationCount = IterationStart
        /\ iterationCount' = IF runMode = "parallel" THEN FirstOfPart
                             ELSE iterationCount
    BY <1>1, <1>3, <2>1, PartIsTaken
  <2>3. NextTestCase = IterationStart /\ NextTestCase' = iterationCount'
    <3>1. iterationCount' \in Nat
      BY AdvanceKeeps DEF IInv, TypeOK, CountersOK
    <3> QED
      BY <1>1, <1>3, <2>2, <3>1, EngineAssumption
      DEF NextTestCase, LearnsTotal, Bit, reproVars
  <2>4. CASE runMode = "parallel"
    BY <1>1, <1>2, <2>2, <2>3, <2>4
    DEF Search!TakePart, SessionMode, Session, options, reproVars
  <2>5. CASE runMode # "parallel"
    BY <1>1, <1>2, <2>2, <2>3, <2>5, SessionStays DEF reproVars
  <2> QED
    BY <2>4, <2>5
<1>4. CASE ~LearnsTotal
  <2>1. iterationCount' = iterationCount + Bit(~controlIteration)
    BY <1>4 DEF Advance
  <2>2. NextTestCase' = NextTestCase
    BY <1>1, <2>1 DEF NextTestCase, Bit, reproVars, IInv, TypeOK, CountersOK
  <2> QED
    BY <1>1, <1>2, <2>2, SessionStays DEF reproVars
<1> QED
  BY <1>3, <1>4

-----------------------------------------------------------------------------
(* The refinement.                                                         *)

\* A run begins as a session.
LEMMA InitMaps == Init => Search!Init
BY EngineAssumption
DEF Init, Search!Init, SessionMode, NextTestCase, Session, Bit

\* Every step of the engine is a step of the session, or none.
LEMMA StepMaps ==
  ASSUME IInv, RangeAsConfigured, [Next]_vars
  PROVE  [Search!Next]_(Search!searchVars)
<1> USE DEF Search!Next
<1>1. CASE BeginIteration
  BY <1>1, BeginIterationMaps
<1>2. CASE StopBeforeFuzzing \/ LeaveLoop \/ MustStop \/ CountAndStop
           \/ TooManyMachines
  BY <1>2, EndMaps
<1>3. ASSUME NEW outcome \in Outcomes, Execute(outcome)
      PROVE  [Search!Next]_(Search!searchVars)
  BY <1>3, ExecuteMaps
<1>4. CASE StartReproduction
  BY <1>4, StartReproductionMaps
<1>5. CASE ReportFatalFault
  BY <1>5, ReportFatalFaultMaps
<1>6. CASE ReportFault
  BY <1>6, ReportFaultMaps
<1>7. CASE KeepFuzzing
  BY <1>7, KeepFuzzingMaps
<1>8. CASE AttemptFailed
  BY <1>8, AttemptFailedMaps
<1>9. CASE RestartVerified \/ ShallowStep \/ DeepStep \/ PlainStep
           \/ ContinueLoop
  BY <1>9, WindowStepMaps
<1>10. CASE GiveUpSearch
  BY <1>10, GiveUpSearchMaps
<1>11. CASE JumpBack
  BY <1>11, JumpBackMaps
<1>12. CASE Advance
  BY <1>12, AdvanceMaps
<1>13. CASE RequestStop \/ Terminated
  BY <1>13, OtherStepMaps
<1>14. CASE UNCHANGED vars
  <2>1. UNCHANGED <<options, reproVars, lastReproFault, SessionMode,
                    NextTestCase>>
    BY <1>14 DEF vars, stateVars, loopVars, flagVars, reproVars, SessionMode,
       NextTestCase
  <2> QED
    BY <2>1, SessionStays DEF reproVars
<1> QED
  BY <1>1, <1>2, <1>3, <1>4, <1>5, <1>6, <1>7, <1>8, <1>9, <1>10, <1>11,
     <1>12, <1>13, <1>14
  DEF Next, EngineStep, LoopStep, Judge, LoopTail

\* SetTotals is what narrows the range, and it knows the count.
LEMMA RangeStays ==
  ASSUME RangeAsConfigured, [Next]_vars
  PROVE  RangeAsConfigured'
BY DEF RangeAsConfigured, Next, EngineStep, LoopStep, Judge, LoopTail, vars,
   stateVars, loopVars, BeginIteration, StopBeforeFuzzing, LeaveLoop, Execute,
   StartReproduction, ReportFatalFault, ReportFault, KeepFuzzing, AttemptFailed,
   RestartVerified, GiveUpSearch, JumpBack, ShallowStep, DeepStep, PlainStep,
   WindowFrame, SearchFrame, MustStop, ContinueLoop, CountAndStop,
   TooManyMachines, Advance, SetTotals, RequestStop, Terminated

\* The engine's loop is a session of FaultSearch: no test case is left out or
\* fuzzed twice because of a search, the windows grow to the limit before a
\* search is given up, and none enters what an earlier search has covered.
THEOREM EngineImplementsSession == Spec => Search!Spec
<1>1. Init => RangeAsConfigured
  BY DEF Init, RangeAsConfigured
<1>2. RangeAsConfigured /\ [Next]_vars => RangeAsConfigured'
  BY RangeStays
<1>3. Init => Search!Init
  BY InitMaps
<1>4. IInv /\ RangeAsConfigured /\ [Next]_vars
        => [Search!Next]_(Search!searchVars)
  BY StepMaps
<1>5. Spec => []IInv
  BY Invariance
<1> QED
  BY <1>1, <1>2, <1>3, <1>4, <1>5, PTL DEF Spec, Search!Spec

-----------------------------------------------------------------------------
(* The floor of the searches.                                              *)

\* The verdict on a fault lifts the floor: a search ends where it began, past
\* everything that was searched before.
LEMMA VerdictLiftsFloor ==
  ASSUME IInv, pc = "judging", lastReproFault' = SearchedUpTo
  PROVE  lastReproFault <= lastReproFault'
<1>1. /\ iterationCount \in Nat /\ reproducingInitialIteration \in Nat
      /\ reproducingIterationJumpCount \in Nat /\ lastReproFault \in Nat
  BY DEF IInv, TypeOK, CountersOK
<1>2. lastReproFault < Initial
  BY <1>1 DEF IInv, SearchShape, IterationShape, NextIteration, Initial
<1> QED
  BY <1>1, <1>2 DEF SearchedUpTo, Initial, Bit

\* What a search has covered stays covered: the floor of the searches never
\* falls, whatever faults come, and whatever is resumed after them.
THEOREM FloorNeverFalls == Spec => [][lastReproFault <= lastReproFault']_vars
<1>1. ASSUME IInv, [Next]_vars
      PROVE  [lastReproFault <= lastReproFault']_vars
  <2>1. CASE ReportFault
    BY <1>1, <2>1, VerdictLiftsFloor DEF ReportFault, FaultReported
  <2>2. CASE GiveUpSearch
    BY <1>1, <2>2, VerdictLiftsFloor
    DEF GiveUpSearch, WindowFailed, Searching, NoFault
  <2>3. CASE UNCHANGED lastReproFault
    BY <1>1, <2>3 DEF IInv, TypeOK, CountersOK
  <2>4. ReportFault \/ GiveUpSearch \/ UNCHANGED lastReproFault
    BY <1>1
    DEF Next, EngineStep, LoopStep, Judge, LoopTail, vars, stateVars, loopVars,
        BeginIteration, StopBeforeFuzzing, LeaveLoop, Execute,
        StartReproduction, ReportFatalFault, KeepFuzzing, AttemptFailed,
        RestartVerified, JumpBack, ShallowStep, DeepStep, PlainStep,
        WindowFrame, MustStop, ContinueLoop, CountAndStop, TooManyMachines,
        Advance, RequestStop, Terminated
  <2> QED
    BY <2>1, <2>2, <2>3, <2>4
<1>2. Spec => []IInv
  BY Invariance
<1> QED
  BY <1>1, <1>2, PTL DEF Spec

=============================================================================

