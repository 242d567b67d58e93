------------------------ MODULE SessionTarget_proofs ------------------------
(***************************************************************************)
(* What SessionTarget asks of the search, for all values of its constants. *)
(* The invariant of the loop is taken from FuzzEngine_proofs: the          *)
(* composition is one of its runs. Beside it SearchInv says where a search *)
(* stands in its window, RunInv what a machine that has the run to itself  *)
(* has fuzzed, DataInv with which data, RangeInv, CauseInv and RetraceInv  *)
(* how far the target has come towards its bug. One lemma for every action *)
(* of the loop, or for each of Begin, Run and Rest, shows that it keeps    *)
(* these.                                                                  *)
(***************************************************************************)
EXTENDS SessionTarget, FuzzEngine_proofs

-----------------------------------------------------------------------------
(* Where a search stands: SearchInv, and RunInv with it, action by action. *)

\* Where the block changes from one iteration to the next, a block begins.
LEMMA BlockBegins ==
  ASSUME NEW i \in Nat \ {0}, GetSwitchIteration(i) # GetSwitchIteration(i + 1)
  PROVE  GetSwitchIteration(i + 1) = i + 1
<1> DEFINE n == SwitchCount
           r == (i - 1) % n
           s == i % n
           d == i \div n - (i - 1) \div n
<1>1. n \in Nat \ {0}
  BY EngineAssumption
<1> HIDE DEF n
<1>2. /\ r \in 0..n - 1 /\ s \in 0..n - 1 /\ d \in Int
      /\ n * d = r + 1 - s
  BY <1>1
<1> HIDE DEF r, s, d
<1>3. d >= 2 => n * d >= n * 2
  BY <1>1, <1>2
<1>4. d <= -1 => n * d <= n * (-1)
  BY <1>1, <1>2
<1>5. CASE d = 0
  BY <1>1, <1>2, <1>5 DEF GetSwitchIteration, n, r, s
<1>6. CASE d # 0
  <2>1. d = 1
    BY <1>1, <1>2, <1>3, <1>4, <1>6
  <2>2. s = 0
    BY <1>1, <1>2, <2>1
  <2> QED
    BY <2>2 DEF GetSwitchIteration, n, s
<1> QED
  BY <1>5, <1>6

\* What is known inside a window.
LEMMA InWindowFacts ==
  ASSUME IInv, SearchInv, InWindow
  PROVE  /\ pc = "judging" /\ faults = "none" /\ reproducingFault /\ Session
         /\ InLoop /\ NextIteration = iterationCount
         /\ iterationCount \in Nat \ {0} /\ replayed \in Nat
         /\ controlIteration \in BOOLEAN
         /\ reproducingControlIteration \in BOOLEAN
         /\ reproducingInitialIteration \in Nat
         /\ reproducingIterationJumpCount \in Nat
         /\ iterationCount <= reproducingInitialIteration
         /\ reproducingInitialIteration - reproducingIterationJumpCount
              <= iterationCount
         /\ ~controlIterationAfterFault /\ ~controlAfterRepro
         /\ controlIteration => iterationCount = Due
         /\ ~controlIteration => replayed = iterationCount
         /\ reproducingControlIteration
              => iterationCount # reproducingInitialIteration
<1>1. /\ pc = "judging" /\ faults = "none" /\ reproducingFault /\ Session
      /\ ~controlIterationAfterFault /\ ~AtWindowEnd
  BY DEF InWindow, Searching, NoFault
<1>2. /\ InLoop /\ NextIteration = iterationCount
      /\ iterationCount \in Nat \ {0} /\ replayed \in Nat
      /\ controlIteration \in BOOLEAN
      /\ reproducingControlIteration \in BOOLEAN
      /\ controlAfterRepro \in BOOLEAN
      /\ reproducingInitialIteration \in Nat
      /\ reproducingIterationJumpCount \in Nat
      /\ iterationCount <= reproducingInitialIteration
      /\ reproducingInitialIteration - reproducingIterationJumpCount
           <= iterationCount
  BY <1>1 DEF InLoop, NextIteration, OrderInv, SearchInv, IInv, TypeOK,
    CountersOK, FlagsOK, IterationShape
<1>3. reproducingControlIteration => ~controlAfterRepro
  BY <1>1 DEF SearchShape, IInv
<1>4. controlAfterRepro = FALSE
  BY <1>1, <1>2, <1>3 DEF OrderInv, SearchInv, AtWindowEnd
<1>5. reproducingControlIteration
        => iterationCount # reproducingInitialIteration
  BY <1>1, <1>2, <1>4 DEF StopShortInv, SearchInv, AtWindowEnd
<1> QED
  BY <1>1, <1>2, <1>4, <1>5 DEF OrderInv, SearchInv, IsDue

\* The strategy may turn the next iteration into a recording one.
LEMMA BeginIterationSession ==
  ASSUME IInv, IInv', SearchInv, BeginIteration,
         UNCHANGED replayed, UNCHANGED <<fuzzedWith, controlled>>
  PROVE  /\ SearchInv'
         /\ "parallel" \notin RunModes /\ RunInv => RunInv'
<1>1. /\ controlIteration' =
           (controlIteration \/ PeriodicControl \/ SeedRandomDataSet)
      /\ controlRecordingIteration' =
           (controlRecordingIteration \/ SeedRandomDataSet)
      /\ ~controlIteration' => ~controlIteration /\ ~PeriodicControl
      /\ pc = "top" /\ pc' = "running"
      /\ UNCHANGED <<options, iterationCount, totalKnown, lastControlIteration,
                     lastReproFault, reproVars>>
  BY DEF BeginIteration, SetStrategyIteration
<1>2. /\ lastSwitchIteration' = 0
           => lastSwitchIteration = 0 /\ ~SeedRandomDataSet
      /\ SeedRandomDataSet => lastSwitchIteration = 0 \/ Switches
      /\ lastSwitchIteration = 0 => SeedRandomDataSet
  <2>1. GetSwitchIteration(iterationCount) # 0
    <3>1. iterationCount \in Nat \ {0}
      BY <1>1 DEF IInv, TypeOK, CountersOK, IterationShape, NextIteration
    <3> QED
      BY <3>1, SwitchIterationType
  <2> QED
    BY <2>1 DEF BeginIteration, SetStrategyIteration, SeedRandomDataSet
<1>3. Switches' = Switches
  BY <1>1 DEF Switches, options
<1>4. FaultFlagInv'
  BY DEF BeginIteration, options, FaultFlagInv, Session, IInv, SearchShape,
    FirstIterationShape, FlagShape, SearchInv
<1>5. OrderInv'
  BY DEF BeginIteration, SetStrategyIteration, reproVars, OrderInv, InLoop,
    Due, IsDue, NextIteration, IInv, TypeOK, FlagsOK, SearchInv
<1>6. PlainInv'
  <2>1. ControlEvery = 0 => ~PeriodicControl
    BY DEF PeriodicControl
  <2>2. /\ controlIteration \in BOOLEAN /\ controlRecordingIteration \in BOOLEAN
        /\ reproducingControlRecordingIteration \in BOOLEAN
        /\ InLoop /\ InLoop' /\ NextIteration' = NextIteration
    BY <1>1 DEF IInv, TypeOK, FlagsOK, InLoop, NextIteration
  <2>3. ControlEvery = 0 /\ ~reproducingFault /\ controlIteration'
          /\ (controlRecordingIteration' => ~Switches)
          => controlIteration /\ (controlRecordingIteration => ~Switches)
    BY <1>1, <1>2, <2>1, <2>2 DEF BlockInv, SearchInv
  <2> QED
    BY <1>1, <1>3, <2>2, <2>3 DEF PlainInv, SearchInv, reproVars
<1>7. StopShortInv'
  BY DEF BeginIteration, SetStrategyIteration, reproVars, StopShortInv, InLoop,
    NextIteration, IInv, TypeOK, FlagsOK, FirstIterationShape, SearchInv
<1>8. /\ InLoop /\ InLoop' /\ NextIteration' = NextIteration
      /\ NextIteration = iterationCount /\ iterationCount \in Nat \ {0}
      /\ controlRecordingIteration \in BOOLEAN
      /\ controlIteration \in BOOLEAN /\ replayed \in Nat
      /\ Due' = Due /\ IsDue' = IsDue /\ CutShort' = CutShort
      /\ WindowHasControls' = WindowHasControls
      /\ UNCHANGED <<controlAfterRepro, controlIterationAfterFault>>
  BY <1>1, <1>3 DEF BeginIteration, InLoop, NextIteration, Due, IsDue,
    CutShort, WindowHasControls, reproVars, IInv, TypeOK, CountersOK, FlagsOK,
    IterationShape, SearchInv, OrderInv
<1>9. reproducingFault => lastSwitchIteration # 0 /\ ~PeriodicControl
  BY <1>1, <1>8 DEF BlockInv, SearchInv, PeriodicControl
<1>10. Switches => lastSwitchIteration' = GetSwitchIteration(iterationCount)
  BY DEF BeginIteration, SetStrategyIteration, SeedRandomDataSet
<1>11. reproducingFault /\ Switches /\ replayed = 0
         /\ reproducingIterationJumpCount = 0
         => iterationCount = reproducingInitialIteration /\ ~SeedRandomDataSet
  <2>1. ASSUME reproducingFault, replayed = 0, reproducingIterationJumpCount = 0
        PROVE  iterationCount = reproducingInitialIteration
    BY <1>1, <1>8, <2>1 DEF IInv, IterationShape, TypeOK, CountersOK
  <2> QED
    BY <1>1, <1>8, <1>9, <2>1 DEF BlockInv, SearchInv, SeedRandomDataSet
<1>12. BlockInv'
  <2>1. SeedRandomDataSet /\ reproducingFault => Switches
    BY <1>2, <1>9
  <2> QED
    BY <1>1, <1>2, <1>3, <1>8, <1>9, <1>10, <1>11, <2>1 DEF BlockInv,
      SearchInv, reproVars
<1>13. WindowInv'
  <2> SUFFICES ASSUME reproducingFault, ~CutShort PROVE WindowInv'
    BY <1>1, <1>8 DEF WindowInv, reproVars
  <2>1. /\ controlAfterRepro => replayed = reproducingInitialIteration
        /\ IsDue => iterationCount = Due
        /\ controlAfterRepro => controlIteration
        /\ IsDue <=> ~controlAfterRepro
    BY <1>1, <1>8 DEF WindowInv, SearchInv, OrderInv, IsDue
  <2>2. Switches /\ replayed # 0 /\ replayed # reproducingInitialIteration
          => lastSwitchIteration' = GetSwitchIteration(replayed + 1)
    BY <1>10, <2>1 DEF Due
  <2>3. ASSUME SeedRandomDataSet, ~controlIteration, replayed # 0
        PROVE  /\ Switches /\ reproducingIterationJumpCount # 0
               /\ GetSwitchIteration(iterationCount) = iterationCount
    <3>1. /\ iterationCount = replayed + 1
          /\ iterationCount <= reproducingInitialIteration
          /\ reproducingInitialIteration - reproducingIterationJumpCount
               <= replayed
          /\ reproducingInitialIteration \in Nat
          /\ reproducingIterationJumpCount \in Nat
      BY <1>1, <1>8, <2>1, <2>3 DEF Due, SearchInv, OrderInv, IInv,
        IterationShape, TypeOK, CountersOK
    <3>2. reproducingIterationJumpCount # 0
      BY <1>8, <3>1
    <3>3. Switches /\ lastSwitchIteration # GetSwitchIteration(replayed + 1)
      BY <1>2, <1>9, <2>3, <3>1 DEF SeedRandomDataSet
    <3>4. replayed # reproducingInitialIteration
      BY <1>8, <3>1
    <3>5. lastSwitchIteration = GetSwitchIteration(replayed)
      BY <1>8, <2>3, <3>3, <3>4 DEF WindowInv, SearchInv
    <3> QED
      BY <1>8, <2>3, <3>1, <3>2, <3>3, <3>5, BlockBegins
  <2>4. ASSUME controlIteration', ~controlIteration
        PROVE  \/ replayed = 0 /\ reproducingIterationJumpCount # 0
               \/ /\ Switches /\ reproducingIterationJumpCount # 0
                  /\ GetSwitchIteration(NextIteration) = NextIteration
    <3>1. SeedRandomDataSet /\ Switches
      BY <1>1, <1>2, <1>9, <2>4
    <3> QED
      BY <1>8, <1>11, <2>3, <2>4, <3>1
  <2>5. controlIteration => controlIteration'
    BY <1>1
  <2> QED
    BY <1>1, <1>3, <1>8, <2>1, <2>2, <2>4, <2>5 DEF WindowInv, SearchInv,
      reproVars
<1>14. ASSUME "parallel" \notin RunModes, RunInv PROVE RunInv'
  <2>1. HistoryInv'
    BY <1>14 DEF BeginIteration, reproVars, HistoryInv, InLoop, LastFuzzed,
      RunInv
  <2>2. ControlInv'
    BY <1>14 DEF BeginIteration, SetStrategyIteration, options, reproVars,
      ControlInv, InLoop, Session, IInv, TypeOK, FlagsOK, RunInv
  <2>3. ControlComesFirst'
    BY <1>14, <1>1 DEF ControlComesFirst, ControlInv, PeriodicControl, InLoop,
      RunInv, reproVars
  <2> QED
    BY <2>1, <2>2, <2>3 DEF RunInv
<1> QED
  BY <1>4, <1>5, <1>6, <1>7, <1>12, <1>13, <1>14 DEF SearchInv

\* The run is over before its first test case.
LEMMA StopBeforeFuzzingSession ==
  ASSUME IInv, IInv', SearchInv, StopBeforeFuzzing,
         UNCHANGED replayed, UNCHANGED <<fuzzedWith, controlled>>
  PROVE  /\ SearchInv'
         /\ "parallel" \notin RunModes /\ RunInv => RunInv'
<1>1. FaultFlagInv'
  BY DEF StopBeforeFuzzing, options, FaultFlagInv, InLoop, Session, SearchInv
<1>2. OrderInv'
  BY DEF StopBeforeFuzzing, OrderInv, InLoop, SearchInv
<1>3. PlainInv'
  BY DEF StopBeforeFuzzing, PlainInv, InLoop
<1>4. StopShortInv'
  BY DEF StopBeforeFuzzing, StopShortInv, InLoop
<1>5. BlockInv'
  BY DEF StopBeforeFuzzing, BlockInv, InLoop
<1>6. WindowInv'
  BY DEF StopBeforeFuzzing, WindowInv, InLoop
<1>7. ASSUME "parallel" \notin RunModes, RunInv PROVE RunInv'
  <2>1. HistoryInv'
    BY <1>7 DEF StopBeforeFuzzing, loopVars, HistoryInv, InLoop, RunInv
  <2>2. ControlInv'
    BY <1>7 DEF StopBeforeFuzzing, ControlInv, InLoop
  <2>3. ControlComesFirst'
    BY <1>7 DEF StopBeforeFuzzing, ControlComesFirst
  <2> QED
    BY <2>1, <2>2, <2>3 DEF RunInv
<1> QED
  BY <1>1, <1>2, <1>3, <1>4, <1>5, <1>6, <1>7 DEF SearchInv

\* The loop is left.
LEMMA LeaveLoopSession ==
  ASSUME IInv, IInv', SearchInv, LeaveLoop,
         UNCHANGED replayed, UNCHANGED <<fuzzedWith, controlled>>
  PROVE  /\ SearchInv'
         /\ "parallel" \notin RunModes /\ RunInv => RunInv'
<1>1. FaultFlagInv'
  BY DEF LeaveLoop, options, stateVars, FaultFlagInv, InLoop, Session,
    SearchInv
<1>2. OrderInv'
  BY DEF LeaveLoop, OrderInv, InLoop, SearchInv
<1>3. PlainInv'
  BY DEF LeaveLoop, PlainInv, InLoop
<1>4. StopShortInv'
  BY DEF LeaveLoop, StopShortInv, InLoop
<1>5. BlockInv'
  BY DEF LeaveLoop, BlockInv, InLoop
<1>6. WindowInv'
  BY DEF LeaveLoop, WindowInv, InLoop
<1>7. ASSUME "parallel" \notin RunModes, RunInv PROVE RunInv'
  <2>1. HistoryInv'
    BY <1>7 DEF LeaveLoop, loopVars, stateVars, HistoryInv, InLoop, RunInv
  <2>2. ControlInv'
    BY <1>7 DEF LeaveLoop, ControlInv, InLoop
  <2>3. ControlComesFirst'
    BY <1>7 DEF LeaveLoop, ControlComesFirst
  <2> QED
    BY <2>1, <2>2, <2>3 DEF RunInv
<1> QED
  BY <1>1, <1>2, <1>3, <1>4, <1>5, <1>6, <1>7 DEF SearchInv

\* A search begins: nothing is replayed yet.
LEMMA StartReproductionSession ==
  ASSUME IInv, IInv', SearchInv, StartReproduction,
         replayed' = 0, UNCHANGED <<fuzzedWith, controlled>>
  PROVE  /\ SearchInv'
         /\ "parallel" \notin RunModes /\ RunInv => RunInv'
<1>1. FaultFlagInv'
  BY DEF StartReproduction, RememberSearch, Initial, OnControl, OnRecording,
    options, FaultFlagInv, InLoop, Session, IInv, TypeOK, PlacesOK, CountersOK,
    FlagsOK, SearchShape, IterationShape, FirstIterationShape, RestartShape,
    FlagShape, SearchInv
<1>2. OrderInv'
  BY DEF StartReproduction, RememberSearch, OrderInv, Due, NextIteration, IInv,
    TypeOK, CountersOK, FlagsOK, IterationShape, FlagShape
<1>3. PlainInv'
  BY DEF StartReproduction, RememberSearch, OnControl, OnRecording, options,
    PlainInv, InLoop, NextIteration, Switches, IInv, TypeOK, CountersOK,
    IterationShape, SearchInv
<1>4. StopShortInv'
  BY DEF StartReproduction, RememberSearch, OnControl, StopShortInv, IInv,
    TypeOK, FlagsOK, FirstIterationShape
<1>5. BlockInv'
  BY DEF StartReproduction, RememberSearch, OnControl, OnRecording, options,
    BlockInv, InLoop, NextIteration, Switches, IInv, TypeOK, CountersOK,
    FlagsOK, IterationShape, FlagShape, SearchInv
<1>6. WindowInv'
  BY DEF StartReproduction, RememberSearch, OnControl, WindowInv, Due,
    NextIteration, IInv, TypeOK, CountersOK, FlagsOK, IterationShape
<1>7. ASSUME "parallel" \notin RunModes, RunInv PROVE RunInv'
  <2>1. HistoryInv'
    BY <1>7 DEF StartReproduction, RememberSearch, Initial, OnControl,
      HistoryInv, InLoop, LastFuzzed, Bit, IInv, TypeOK, CountersOK, RunInv
  <2>2. ControlInv'
    BY <1>7 DEF StartReproduction, RememberSearch, Initial, OnControl,
      ControlInv, InLoop, IInv, TypeOK, FlagsOK, RunInv
  <2>3. ControlComesFirst'
    BY <1>7 DEF StartReproduction, ControlComesFirst
  <2> QED
    BY <2>1, <2>2, <2>3 DEF RunInv
<1> QED
  BY <1>1, <1>2, <1>3, <1>4, <1>5, <1>6, <1>7 DEF SearchInv

\* A fault that ends the run.
LEMMA ReportFatalFaultSession ==
  ASSUME IInv, IInv', SearchInv, ReportFatalFault,
         UNCHANGED replayed, UNCHANGED <<fuzzedWith, controlled>>
  PROVE  /\ SearchInv'
         /\ "parallel" \notin RunModes /\ RunInv => RunInv'
<1>1. FaultFlagInv'
  BY DEF ReportFatalFault, options, FaultFlagInv, InLoop, Session, SearchInv
<1>2. OrderInv'
  BY DEF ReportFatalFault, OrderInv, InLoop, SearchInv
<1>3. PlainInv'
  BY DEF ReportFatalFault, PlainInv, InLoop
<1>4. StopShortInv'
  BY DEF ReportFatalFault, StopShortInv, InLoop
<1>5. BlockInv'
  BY DEF ReportFatalFault, BlockInv, InLoop
<1>6. WindowInv'
  BY DEF ReportFatalFault, WindowInv, InLoop
<1>7. ASSUME "parallel" \notin RunModes, RunInv PROVE RunInv'
  <2>1. HistoryInv'
    BY <1>7 DEF ReportFatalFault, loopVars, HistoryInv, InLoop, RunInv
  <2>2. ControlInv'
    BY <1>7 DEF ReportFatalFault, ControlInv, InLoop
  <2>3. ControlComesFirst'
    BY <1>7 DEF ReportFatalFault, ControlComesFirst
  <2> QED
    BY <2>1, <2>2, <2>3 DEF RunInv
<1> QED
  BY <1>1, <1>2, <1>3, <1>4, <1>5, <1>6, <1>7 DEF SearchInv

\* A fault is reported: the session goes on after it.
LEMMA ReportFaultSession ==
  ASSUME IInv, IInv', SearchInv, ReportFault,
         UNCHANGED replayed, UNCHANGED <<fuzzedWith, controlled>>
  PROVE  /\ SearchInv'
         /\ "parallel" \notin RunModes /\ RunInv => RunInv'
<1>1. FaultFlagInv'
  BY DEF ReportFault, FaultReported, FaultIsFatal, JumpCount, OnControl,
    options, FaultFlagInv, Session, IInv, TypeOK, CountersOK, FlagsOK,
    SearchShape, FirstIterationShape
<1>2. OrderInv'
  BY DEF ReportFault, RememberSearch, ResumeAtFault, OrderInv, SearchInv
<1>3. PlainInv'
  BY DEF ReportFault, ResumeAtFault, SearchedUpTo, PlainInv, NextIteration,
    Bit, IInv, TypeOK, CountersOK
<1>4. StopShortInv'
  BY DEF ReportFault, StopShortInv, IInv, FlagShape
<1>5. BlockInv'
  BY DEF ReportFault, FaultReported, ResumeAtFault, OnControl, OnRecording,
    BlockInv, InLoop, SearchInv
<1>6. WindowInv'
  BY DEF ReportFault, ResumeAtFault, WindowInv
<1>7. ASSUME "parallel" \notin RunModes, RunInv PROVE RunInv'
  <2>1. HistoryInv'
    <3>1. SearchedUpTo >= lastReproFault /\ SearchedUpTo \in Int
      BY <1>7 DEF ReportFault, FaultReported, SearchedUpTo, Initial, Bit, IInv,
        TypeOK, CountersOK, IterationShape, NextIteration
    <3>2. LastFuzzed' = LastFuzzed /\ lastReproFault' = SearchedUpTo
      BY <1>7 DEF ReportFault, FaultReported, ResumeAtFault, LastFuzzed,
        Initial, OnControl, Bit, IInv, TypeOK, CountersOK
    <3>3. lastReproFault \in Nat /\ IterationStart \in Nat /\ InLoop
      BY <1>7, EngineAssumption DEF ReportFault, FaultReported, InLoop, IInv,
        TypeOK, CountersOK
    <3> QED
      BY <1>7, <3>1, <3>2, <3>3 DEF HistoryInv, SearchInv, RunInv
  <2>2. ControlInv'
    BY <1>7 DEF ReportFault, FaultReported, FaultIsFatal, ResumeAtFault,
      Initial, OnControl, ControlInv, InLoop, IInv, TypeOK, FlagsOK, RunInv
  <2>3. ControlComesFirst'
    BY <1>7 DEF ReportFault, ControlComesFirst
  <2> QED
    BY <2>1, <2>2, <2>3 DEF RunInv
<1> QED
  BY <1>1, <1>2, <1>3, <1>4, <1>5, <1>6, <1>7 DEF SearchInv

\* No fault, no search.
LEMMA KeepFuzzingSession ==
  ASSUME IInv, IInv', SearchInv, KeepFuzzing,
         UNCHANGED replayed, UNCHANGED <<fuzzedWith, controlled>>
  PROVE  /\ SearchInv'
         /\ "parallel" \notin RunModes /\ RunInv => RunInv'
<1>1. FaultFlagInv'
  BY DEF KeepFuzzing, NoFault, stateVars, FaultFlagInv, IInv, FlagShape
<1>2. OrderInv'
  BY DEF KeepFuzzing, loopVars, reproVars, stateVars, OrderInv, SearchInv
<1>3. PlainInv'
  BY DEF KeepFuzzing, NoFault, options, loopVars, flagVars, stateVars,
    PlainInv, InLoop, NextIteration, Bit, Switches, IInv, TypeOK, CountersOK,
    FlagShape, SearchInv
<1>4. StopShortInv'
  BY DEF KeepFuzzing, reproVars, stateVars, StopShortInv
<1>5. BlockInv'
  BY DEF KeepFuzzing, NoFault, flagVars, stateVars, BlockInv, InLoop, IInv,
    FlagShape, SearchInv
<1>6. WindowInv'
  BY DEF KeepFuzzing, NoFault, stateVars, WindowInv, IInv, FlagShape
<1>7. ASSUME "parallel" \notin RunModes, RunInv PROVE RunInv'
  <2>1. HistoryInv'
    BY <1>7 DEF KeepFuzzing, NoFault, loopVars, flagVars, stateVars,
      HistoryInv, InLoop, LastFuzzed, IInv, FlagShape, RunInv
  <2>2. ControlInv'
    BY <1>7 DEF KeepFuzzing, NoFault, loopVars, flagVars, stateVars,
      ControlInv, InLoop, IInv, FlagShape, RunInv
  <2>3. ControlComesFirst'
    BY <1>7 DEF KeepFuzzing, ControlComesFirst
  <2> QED
    BY <2>1, <2>2, <2>3 DEF RunInv
<1> QED
  BY <1>1, <1>2, <1>3, <1>4, <1>5, <1>6, <1>7 DEF SearchInv

\* The only attempt has failed: the session goes on.
LEMMA AttemptFailedSession ==
  ASSUME IInv, IInv', SearchInv, AttemptFailed,
         UNCHANGED replayed, UNCHANGED <<fuzzedWith, controlled>>
  PROVE  /\ SearchInv'
         /\ "parallel" \notin RunModes /\ RunInv => RunInv'
<1>1. /\ iterationCount = reproducingInitialIteration
      /\ NextIteration = iterationCount
      /\ iterationCount' = reproducingInitialIteration
      /\ controlIteration' = reproducingControlIteration
      /\ controlRecordingIteration' = reproducingControlRecordingIteration
      /\ pc = "judging" /\ pc' = "tail" /\ reproducingFault
      /\ ~reproducingFault' /\ ~Session
      /\ UNCHANGED <<options, lastReproFault, lastControlIteration,
                     controlIterationAfterFault>>
  BY DEF AttemptFailed, NoFault, ResumeAtFault, Initial, OnControl,
    OnRecording, IInv, TypeOK, CountersOK, SearchShape, IterationShape,
    NextIteration
<1>2. /\ iterationCount \in Nat /\ lastReproFault \in Nat
      /\ lastControlIteration \in Nat
      /\ reproducingControlIteration \in BOOLEAN
  BY DEF IInv, TypeOK, CountersOK, FlagsOK
<1>3. FaultFlagInv'
  BY DEF AttemptFailed, FaultFlagInv, SearchInv
<1>4. OrderInv'
  BY DEF AttemptFailed, ResumeAtFault, OrderInv, SearchInv
<1>5. PlainInv'
  <2>1. NextIteration' = IF reproducingControlIteration THEN iterationCount
                          ELSE iterationCount + 1
    BY <1>1, <1>2 DEF NextIteration, Bit
  <2>2. ~controlIterationAfterFault' /\ Switches' = Switches
    BY <1>1 DEF FaultFlagInv, SearchInv, Switches, options
  <2> QED
    BY <1>1, <1>2, <2>1, <2>2 DEF PlainInv, InLoop, SearchInv
<1>6. StopShortInv'
  BY DEF AttemptFailed, StopShortInv
<1>7. BlockInv'
  BY DEF AttemptFailed, NoFault, ResumeAtFault, OnControl, OnRecording,
    BlockInv, InLoop, SearchInv
<1>8. WindowInv'
  BY DEF AttemptFailed, ResumeAtFault, WindowInv
<1>9. ASSUME "parallel" \notin RunModes, RunInv PROVE RunInv'
  <2>1. HistoryInv'
    BY <1>9 DEF AttemptFailed, NoFault, ResumeAtFault, Initial, OnControl,
      HistoryInv, InLoop, LastFuzzed, Bit, IInv, TypeOK, CountersOK, RunInv
  <2>2. ControlInv'
    <3>1. ControlEvery > 0 /\ reproducingControlIteration
            => controlIteration /\ controlled = iterationCount
      BY <1>9, <1>1 DEF ControlInv, InLoop, SearchInv, RunInv
    <3> QED
      BY <1>9, <1>1, <1>2, <3>1 DEF ControlInv, InLoop, SearchInv, RunInv
  <2>3. ControlComesFirst'
    BY <1>9 DEF AttemptFailed, ControlComesFirst
  <2> QED
    BY <2>1, <2>2, <2>3 DEF RunInv
<1> QED
  BY <1>3, <1>4, <1>5, <1>6, <1>7, <1>8, <1>9 DEF SearchInv

\* The test case that was found faulty comes next.
LEMMA RestartVerifiedSession ==
  ASSUME IInv, IInv', SearchInv, RestartVerified,
         UNCHANGED replayed, UNCHANGED <<fuzzedWith, controlled>>
  PROVE  /\ SearchInv'
         /\ "parallel" \notin RunModes /\ RunInv => RunInv'
<1>1. /\ controlIterationAfterFault /\ reproducingFault
      /\ pc = "judging" /\ faults = "none" /\ pc' = "tail"
      /\ ~controlIteration' /\ ~controlIterationAfterFault'
      /\ iterationCount' = iterationCount - 1
      /\ UNCHANGED <<options, reproVars, faults, controlAfterRepro,
                     controlRecordingIteration, lastSwitchIteration,
                     lastReproFault, lastControlIteration>>
  BY DEF RestartVerified, NoFault, Searching, SearchFrame, FuzzAfterControl
<1>2. /\ iterationCount \in Nat
      /\ NextIteration' = iterationCount /\ NextIteration = iterationCount
  BY <1>1 DEF NextIteration, Bit, IInv, TypeOK, CountersOK
<1>3. Due' = Due /\ InLoop /\ InLoop'
  BY <1>1 DEF Due, InLoop, reproVars
<1>4. controlAfterRepro = FALSE /\ replayed \in Nat
  BY <1>1 DEF OrderInv, InLoop, SearchInv
<1>5. controlIteration /\ NextIteration = Due
  BY <1>1, <1>3, <1>4 DEF OrderInv, IsDue, SearchInv, SearchShape, IInv
<1>6. FaultFlagInv'
  BY DEF RestartVerified, FaultFlagInv
<1>7. OrderInv'
  BY <1>1, <1>2, <1>3, <1>4, <1>5 DEF OrderInv, IsDue, SearchInv, reproVars
<1>8. PlainInv'
  BY DEF RestartVerified, FuzzAfterControl, reproVars, PlainInv, IInv,
    SearchShape
<1>9. StopShortInv'
  BY DEF RestartVerified, reproVars, StopShortInv, IInv, SearchShape
<1>10. BlockInv'
  BY <1>1, <1>2, <1>3, <1>4, <1>5 DEF BlockInv, SearchInv, Switches, options,
    reproVars
<1>11. WindowInv'
  BY <1>1, <1>2, <1>3, <1>4, <1>5 DEF WindowInv, SearchInv, Switches, options,
    reproVars, CutShort
<1>12. ASSUME "parallel" \notin RunModes, RunInv PROVE RunInv'
  <2>1. HistoryInv'
    BY <1>12 DEF RestartVerified, NoFault, Searching, reproVars, HistoryInv,
      InLoop, LastFuzzed, RunInv
  <2>2. ControlInv'
    BY <1>12 DEF RestartVerified, NoFault, Searching, SearchFrame, reproVars,
      ControlInv, InLoop, IInv, SearchShape, RunInv
  <2>3. ControlComesFirst'
    BY <1>12 DEF RestartVerified, ControlComesFirst
  <2> QED
    BY <2>1, <2>2, <2>3 DEF RunInv
<1> QED
  BY <1>6, <1>7, <1>8, <1>9, <1>10, <1>11, <1>12 DEF SearchInv

\* The search has failed: the session goes on.
LEMMA GiveUpSearchSession ==
  ASSUME IInv, IInv', SearchInv, GiveUpSearch,
         UNCHANGED replayed, UNCHANGED <<fuzzedWith, controlled>>
  PROVE  /\ SearchInv'
         /\ "parallel" \notin RunModes /\ RunInv => RunInv'
<1>1. FaultFlagInv'
  BY DEF GiveUpSearch, WindowFailed, FaultFlagInv
<1>2. OrderInv'
  BY DEF GiveUpSearch, ResumeAtFault, OrderInv, SearchInv
<1>3. PlainInv'
  BY DEF GiveUpSearch, ResumeAtFault, SearchedUpTo, PlainInv, NextIteration,
    Bit, IInv, TypeOK, CountersOK
<1>4. StopShortInv'
  BY DEF GiveUpSearch, StopShortInv
<1>5. BlockInv'
  BY DEF GiveUpSearch, NoFault, Searching, SearchFrame, WindowFailed,
    ResumeAtFault, OnControl, OnRecording, BlockInv, InLoop, SearchInv
<1>6. WindowInv'
  BY DEF GiveUpSearch, ResumeAtFault, WindowInv
<1>7. ASSUME "parallel" \notin RunModes, RunInv PROVE RunInv'
  <2>1. HistoryInv'
    BY <1>7, EngineAssumption DEF GiveUpSearch, NoFault, Searching,
      WindowFailed, ResumeAtFault, SearchedUpTo, Initial, OnControl,
      HistoryInv, InLoop, LastFuzzed, Bit, IInv, TypeOK, CountersOK,
      SearchShape, RunInv
  <2>2. ControlInv'
    BY <1>7 DEF GiveUpSearch, NoFault, Searching, SearchFrame, WindowFailed,
      AtWindowEnd, ResumeAtFault, Initial, ControlInv, InLoop, RunInv
  <2>3. ControlComesFirst'
    BY <1>7 DEF GiveUpSearch, ControlComesFirst
  <2> QED
    BY <2>1, <2>2, <2>3 DEF RunInv
<1> QED
  BY <1>1, <1>2, <1>3, <1>4, <1>5, <1>6, <1>7 DEF SearchInv

\* A longer window: its first test case comes next.
LEMMA JumpBackSession ==
  ASSUME IInv, IInv', SearchInv, JumpBack,
         replayed' = 0, UNCHANGED <<fuzzedWith, controlled>>
  PROVE  /\ SearchInv'
         /\ "parallel" \notin RunModes /\ RunInv => RunInv'
<1>1. FaultFlagInv'
  BY DEF JumpBack, WindowFailed, FaultFlagInv
<1>2. OrderInv'
  BY DEF JumpBack, WindowStart, RestartsTarget, OrderInv, Due, NextIteration,
    Bit, IInv, TypeOK, CountersOK, FlagsOK, SearchShape, IterationShape
<1>3. PlainInv'
  BY DEF JumpBack, NoFault, Searching, SearchFrame, WindowFailed, options,
    PlainInv, InLoop, Switches, SearchInv
<1>4. StopShortInv'
  BY DEF JumpBack, WindowStart, NextJump, Lesser, StopShortInv, NextIteration,
    Bit, IInv, TypeOK, CountersOK
<1>5. BlockInv'
  BY DEF JumpBack, NoFault, Searching, SearchFrame, WindowFailed, NextJump,
    Lesser, BlockInv, InLoop, IInv, TypeOK, CountersOK, SearchInv
<1>6. WindowInv'
  BY DEF JumpBack, NoFault, Searching, SearchFrame, WindowFailed, WindowStart,
    NextJump, Lesser, WindowInv, Due, NextIteration, Bit, IInv, TypeOK,
    CountersOK
<1>7. ASSUME "parallel" \notin RunModes, RunInv PROVE RunInv'
  <2>1. HistoryInv'
    BY <1>7 DEF JumpBack, NoFault, Searching, WindowFailed, HistoryInv, InLoop,
      LastFuzzed, RunInv
  <2>2. ControlInv'
    BY <1>7 DEF JumpBack, NoFault, Searching, SearchFrame, WindowFailed,
      options, ControlInv, InLoop, Session, RunInv
  <2>3. ControlComesFirst'
    BY <1>7 DEF JumpBack, ControlComesFirst
  <2> QED
    BY <2>1, <2>2, <2>3 DEF RunInv
<1> QED
  BY <1>1, <1>2, <1>3, <1>4, <1>5, <1>6, <1>7 DEF SearchInv

\* In a window with a control iteration after each test case.
LEMMA ShallowStepSession ==
  ASSUME IInv, IInv', SearchInv, ShallowStep,
         UNCHANGED replayed, UNCHANGED <<fuzzedWith, controlled>>
  PROVE  /\ SearchInv'
         /\ "parallel" \notin RunModes /\ RunInv => RunInv'
<1>1. /\ pc = "judging" /\ faults = "none" /\ reproducingFault
      /\ InLoop /\ NextIteration = iterationCount
      /\ iterationCount \in Nat \ {0} /\ replayed \in Nat
      /\ reproducingInitialIteration \in Nat
      /\ reproducingIterationJumpCount \in Nat
      /\ iterationCount <= reproducingInitialIteration
      /\ reproducingInitialIteration - reproducingIterationJumpCount
           <= iterationCount
      /\ controlIteration \in BOOLEAN /\ reproducingControlIteration \in BOOLEAN
      /\ ~controlIterationAfterFault /\ ~controlAfterRepro
      /\ controlIteration => iterationCount = Due
      /\ ~controlIteration => replayed = iterationCount
      /\ reproducingControlIteration
           => iterationCount # reproducingInitialIteration
  BY InWindowFacts DEF ShallowStep
<1>2. /\ pc' = "tail" /\ InLoop' /\ reproducingFault'
      /\ Due' = Due /\ replayed' = replayed /\ ~controlIterationAfterFault'
      /\ UNCHANGED <<lastReproFault, lastControlIteration, lastSwitchIteration,
                     reproducingInitialIteration, reproducingIterationJumpCount,
                     reproducingControlIteration,
                     reproducingControlRecordingIteration>>
      /\ ~controlRecordingIteration' /\ Switches' = Switches
  BY <1>1 DEF ShallowStep, WindowFrame, SearchFrame, reproVars, Due, InLoop,
    Switches, options
<1>3. /\ controlIteration' => NextIteration' = iterationCount'
      /\ ~controlIteration' => NextIteration' = iterationCount' + 1
  <2>1. faults' = "none"
    BY <1>1 DEF ShallowStep, WindowFrame, SearchFrame
  <2>2. NextIteration' = iterationCount' + Bit(~controlIteration')
    BY <1>2, <2>1, Zenon DEF NextIteration
  <2>3. iterationCount' \in Nat /\ controlIteration' \in BOOLEAN
    BY DEF IInv, TypeOK, CountersOK, FlagsOK
  <2>4. controlIteration' => Bit(~controlIteration') = 0
    BY DEF Bit
  <2>5. ~controlIteration' => Bit(~controlIteration') = 1
    BY DEF Bit
  <2> QED
    BY <2>2, <2>3, <2>4, <2>5
<1>4. \/ /\ ~controlIteration /\ iterationCount = reproducingInitialIteration
         /\ controlIteration' /\ controlAfterRepro'
         /\ iterationCount' = iterationCount
      \/ /\ ~controlIteration /\ iterationCount # reproducingInitialIteration
         /\ controlIteration' /\ ~controlAfterRepro'
         /\ iterationCount' = iterationCount + 1
      \/ /\ controlIteration
         /\ ~controlIteration' /\ ~controlAfterRepro'
         /\ iterationCount' = iterationCount - 1
  <2>1. CASE controlIteration
    BY <2>1 DEF ShallowStep, FuzzAfterControl
  <2>2. CASE ~controlIteration
    <3>1. /\ controlIteration' = TRUE
          /\ iterationCount' = iterationCount
                   + Bit(~(iterationCount = reproducingInitialIteration))
          /\ controlAfterRepro' <=> iterationCount = reproducingInitialIteration
      BY <2>2, Zenon DEF ShallowStep
    <3> HIDE DEF Bit
    <3>2. Bit(TRUE) = 1 /\ Bit(FALSE) = 0
      BY DEF Bit
    <3>3. CASE iterationCount = reproducingInitialIteration
      <4>1. iterationCount' = iterationCount + 0
        BY <3>1, <3>2, <3>3
      <4> QED
        BY <1>1, <2>2, <3>1, <3>3, <4>1
    <3>4. CASE iterationCount # reproducingInitialIteration
      BY <1>1, <2>2, <3>1, <3>4 DEF Bit
    <3> QED
      BY <3>3, <3>4
  <2> QED
    BY <1>1, <2>1, <2>2
<1>5. reproducingIterationJumpCount <= 10
  BY DEF ShallowStep
<1>6. WindowHasControls /\ WindowHasControls'
  BY <1>2 DEF ShallowStep, WindowHasControls
<1>7. FaultFlagInv'
  BY DEF ShallowStep, InWindow, WindowFrame, FaultFlagInv
<1>8. OrderInv'
  BY <1>1, <1>2, <1>3, <1>4 DEF OrderInv, Due, IsDue, SearchInv
<1>9. PlainInv'
  BY DEF ShallowStep, NoFault, Searching, SearchFrame, InWindow, WindowFrame,
    options, reproVars, PlainInv, InLoop, Switches, SearchInv
<1>10. StopShortInv'
  BY <1>1, <1>2, <1>3, <1>4 DEF StopShortInv
<1>11. BlockInv'
  BY <1>1, <1>2 DEF BlockInv, SearchInv
<1>12. WindowInv'
  <2> SUFFICES ASSUME ~CutShort PROVE WindowInv'
    BY <1>2 DEF WindowInv, CutShort
  <2>1. Switches /\ replayed # 0 /\ replayed # reproducingInitialIteration =>
          lastSwitchIteration \in {GetSwitchIteration(replayed),
                                   GetSwitchIteration(replayed + 1)}
    BY <1>1 DEF WindowInv, SearchInv
  <2>2. controlIteration =>
          \/ replayed = 0
          \/ WindowHasControls /\ reproducingIterationJumpCount \in 1..10
          \/ /\ reproducingControlIteration
             /\ iterationCount = reproducingInitialIteration
          \/ /\ Switches /\ reproducingIterationJumpCount # 0
             /\ GetSwitchIteration(iterationCount) = iterationCount
    BY <1>1 DEF WindowInv, SearchInv
  <2>3. controlAfterRepro' => replayed = reproducingInitialIteration
    BY <1>1, <1>4, <1>5, <2>2 DEF Due
  <2>4. controlIteration' /\ ~controlAfterRepro' =>
          \/ replayed = 0
               /\ (reproducingIterationJumpCount = 0
                     => reproducingControlIteration)
          \/ WindowHasControls /\ reproducingIterationJumpCount \in 1..10
          \/ /\ reproducingControlIteration
             /\ NextIteration' = reproducingInitialIteration
    BY <1>1, <1>3, <1>4, <1>5, <1>6, <2>2 DEF Due
  <2>5. IsDue' => NextIteration' = Due'
    BY <1>1, <1>2, <1>3, <1>4, <1>5, <2>2 DEF Due, IsDue
  <2> QED
    BY <1>2, <2>1, <2>3, <2>4, <1>6, <2>5 DEF WindowInv
<1>13. ASSUME "parallel" \notin RunModes, RunInv PROVE RunInv'
  <2>1. HistoryInv'
    BY <1>13 DEF ShallowStep, NoFault, Searching, InWindow, WindowFrame,
      reproVars, HistoryInv, InLoop, LastFuzzed, RunInv
  <2>2. ControlInv'
    BY <1>13 DEF ShallowStep, NoFault, Searching, SearchFrame, InWindow,
      WindowFrame, options, reproVars, ControlInv, InLoop, Session, RunInv
  <2>3. ControlComesFirst'
    BY <1>13 DEF ShallowStep, WindowFrame, ControlComesFirst
  <2> QED
    BY <2>1, <2>2, <2>3 DEF RunInv
<1> QED
  BY <1>7, <1>8, <1>9, <1>10, <1>11, <1>12, <1>13 DEF SearchInv

\* In a window with a control iteration at its end.
LEMMA DeepStepSession ==
  ASSUME IInv, IInv', SearchInv, DeepStep,
         UNCHANGED replayed, UNCHANGED <<fuzzedWith, controlled>>
  PROVE  /\ SearchInv'
         /\ "parallel" \notin RunModes /\ RunInv => RunInv'
<1>1. /\ pc = "judging" /\ faults = "none" /\ reproducingFault
      /\ InLoop /\ NextIteration = iterationCount
      /\ iterationCount \in Nat \ {0} /\ replayed \in Nat
      /\ reproducingInitialIteration \in Nat
      /\ reproducingIterationJumpCount \in Nat
      /\ iterationCount <= reproducingInitialIteration
      /\ reproducingInitialIteration - reproducingIterationJumpCount
           <= iterationCount
      /\ controlIteration \in BOOLEAN /\ reproducingControlIteration \in BOOLEAN
      /\ ~controlIterationAfterFault /\ ~controlAfterRepro
      /\ controlIteration => iterationCount = Due
      /\ ~controlIteration => replayed = iterationCount
      /\ reproducingControlIteration
           => iterationCount # reproducingInitialIteration
  BY InWindowFacts DEF DeepStep
<1>2. /\ pc' = "tail" /\ InLoop' /\ reproducingFault'
      /\ Due' = Due /\ replayed' = replayed /\ ~controlIterationAfterFault'
      /\ UNCHANGED <<lastReproFault, lastControlIteration, lastSwitchIteration,
                     reproducingInitialIteration, reproducingIterationJumpCount,
                     reproducingControlIteration,
                     reproducingControlRecordingIteration>>
      /\ ~controlRecordingIteration' /\ Switches' = Switches
  BY <1>1 DEF DeepStep, WindowFrame, SearchFrame, reproVars, Due, InLoop,
    Switches, options
<1>3. /\ controlIteration' => NextIteration' = iterationCount'
      /\ ~controlIteration' => NextIteration' = iterationCount' + 1
  <2>1. faults' = "none"
    BY <1>1 DEF DeepStep, WindowFrame, SearchFrame
  <2>2. NextIteration' = iterationCount' + Bit(~controlIteration')
    BY <1>2, <2>1, Zenon DEF NextIteration
  <2>3. iterationCount' \in Nat /\ controlIteration' \in BOOLEAN
    BY DEF IInv, TypeOK, CountersOK, FlagsOK
  <2>4. controlIteration' => Bit(~controlIteration') = 0
    BY DEF Bit
  <2>5. ~controlIteration' => Bit(~controlIteration') = 1
    BY DEF Bit
  <2> QED
    BY <2>2, <2>3, <2>4, <2>5
<1>4. \/ /\ reproducingControlIteration
         /\ iterationCount + 1 = reproducingInitialIteration
         /\ controlIteration' /\ ~controlAfterRepro'
         /\ iterationCount' = iterationCount + 1
      \/ /\ ~reproducingControlIteration
         /\ iterationCount = reproducingInitialIteration
         /\ controlIteration' /\ controlAfterRepro'
         /\ iterationCount' = iterationCount
      \/ /\ reproducingControlIteration
              => iterationCount + 1 # reproducingInitialIteration
         /\ ~controlIteration' /\ ~controlAfterRepro'
         /\ iterationCount' = iterationCount - Bit(controlIteration)
  <2> DEFINE next == iterationCount + Bit(reproducingControlIteration)
  <2>1. next = IF reproducingControlIteration THEN iterationCount + 1
               ELSE iterationCount
    BY <1>1 DEF Bit
  <2>2. \/ /\ next = reproducingInitialIteration
           /\ controlIteration' = TRUE
           /\ iterationCount' = next
           /\ controlAfterRepro' <=> ~reproducingControlIteration
        \/ /\ next # reproducingInitialIteration /\ controlIteration
           /\ ~controlIteration' /\ ~controlAfterRepro'
           /\ iterationCount' = iterationCount - 1
        \/ /\ next # reproducingInitialIteration /\ ~controlIteration
           /\ ~controlIteration' /\ ~controlAfterRepro'
           /\ iterationCount' = iterationCount
    BY Zenon DEF DeepStep, FuzzAfterControl
  <2> HIDE DEF next
  <2>3. CASE reproducingControlIteration
    BY <1>1, <2>1, <2>2, <2>3 DEF Bit
  <2>4. CASE ~reproducingControlIteration
    BY <1>1, <2>1, <2>2, <2>4 DEF Bit
  <2> QED
    BY <2>3, <2>4
<1>5. reproducingIterationJumpCount > 10
  BY DEF DeepStep
<1>6. WindowHasControls /\ WindowHasControls'
  BY <1>2 DEF DeepStep, WindowHasControls
<1>7. FaultFlagInv'
  BY DEF DeepStep, InWindow, WindowFrame, FaultFlagInv
<1>8. OrderInv'
  BY <1>1, <1>2, <1>3, <1>4 DEF OrderInv, Due, IsDue, Bit, SearchInv
<1>9. PlainInv'
  BY DEF DeepStep, NoFault, Searching, SearchFrame, InWindow, WindowFrame,
    options, reproVars, PlainInv, InLoop, Switches, SearchInv
<1>10. StopShortInv'
  BY <1>1, <1>2, <1>3, <1>4 DEF StopShortInv, Bit
<1>11. BlockInv'
  BY <1>1, <1>2 DEF BlockInv, SearchInv
<1>12. WindowInv'
  <2> SUFFICES ASSUME ~CutShort PROVE WindowInv'
    BY <1>2 DEF WindowInv, CutShort
  <2>1. Switches /\ replayed # 0 /\ replayed # reproducingInitialIteration =>
          lastSwitchIteration \in {GetSwitchIteration(replayed),
                                   GetSwitchIteration(replayed + 1)}
    BY <1>1 DEF WindowInv, SearchInv
  <2>2. controlIteration =>
          \/ replayed = 0
          \/ WindowHasControls /\ reproducingIterationJumpCount \in 1..10
          \/ /\ reproducingControlIteration
             /\ iterationCount = reproducingInitialIteration
          \/ /\ Switches /\ reproducingIterationJumpCount # 0
             /\ GetSwitchIteration(iterationCount) = iterationCount
    BY <1>1 DEF WindowInv, SearchInv
  <2>3. controlIteration /\ GetSwitchIteration(iterationCount) = iterationCount
          /\ Switches /\ iterationCount = reproducingInitialIteration
                                          - Bit(reproducingControlIteration)
          => FALSE
    BY <1>5 DEF CutShort
  <2>4. controlAfterRepro' => replayed = reproducingInitialIteration
    BY <1>1, <1>4, <1>5, <2>2, <2>3 DEF Due, Bit
  <2>5. controlIteration' /\ ~controlAfterRepro' =>
          \/ replayed = 0
               /\ (reproducingIterationJumpCount = 0
                     => reproducingControlIteration)
          \/ WindowHasControls /\ reproducingIterationJumpCount \in 1..10
          \/ /\ reproducingControlIteration
             /\ NextIteration' = reproducingInitialIteration
    BY <1>1, <1>3, <1>4, <1>5, <1>6, <2>2, <2>3 DEF Due, Bit
  <2>6. IsDue' => NextIteration' = Due'
    BY <1>1, <1>2, <1>3, <1>4, <1>5, <2>2, <2>3 DEF Due, IsDue, Bit
  <2> QED
    BY <1>2, <2>1, <2>4, <2>5, <1>6, <2>6 DEF WindowInv
<1>13. ASSUME "parallel" \notin RunModes, RunInv PROVE RunInv'
  <2>1. HistoryInv'
    BY <1>13 DEF DeepStep, NoFault, Searching, InWindow, WindowFrame,
      reproVars, HistoryInv, InLoop, LastFuzzed, RunInv
  <2>2. ControlInv'
    BY <1>13 DEF DeepStep, NoFault, Searching, SearchFrame, InWindow,
      WindowFrame, reproVars, ControlInv, InLoop, IInv, SearchShape, RunInv
  <2>3. ControlComesFirst'
    BY <1>13 DEF DeepStep, WindowFrame, ControlComesFirst
  <2> QED
    BY <2>1, <2>2, <2>3 DEF RunInv
<1> QED
  BY <1>7, <1>8, <1>9, <1>10, <1>11, <1>12, <1>13 DEF SearchInv

\* In a window without control iterations of its own.
LEMMA PlainStepSession ==
  ASSUME IInv, IInv', SearchInv, PlainStep,
         UNCHANGED replayed, UNCHANGED <<fuzzedWith, controlled>>
  PROVE  /\ SearchInv'
         /\ "parallel" \notin RunModes /\ RunInv => RunInv'
<1>1. /\ pc = "judging" /\ faults = "none" /\ reproducingFault
      /\ InLoop /\ NextIteration = iterationCount
      /\ iterationCount \in Nat \ {0} /\ replayed \in Nat
      /\ reproducingInitialIteration \in Nat
      /\ reproducingIterationJumpCount \in Nat
      /\ iterationCount <= reproducingInitialIteration
      /\ reproducingInitialIteration - reproducingIterationJumpCount
           <= iterationCount
      /\ controlIteration \in BOOLEAN /\ reproducingControlIteration \in BOOLEAN
      /\ ~controlIterationAfterFault /\ ~controlAfterRepro
      /\ controlIteration => iterationCount = Due
      /\ ~controlIteration => replayed = iterationCount
      /\ reproducingControlIteration
           => iterationCount # reproducingInitialIteration
  BY InWindowFacts DEF PlainStep
<1>2. /\ pc' = "tail" /\ InLoop' /\ reproducingFault'
      /\ Due' = Due /\ replayed' = replayed /\ ~controlIterationAfterFault'
      /\ UNCHANGED <<lastReproFault, lastControlIteration, lastSwitchIteration,
                     reproducingInitialIteration, reproducingIterationJumpCount,
                     reproducingControlIteration,
                     reproducingControlRecordingIteration>>
      /\ ~controlRecordingIteration' /\ Switches' = Switches
  BY <1>1 DEF PlainStep, WindowFrame, SearchFrame, reproVars, Due, InLoop,
    Switches, options
<1>3. /\ controlIteration' => NextIteration' = iterationCount'
      /\ ~controlIteration' => NextIteration' = iterationCount' + 1
  <2>1. faults' = "none"
    BY <1>1 DEF PlainStep, WindowFrame, SearchFrame
  <2>2. NextIteration' = iterationCount' + Bit(~controlIteration')
    BY <1>2, <2>1, Zenon DEF NextIteration
  <2>3. iterationCount' \in Nat /\ controlIteration' \in BOOLEAN
    BY DEF IInv, TypeOK, CountersOK, FlagsOK
  <2>4. controlIteration' => Bit(~controlIteration') = 0
    BY DEF Bit
  <2>5. ~controlIteration' => Bit(~controlIteration') = 1
    BY DEF Bit
  <2> QED
    BY <2>2, <2>3, <2>4, <2>5
<1>4. /\ controlIteration' = FALSE /\ controlAfterRepro' = controlAfterRepro
      /\ iterationCount' = iterationCount - Bit(controlIteration)
      /\ ControlEvery = 0 /\ ~reproducingControlRecordingIteration
  BY <1>1, EngineAssumption DEF PlainStep, WindowHasControls
<1>5. FaultFlagInv'
  BY DEF PlainStep, InWindow, WindowFrame, FaultFlagInv
<1>6. OrderInv'
  BY <1>1, <1>2, <1>3, <1>4 DEF OrderInv, Due, IsDue, Bit, SearchInv
<1>7. PlainInv'
  BY DEF PlainStep, NoFault, Searching, InWindow, WindowFrame,
    WindowHasControls, reproVars, PlainInv, InLoop, SearchInv
<1>8. StopShortInv'
  <2>1. reproducingControlIteration
          => reproducingInitialIteration = lastReproFault + 1
    BY <1>1, <1>4 DEF PlainInv, InLoop, SearchInv
  <2>2. lastReproFault < iterationCount
    BY <1>1 DEF IInv, IterationShape, NextIteration
  <2> QED
    BY <1>1, <1>2, <1>3, <1>4, <2>1, <2>2 DEF StopShortInv, Bit, IInv, TypeOK,
      CountersOK
<1>9. BlockInv'
  BY <1>1, <1>2, <1>3, <1>4 DEF BlockInv, SearchInv
<1>10. WindowInv'
  BY <1>1, <1>2, <1>3, <1>4 DEF WindowInv, Due, Bit, SearchInv, CutShort
<1>11. ASSUME "parallel" \notin RunModes, RunInv PROVE RunInv'
  <2>1. HistoryInv'
    BY <1>11 DEF PlainStep, NoFault, Searching, InWindow, WindowFrame,
      reproVars, HistoryInv, InLoop, LastFuzzed, RunInv
  <2>2. ControlInv'
    BY <1>11 DEF PlainStep, WindowHasControls, ControlInv
  <2>3. ControlComesFirst'
    BY <1>11 DEF PlainStep, WindowHasControls, ControlComesFirst
  <2> QED
    BY <2>1, <2>2, <2>3 DEF RunInv
<1> QED
  BY <1>5, <1>6, <1>7, <1>8, <1>9, <1>10, <1>11 DEF SearchInv

\* A monitor ends the run.
LEMMA MustStopSession ==
  ASSUME IInv, IInv', SearchInv, MustStop,
         UNCHANGED replayed, UNCHANGED <<fuzzedWith, controlled>>
  PROVE  /\ SearchInv'
         /\ "parallel" \notin RunModes /\ RunInv => RunInv'
<1>1. FaultFlagInv'
  BY DEF MustStop, options, stateVars, FaultFlagInv, InLoop, Session, SearchInv
<1>2. OrderInv'
  BY DEF MustStop, OrderInv, InLoop, SearchInv
<1>3. PlainInv'
  BY DEF MustStop, PlainInv, InLoop
<1>4. StopShortInv'
  BY DEF MustStop, StopShortInv, InLoop
<1>5. BlockInv'
  BY DEF MustStop, BlockInv, InLoop
<1>6. WindowInv'
  BY DEF MustStop, WindowInv, InLoop
<1>7. ASSUME "parallel" \notin RunModes, RunInv PROVE RunInv'
  <2>1. HistoryInv'
    BY <1>7 DEF MustStop, loopVars, stateVars, HistoryInv, InLoop, RunInv
  <2>2. ControlInv'
    BY <1>7 DEF MustStop, ControlInv, InLoop
  <2>3. ControlComesFirst'
    BY <1>7 DEF MustStop, ControlComesFirst
  <2> QED
    BY <2>1, <2>2, <2>3 DEF RunInv
<1> QED
  BY <1>1, <1>2, <1>3, <1>4, <1>5, <1>6, <1>7 DEF SearchInv

\* A search that has begun leaves the counter alone.
LEMMA ContinueLoopSession ==
  ASSUME IInv, IInv', SearchInv, ContinueLoop,
         UNCHANGED replayed, UNCHANGED <<fuzzedWith, controlled>>
  PROVE  /\ SearchInv'
         /\ "parallel" \notin RunModes /\ RunInv => RunInv'
<1>1. FaultFlagInv'
  BY DEF ContinueLoop, options, reproVars, stateVars, FaultFlagInv, Session,
    IInv, SearchShape, FirstIterationShape, SearchInv
<1>2. OrderInv'
  BY DEF ContinueLoop, loopVars, flagVars, reproVars, stateVars, OrderInv,
    InLoop, Due, IsDue, NextIteration, SearchInv
<1>3. PlainInv'
  BY DEF ContinueLoop, options, loopVars, reproVars, stateVars, PlainInv,
    InLoop, Switches, SearchInv
<1>4. StopShortInv'
  BY DEF ContinueLoop, flagVars, reproVars, stateVars, StopShortInv, InLoop,
    NextIteration, IInv, TypeOK, CountersOK, SearchShape, IterationShape,
    RestartShape, SearchInv
<1>5. BlockInv'
  BY DEF ContinueLoop, options, flagVars, reproVars, stateVars, BlockInv,
    InLoop, Switches, SearchInv
<1>6. WindowInv'
  BY DEF ContinueLoop, options, loopVars, flagVars, reproVars, stateVars,
    WindowInv, InLoop, Due, IsDue, NextIteration, Switches, WindowHasControls,
    SearchInv, CutShort
<1>7. ASSUME "parallel" \notin RunModes, RunInv PROVE RunInv'
  <2>1. HistoryInv'
    BY <1>7 DEF ContinueLoop, loopVars, reproVars, stateVars, HistoryInv,
      InLoop, LastFuzzed, RunInv
  <2>2. ControlInv'
    BY <1>7 DEF ContinueLoop, loopVars, flagVars, reproVars, stateVars,
      ControlInv, InLoop, IInv, RestartShape, RunInv
  <2>3. ControlComesFirst'
    BY <1>7 DEF ContinueLoop, ControlComesFirst
  <2> QED
    BY <2>1, <2>2, <2>3 DEF RunInv
<1> QED
  BY <1>1, <1>2, <1>3, <1>4, <1>5, <1>6, <1>7 DEF SearchInv

\* The run was for the count only.
LEMMA CountAndStopSession ==
  ASSUME IInv, IInv', SearchInv, CountAndStop,
         UNCHANGED replayed, UNCHANGED <<fuzzedWith, controlled>>
  PROVE  /\ SearchInv'
         /\ "parallel" \notin RunModes /\ RunInv => RunInv'
<1>1. FaultFlagInv'
  BY DEF CountAndStop, options, stateVars, FaultFlagInv, InLoop, Session,
    SearchInv
<1>2. OrderInv'
  BY DEF CountAndStop, OrderInv, InLoop, SearchInv
<1>3. PlainInv'
  BY DEF CountAndStop, PlainInv, InLoop
<1>4. StopShortInv'
  BY DEF CountAndStop, StopShortInv, InLoop
<1>5. BlockInv'
  BY DEF CountAndStop, BlockInv, InLoop
<1>6. WindowInv'
  BY DEF CountAndStop, WindowInv, InLoop
<1>7. ASSUME "parallel" \notin RunModes, RunInv PROVE RunInv'
  <2>1. HistoryInv'
    BY <1>7 DEF CountAndStop, loopVars, stateVars, HistoryInv, InLoop, RunInv
  <2>2. ControlInv'
    BY <1>7 DEF CountAndStop, ControlInv, InLoop
  <2>3. ControlComesFirst'
    BY <1>7 DEF CountAndStop, ControlComesFirst
  <2> QED
    BY <2>1, <2>2, <2>3 DEF RunInv
<1> QED
  BY <1>1, <1>2, <1>3, <1>4, <1>5, <1>6, <1>7 DEF SearchInv

\* There is nothing to do for this machine.
LEMMA TooManyMachinesSession ==
  ASSUME IInv, IInv', SearchInv, TooManyMachines,
         UNCHANGED replayed, UNCHANGED <<fuzzedWith, controlled>>
  PROVE  /\ SearchInv'
         /\ "parallel" \notin RunModes /\ RunInv => RunInv'
<1>1. FaultFlagInv'
  BY DEF TooManyMachines, options, stateVars, FaultFlagInv, InLoop, Session,
    SearchInv
<1>2. OrderInv'
  BY DEF TooManyMachines, OrderInv, InLoop, SearchInv
<1>3. PlainInv'
  BY DEF TooManyMachines, PlainInv, InLoop
<1>4. StopShortInv'
  BY DEF TooManyMachines, StopShortInv, InLoop
<1>5. BlockInv'
  BY DEF TooManyMachines, BlockInv, InLoop
<1>6. WindowInv'
  BY DEF TooManyMachines, WindowInv, InLoop
<1>7. ASSUME "parallel" \notin RunModes, RunInv PROVE RunInv'
  <2>1. HistoryInv'
    BY <1>7 DEF TooManyMachines, IInv, TypeOK, PlacesOK
  <2>2. ControlInv'
    BY <1>7 DEF TooManyMachines, IInv, TypeOK, PlacesOK
  <2>3. ControlComesFirst'
    BY <1>7 DEF TooManyMachines, IInv, TypeOK, PlacesOK
  <2> QED
    BY <2>1, <2>2, <2>3 DEF RunInv
<1> QED
  BY <1>1, <1>2, <1>3, <1>4, <1>5, <1>6, <1>7 DEF SearchInv

\* The next test case, and the flags of the next pass.
LEMMA AdvanceSession ==
  ASSUME IInv, IInv', SearchInv, Advance,
         UNCHANGED replayed, UNCHANGED <<fuzzedWith, controlled>>
  PROVE  /\ SearchInv'
         /\ "parallel" \notin RunModes /\ RunInv => RunInv'
<1>1. FaultFlagInv'
  BY DEF Advance, AtTotals, LearnsTotal, SetTotals, SetNextFlags, options,
    flagVars, reproVars, FaultFlagInv, InLoop, Session, IInv, TypeOK, PlacesOK,
    CountersOK, FlagsOK, SearchShape, IterationShape, FirstIterationShape,
    RestartShape, FlagShape, SearchInv
<1>2. OrderInv'
  BY DEF Advance, AtTotals, LearnsTotal, SetNextFlags, flagVars, reproVars,
    OrderInv, InLoop, Due, IsDue, NextIteration, Bit, IInv, TypeOK, CountersOK,
    SearchShape, IterationShape, FirstIterationShape, RestartShape, SearchInv
<1>3. PlainInv'
  <2>1. /\ pc = "tail" /\ pc' = "top" /\ faults # "mustStop"
        /\ ~(reproducingFault /\ faults # "none")
        /\ UNCHANGED <<options, lastReproFault, reproVars>>
        /\ InLoop /\ InLoop' /\ Switches' = Switches
    BY DEF Advance, AtTotals, InLoop, Switches, options, IInv, TypeOK, PlacesOK
  <2>2. NextIteration' = iterationCount'
    BY <2>1 DEF NextIteration
  <2>3. CASE reproducingFault
    BY <2>1, <2>3 DEF PlainInv, SearchInv, reproVars
  <2>4. CASE ~reproducingFault /\ ~controlIterationAfterFault
    <3>1. ~controlIteration'
      BY <2>4 DEF Advance, SetNextFlags
    <3> QED
      BY <2>1, <2>4, <3>1 DEF PlainInv, reproVars
  <2>5. CASE ~reproducingFault /\ controlIterationAfterFault
    <3>1. iterationCount' = iterationCount + Bit(~controlIteration)
      BY <2>1, <2>5 DEF Advance, LearnsTotal, FaultFlagInv, SearchInv
    <3>2. NextIteration = iterationCount + Bit(~controlIteration)
      BY <2>1 DEF NextIteration
    <3>3. ControlEvery = 0 => NextIteration = lastReproFault + 1
      BY <2>1, <2>5 DEF PlainInv, SearchInv
    <3> QED
      BY <2>1, <2>2, <2>5, <3>1, <3>2, <3>3 DEF PlainInv, reproVars
  <2> QED
    BY <2>3, <2>4, <2>5
<1>4. StopShortInv'
  BY DEF Advance, AtTotals, LearnsTotal, SetNextFlags, flagVars, reproVars,
    StopShortInv, InLoop, NextIteration, IInv, TypeOK, CountersOK, SearchShape,
    IterationShape, RestartShape, SearchInv
<1>5. BlockInv'
  BY DEF Advance, AtTotals, SetNextFlags, options, flagVars, reproVars,
    BlockInv, InLoop, Switches, IInv, TypeOK, FlagsOK, SearchInv
<1>6. WindowInv'
  BY DEF Advance, AtTotals, LearnsTotal, SetNextFlags, options, flagVars,
    reproVars, WindowInv, InLoop, Due, IsDue, NextIteration, Switches,
    WindowHasControls, IInv, TypeOK, PlacesOK, FirstIterationShape, SearchInv,
    CutShort
<1>7. ASSUME "parallel" \notin RunModes, RunInv PROVE RunInv'
  <2>1. HistoryInv'
    <3>1. /\ UNCHANGED <<lastReproFault, reproVars>> /\ pc = "tail"
          /\ pc' = "top"
          /\ iterationCount' = iterationCount + Bit(~controlIteration)
      BY <1>7 DEF Advance, AtTotals, SetTotals, LearnsTotal, Bit, IInv, TypeOK,
        PlacesOK, CountersOK
    <3>2. LastFuzzed' = LastFuzzed
      BY <1>7, <3>1 DEF LastFuzzed, Bit, reproVars, IInv, TypeOK, CountersOK
    <3> QED
      BY <1>7, <3>1, <3>2 DEF HistoryInv, InLoop, SearchInv, RunInv
  <2>2. ControlInv'
    BY <1>7 DEF Advance, AtTotals, LearnsTotal, SetTotals, SetNextFlags,
      options, flagVars, reproVars, ControlInv, InLoop, Bit, Session, IInv,
      TypeOK, PlacesOK, CountersOK, RunInv
  <2>3. ControlComesFirst'
    BY <1>7 DEF Advance, ControlComesFirst
  <2> QED
    BY <2>1, <2>2, <2>3 DEF RunInv
<1> QED
  BY <1>1, <1>2, <1>3, <1>4, <1>5, <1>6, <1>7 DEF SearchInv

-----------------------------------------------------------------------------
(* All steps of the composition.                                           *)

\* The beginning: nothing is fuzzed, no search.
LEMMA InitSession == TargetInit => SearchInv /\ RunInv
<1> SUFFICES ASSUME TargetInit PROVE SearchInv /\ RunInv
  OBVIOUS
<1>1. /\ pc = "top" /\ InLoop /\ ~reproducingFault /\ controlIteration
      /\ ~controlIterationAfterFault /\ replayed = 0
      /\ iterationCount = IterationStart /\ NextIteration = IterationStart
      /\ lastReproFault = IterationStart - 1 /\ lastControlIteration = 0
      /\ IterationStart \in Nat \ {0}
  BY EngineAssumption DEF TargetInit, Init, InLoop, NextIteration
<1>2. lastReproFault + 1 = IterationStart
  BY <1>1
<1>3. FaultFlagInv /\ OrderInv /\ StopShortInv /\ ControlComesFirst
  BY <1>1 DEF FaultFlagInv, OrderInv, StopShortInv, ControlComesFirst
<1>4. PlainInv /\ BlockInv /\ WindowInv /\ ControlInv
  BY <1>1, <1>2 DEF PlainInv, BlockInv, WindowInv, ControlInv
<1>5. HistoryInv
  <2>1. LastFuzzed = IterationStart - 1
    BY <1>1 DEF LastFuzzed, Bit
  <2> QED
    BY <1>1, <1>2, <2>1 DEF HistoryInv
<1> QED
  BY <1>3, <1>4, <1>5 DEF SearchInv, RunInv

\* The first half of a pass.
LEMMA BeginSession ==
  ASSUME IInv, IInv', SearchInv, Begin
  PROVE  /\ SearchInv'
         /\ "parallel" \notin RunModes /\ RunInv => RunInv'
BY BeginIterationSession DEF Begin, historyVars

\* An iteration runs, whatever the target does.
LEMMA RunSession ==
  ASSUME IInv, IInv', SearchInv, Run
  PROVE  SearchInv' /\ (RunInv => RunInv')
<1>1. PICK outcome \in {"clean", "fault"} : Execute(outcome) /\ Remember
  BY DEF Run
<1>2. /\ pc = "running" /\ pc' \in {"judging", "error"}
      /\ UNCHANGED <<options, iterationCount, lastControlIteration,
                     lastReproFault, controlAfterRepro, flagVars,
                     controlIterationAfterFault, reproVars,
                     lastSwitchIteration>>
  BY <1>1 DEF Execute
<1>3. /\ iterationCount \in Nat /\ replayed \in Nat
      /\ controlIteration \in BOOLEAN /\ reproducingFault \in BOOLEAN
      /\ InLoop
  BY <1>2 DEF IInv, TypeOK, CountersOK, FlagsOK, SearchInv, OrderInv, InLoop
<1>4. /\ InLoop' => pc' = "judging"
      /\ NextIteration' = NextIteration /\ NextIteration = iterationCount
      /\ Session' = Session /\ Switches' = Switches
      /\ WindowHasControls' = WindowHasControls
  BY <1>2 DEF InLoop, NextIteration, Session, Switches, options, reproVars,
    WindowHasControls
<1>5. replayed' = IF reproducingFault /\ ~controlIteration THEN iterationCount
                  ELSE replayed
  BY <1>1 DEF Remember
<1>6. FaultFlagInv' /\ StopShortInv'
  BY <1>1, <1>2, <1>3, <1>4 DEF Execute, FaultFlagInv, StopShortInv, SearchInv,
    flagVars, reproVars
<1>7. reproducingFault =>
         reproducingInitialIteration - reproducingIterationJumpCount
           <= iterationCount
  BY <1>3, <1>4 DEF IInv, IterationShape, InLoop
<1>8. OrderInv'
  BY <1>2, <1>3, <1>4, <1>5, <1>7 DEF OrderInv, IsDue, Due, SearchInv,
    flagVars, reproVars
<1>9. PlainInv'
  BY <1>2, <1>3, <1>4 DEF PlainInv, SearchInv, flagVars, reproVars
<1>10. BlockInv'
  BY <1>2, <1>3, <1>4, <1>5 DEF BlockInv, IsDue, Due, SearchInv, OrderInv,
    flagVars, reproVars
<1>11. WindowInv'
  <2> SUFFICES ASSUME InLoop', reproducingFault, ~CutShort PROVE WindowInv'
    BY <1>2, <1>4 DEF WindowInv, CutShort, reproVars
  <2>1. CASE controlIteration
    <3>1. replayed' = replayed /\ Due' = Due /\ IsDue' = IsDue
      BY <1>2, <1>4, <1>5, <2>1 DEF Due, IsDue, reproVars, flagVars
    <3> QED
      BY <1>2, <1>3, <1>4, <2>1, <3>1 DEF WindowInv, SearchInv, flagVars,
        reproVars
  <2>2. CASE ~controlIteration
    <3>1. replayed' = iterationCount /\ ~IsDue' /\ ~controlAfterRepro
      BY <1>2, <1>3, <1>4, <1>5, <2>2 DEF IsDue, SearchInv, OrderInv, flagVars
    <3>2. Switches => lastSwitchIteration = GetSwitchIteration(iterationCount)
      BY <1>2, <1>3 DEF BlockInv, SearchInv
    <3> QED
      BY <1>2, <1>4, <2>2, <3>1, <3>2 DEF WindowInv, flagVars
  <2> QED
    BY <1>3, <2>1, <2>2
<1>12. ASSUME RunInv PROVE RunInv'
  <2>1. HistoryInv'
    <3>1. IterationStart <= lastReproFault' + 1
      BY <1>2, <1>12 DEF HistoryInv, RunInv
    <3>2. IterationStart..LastFuzzed \subseteq DOMAIN fuzzedWith
      BY <1>3, <1>12 DEF HistoryInv, RunInv
    <3>3. CASE controlIteration \/ reproducingFault
      <4>1. LastFuzzed' = LastFuzzed \/ ~InLoop'
        BY <1>2, <1>3, <1>4, <3>3 DEF LastFuzzed, Bit, flagVars, reproVars
      <4>2. fuzzedWith' = fuzzedWith
        BY <1>1, <3>3 DEF Remember
      <4> QED
        BY <3>1, <3>2, <4>1, <4>2 DEF HistoryInv
    <3>4. CASE ~controlIteration /\ ~reproducingFault
      <4>1. LastFuzzed = iterationCount - 1
        BY <1>2, <1>3, <3>4 DEF LastFuzzed, Bit
      <4>2. InLoop' => LastFuzzed' = iterationCount
        BY <1>2, <1>3, <1>4, <3>4 DEF LastFuzzed, Bit, flagVars, reproVars
      <4>3. DOMAIN fuzzedWith' = DOMAIN fuzzedWith \cup {iterationCount}
        BY <1>1, <3>4 DEF Remember, FuzzedNow
      <4>4. IterationStart \in Nat
        BY EngineAssumption
      <4>5. IterationStart..iterationCount
              \subseteq (IterationStart..(iterationCount - 1))
                          \cup {iterationCount}
        BY <1>3, <4>4
      <4> QED
        BY <3>1, <3>2, <4>1, <4>2, <4>3, <4>5 DEF HistoryInv
    <3> QED
      BY <3>3, <3>4
  <2>2. ControlInv'
    <3>1. controlIteration => controlled' = iterationCount
      BY <1>1 DEF Remember
    <3> QED
      BY <1>2, <1>3, <1>4, <1>12, <3>1 DEF ControlInv, RunInv, flagVars,
        reproVars
  <2>3. ControlComesFirst'
    BY <1>2 DEF ControlComesFirst
  <2> QED
    BY <2>1, <2>2, <2>3 DEF RunInv
<1> QED
  BY <1>6, <1>8, <1>9, <1>10, <1>11, <1>12 DEF SearchInv

\* Only the start of a search and a longer window start anew.
LEMMA SameWindow ==
  ASSUME IInv,
         \/ ReportFatalFault \/ ReportFault \/ KeepFuzzing \/ AttemptFailed
         \/ RestartVerified \/ GiveUpSearch
         \/ ShallowStep \/ DeepStep \/ PlainStep \/ LoopTail
         \/ StopBeforeFuzzing \/ LeaveLoop
  PROVE  ~NewWindow
<1>1. NewWindow => pc = "judging"
  BY DEF NewWindow, StartReproduction, JumpBack, WindowFailed, Searching,
    NoFault
<1>2. MaxJump \in Int /\ reproducingIterationJumpCount \in Nat
  BY EngineAssumption DEF MaxJump, Lesser, IInv, TypeOK, CountersOK
<1>3. CASE ReportFatalFault \/ ReportFault
  BY <1>3 DEF ReportFatalFault, ReportFault, FaultReported, NewWindow,
    StartReproduction, JumpBack, WindowFailed, Searching, NoFault
<1>4. CASE KeepFuzzing \/ AttemptFailed \/ RestartVerified
  BY <1>4 DEF KeepFuzzing, AttemptFailed, RestartVerified, NewWindow,
    StartReproduction, JumpBack, WindowFailed, Searching, NoFault
<1>5. CASE GiveUpSearch
  <2>1. /\ reproducingFault
        /\ reproducingIterationJumpCount >= MaxJump
    BY <1>5 DEF GiveUpSearch, WindowFailed, Searching
  <2>2. ~(reproducingIterationJumpCount < MaxJump)
    BY <1>2, <2>1
  <2> QED
    BY <2>1, <2>2 DEF NewWindow, StartReproduction, JumpBack
<1>6. CASE ShallowStep \/ DeepStep \/ PlainStep
  BY <1>6 DEF ShallowStep, DeepStep, PlainStep, InWindow, NewWindow,
    StartReproduction, JumpBack, WindowFailed, Searching
<1>7. CASE LoopTail \/ StopBeforeFuzzing \/ LeaveLoop
  BY <1>1, <1>7 DEF LoopTail, MustStop, ContinueLoop, CountAndStop,
    TooManyMachines, Advance, AtTotals, StopBeforeFuzzing, LeaveLoop
<1> QED
  BY <1>3, <1>4, <1>5, <1>6, <1>7

\* The iteration is judged and the pass ends.
LEMMA RestSession ==
  ASSUME IInv, IInv', SearchInv, Rest
  PROVE  /\ SearchInv'
         /\ "parallel" \notin RunModes /\ RunInv => RunInv'
<1>1. /\ replayed' = IF NewWindow THEN 0 ELSE replayed
      /\ UNCHANGED <<fuzzedWith, controlled>>
  BY DEF Rest
<1>2. CASE StartReproduction
  BY <1>1, <1>2, StartReproductionSession DEF NewWindow
<1>3. CASE JumpBack
  BY <1>1, <1>3, JumpBackSession DEF NewWindow
<1>4. CASE \/ ReportFatalFault \/ ReportFault \/ KeepFuzzing \/ AttemptFailed
           \/ RestartVerified \/ GiveUpSearch
           \/ ShallowStep \/ DeepStep \/ PlainStep
  <2>1. UNCHANGED replayed
    BY <1>1, <1>4, SameWindow
  <2> QED
    BY <1>1, <1>4, <2>1, ReportFatalFaultSession, ReportFaultSession,
      KeepFuzzingSession, AttemptFailedSession, RestartVerifiedSession,
      GiveUpSearchSession, ShallowStepSession, DeepStepSession,
      PlainStepSession
<1>5. CASE LoopTail \/ StopBeforeFuzzing \/ LeaveLoop
  <2>1. UNCHANGED replayed
    BY <1>1, <1>5, SameWindow
  <2> QED
    BY <1>1, <1>5, <2>1, MustStopSession, ContinueLoopSession,
      CountAndStopSession, TooManyMachinesSession, AdvanceSession,
      StopBeforeFuzzingSession, LeaveLoopSession DEF LoopTail
<1> QED
  BY <1>2, <1>3, <1>4, <1>5 DEF Rest, Judge

\* A stuttering step.
LEMMA StutterSession ==
  ASSUME SearchInv, UNCHANGED allVars
  PROVE  SearchInv' /\ (RunInv => RunInv')
<1>1. UNCHANGED <<vars, historyVars>>
  BY DEF allVars
<1>2. SearchInv'
  BY <1>1 DEF vars, stateVars, loopVars, options, flagVars, reproVars,
    historyVars, SearchInv, FaultFlagInv, OrderInv, PlainInv, StopShortInv,
    BlockInv, WindowInv, InLoop, IsDue, Due, NextIteration, Switches, Session,
    WindowHasControls, CutShort
<1>3. RunInv => RunInv'
  BY <1>1 DEF vars, stateVars, loopVars, options, flagVars, reproVars,
    historyVars, RunInv, HistoryInv, ControlInv, ControlComesFirst, InLoop,
    LastFuzzed, Session
<1> QED
  BY <1>2, <1>3

\* All steps.
LEMMA NextSession ==
  ASSUME IInv, IInv', SearchInv, [TargetNext]_allVars
  PROVE  /\ SearchInv'
         /\ "parallel" \notin RunModes /\ RunInv => RunInv'
BY BeginSession, RunSession, RestSession, StutterSession DEF TargetNext

\* A step of the composition is a step of the loop.
LEMMA TargetStep == [TargetNext]_allVars => [Next]_vars
<1> SUFFICES ASSUME TargetNext \/ UNCHANGED allVars PROVE [Next]_vars
  OBVIOUS
<1>1. CASE Begin
  BY <1>1 DEF Begin, Next, EngineStep, LoopStep
<1>2. CASE Run
  BY <1>2 DEF Run, Next, EngineStep, Outcomes
<1>3. CASE Rest
  BY <1>3 DEF Rest, Next, EngineStep, LoopStep
<1>4. CASE UNCHANGED allVars
  BY <1>4 DEF allVars
<1> QED
  BY <1>1, <1>2, <1>3, <1>4 DEF TargetNext

-----------------------------------------------------------------------------
(* What holds of the searches, and of the session.                         *)

\* The composition runs the engine's loop: whatever the target does, the loop
\* is one that FuzzEngine describes, and what is proved of it holds here.
THEOREM TargetRunsLoop == TargetSpec => Spec
<1>1. TargetInit => Init
  BY DEF TargetInit
<1> QED
  BY <1>1, TargetStep, PTL DEF TargetSpec, Spec

\* SearchInv is inductive, given the invariant of the loop: it holds in every
\* run.
THEOREM SearchInvariance == TargetSpec => [](IInv /\ SearchInv)
<1>1. TargetInit => IInv /\ SearchInv
  BY InitIInv, InitSession DEF TargetInit
<1>2. IInv /\ SearchInv /\ [TargetNext]_allVars => IInv' /\ SearchInv'
  BY NextIInv, TargetStep, NextSession
<1> QED
  BY <1>1, <1>2, PTL DEF TargetSpec

\* So is RunInv, on top of them, on a machine that has the run to itself.
THEOREM RunInvariance ==
  ASSUME "parallel" \notin RunModes
  PROVE  TargetSpec => []RunInv
<1>1. TargetInit => RunInv
  BY InitSession
<1>2. IInv /\ SearchInv /\ RunInv /\ [TargetNext]_allVars => RunInv'
  BY NextIInv, TargetStep, NextSession
<1> QED
  BY <1>1, <1>2, SearchInvariance, PTL DEF TargetSpec

\* Control iterations: no test case of the session is fuzzed without the control
\* iteration that its number asks for (test.controlIteration).
THEOREM ControlFirst ==
  ASSUME "parallel" \notin RunModes
  PROVE  TargetSpec => []ControlComesFirst
<1>1. RunInv => ControlComesFirst
  BY DEF RunInv
<1> QED
  BY <1>1, RunInvariance, PTL

\* A window has not failed before its last test case was replayed, unless it was
\* cut short by a block of data that begins there.
THEOREM WindowsComplete == TargetSpec => []WindowIsComplete
<1>1. ASSUME IInv, SearchInv PROVE WindowIsComplete
  <2> SUFFICES ASSUME WindowFailed,
                      ~(/\ reproducingIterationJumpCount = 0
                        /\ reproducingControlIteration),
                      ~CutShort
               PROVE  replayed = reproducingInitialIteration
                                   - Bit(reproducingControlIteration)
    BY DEF WindowIsComplete
  <2>1. /\ pc = "judging" /\ faults = "none" /\ reproducingFault
        /\ ~controlIterationAfterFault
        /\ iterationCount = reproducingInitialIteration
        /\ \/ ControlEvery = 0
           \/ controlIteration
                /\ (reproducingControlIteration # controlAfterRepro)
    BY DEF WindowFailed, Searching, NoFault, AtWindowEnd
  <2>2. /\ InLoop /\ NextIteration = iterationCount
        /\ controlIteration \in BOOLEAN /\ controlAfterRepro \in BOOLEAN
        /\ reproducingControlIteration \in BOOLEAN
        /\ reproducingInitialIteration \in Nat /\ replayed \in Nat
        /\ reproducingIterationJumpCount \in Nat
    BY <2>1, <1>1 DEF InLoop, Switches, NextIteration, IInv, TypeOK,
      CountersOK, FlagsOK, SearchInv, OrderInv
  <2>3. CASE ~controlIteration
    BY <1>1, <2>1, <2>2, <2>3 DEF SearchInv, OrderInv, StopShortInv, Bit
  <2>4. CASE controlIteration /\ controlAfterRepro
    <3>1. ~reproducingControlIteration
      BY <1>1, <2>1, <2>4 DEF IInv, SearchShape
    <3> QED
      BY <1>1, <2>1, <2>2, <2>4, <3>1 DEF SearchInv, WindowInv, Bit
  <2>5. CASE controlIteration /\ ~controlAfterRepro
    <3>1. NextIteration = Due
      BY <1>1, <2>1, <2>2, <2>5 DEF SearchInv, WindowInv, IsDue
    <3>2. CASE reproducingControlIteration
      BY <2>1, <2>2, <3>1, <3>2 DEF Due, Bit
    <3>3. CASE ~reproducingControlIteration
      <4>1. ControlEvery = 0 /\ ~WindowHasControls
        BY <1>1, <2>1, <2>2, <2>5, <3>3 DEF WindowHasControls, SearchInv,
          BlockInv
      <4>2. ~(/\ Switches /\ reproducingIterationJumpCount # 0
              /\ GetSwitchIteration(NextIteration) = NextIteration)
        BY <2>1, <2>2, <3>3, <4>1 DEF CutShort, Bit
      <4>3. replayed = 0 /\ reproducingIterationJumpCount # 0
        BY <1>1, <2>1, <2>2, <2>5, <3>3, <4>1, <4>2 DEF SearchInv, WindowInv
      <4> QED
        BY <2>1, <2>2, <3>1, <4>3 DEF Due
    <3> QED
      BY <3>2, <3>3
  <2> QED
    BY <2>2, <2>3, <2>4, <2>5
<1> QED
  BY <1>1, SearchInvariance, PTL

-----------------------------------------------------------------------------
(* The data sets.                                                          *)

\* Before the first switch the first data set is applied.
LEMMA InitData == TargetInit => DataInv
BY EngineAssumption DEF TargetInit, Init, DataInv, DataOf, Switches

\* A recording iteration applies the data set of its block.
LEMMA BeginData ==
  ASSUME ~Switching \/ SwitchCount < IterationStart,
         IInv, RunInv, DataInv, Begin
  PROVE  DataInv'
<1> DEFINE block == GetSwitchIteration(iterationCount)
<1>1. /\ pc = "top" /\ pc' = "running" /\ SetStrategyIteration
      /\ UNCHANGED <<options, iterationCount, choice, fuzzedWith>>
      /\ SyncDataSets
  BY DEF Begin, BeginIteration, SyncDataSets, historyVars
<1>2. Switches' = Switches
  BY <1>1 DEF Switches, options
<1>3. \A i : DataOf(i)' = DataOf(i)
  BY <1>1, <1>2 DEF DataOf
<1>4. \A i \in DOMAIN fuzzedWith' : fuzzedWith'[i] = DataOf(i)'
  BY <1>1, <1>3 DEF DataInv
<1>5. CASE ~Switches
  BY <1>1, <1>2, <1>4, <1>5 DEF DataInv, SyncDataSets, DataOf
<1>6. CASE Switches
  <2>1. iterationCount \in Nat /\ SwitchCount < iterationCount
    <3>1. IterationStart <= lastReproFault + 1
      BY DEF RunInv, HistoryInv
    <3>2. lastReproFault < iterationCount
      BY <1>1 DEF IInv, IterationShape, NextIteration
    <3> QED
      BY <1>6, <3>1, <3>2, EngineAssumption DEF IInv, TypeOK, CountersOK,
        Switches
  <2>2. block # 1 /\ block # 0
    BY <2>1, EngineAssumption DEF GetSwitchIteration
  <2>3. trackerSwitch' = block /\ lastSwitchIteration' = block
        /\ dataSet' = choice[block]
    <3>1. CASE SeedRandomDataSet
      BY <1>1, <1>6, <2>2, <3>1 DEF SetStrategyIteration, SyncDataSets,
        DataInv, SeedRandomDataSet
    <3>2. CASE ~SeedRandomDataSet
      BY <1>1, <1>6, <2>2, <3>2 DEF SetStrategyIteration, SyncDataSets,
        DataInv, SeedRandomDataSet
    <3> QED
      BY <3>1, <3>2
  <2> QED
    BY <1>1, <1>2, <1>4, <1>6, <2>2, <2>3 DEF DataInv, DataOf
<1> QED
  BY <1>5, <1>6

\* What is fuzzed is fuzzed with the data set of its block.
LEMMA RunData ==
  ASSUME IInv, DataInv, Run
  PROVE  DataInv'
<1>1. PICK outcome \in {"clean", "fault"} : Execute(outcome) /\ Remember
  BY DEF Run
<1>2. /\ pc = "running" /\ pc' # "running"
      /\ UNCHANGED <<options, iterationCount, lastSwitchIteration, dataVars>>
  BY <1>1 DEF Execute, Run
<1>3. Switches' = Switches
  BY <1>2 DEF Switches, options
<1>4. \A i : DataOf(i)' = DataOf(i)
  BY <1>2, <1>3 DEF DataOf, dataVars
<1>5. \A i \in DOMAIN fuzzedWith' : fuzzedWith'[i] = DataOf(i)'
  <2>1. CASE fuzzedWith' = fuzzedWith
    BY <1>4, <2>1 DEF DataInv
  <2>2. CASE fuzzedWith' = FuzzedNow
    BY <1>2, <1>4, <2>2 DEF DataInv, FuzzedNow
  <2> QED
    BY <1>1, <2>1, <2>2 DEF Remember
<1> QED
  BY <1>2, <1>3, <1>5 DEF DataInv, dataVars

\* The data sets stay; so does what was fuzzed.
LEMMA RestData ==
  ASSUME IInv, DataInv, Rest
  PROVE  DataInv'
<1>1. UNCHANGED <<dataVars, fuzzedWith>>
  BY DEF Rest
<1>2. UNCHANGED <<options, lastSwitchIteration>> /\ pc' # "running"
  <2>1. CASE StartReproduction \/ ReportFatalFault \/ ReportFault
    BY <2>1 DEF StartReproduction, ReportFatalFault, ReportFault
  <2>2. CASE KeepFuzzing \/ AttemptFailed \/ RestartVerified
    BY <2>2 DEF KeepFuzzing, AttemptFailed, RestartVerified, SearchFrame,
      stateVars
  <2>3. CASE GiveUpSearch \/ JumpBack
    BY <2>3 DEF GiveUpSearch, JumpBack, SearchFrame
  <2>4. CASE ShallowStep \/ DeepStep \/ PlainStep
    BY <2>4 DEF ShallowStep, DeepStep, PlainStep, WindowFrame, SearchFrame
  <2>5. CASE LoopTail \/ LeaveLoop
    BY <2>5 DEF LoopTail, MustStop, ContinueLoop, CountAndStop,
      TooManyMachines, Advance, LeaveLoop, stateVars
  <2>6. CASE StopBeforeFuzzing
    BY <2>6 DEF StopBeforeFuzzing, SetStrategyIteration
  <2> QED
    BY <2>1, <2>2, <2>3, <2>4, <2>5, <2>6 DEF Rest, Judge
<1>3. Switches' = Switches
  BY <1>2 DEF Switches, options
<1>4. \A i : DataOf(i)' = DataOf(i)
  BY <1>1, <1>3 DEF DataOf, dataVars
<1> QED
  BY <1>1, <1>2, <1>3, <1>4 DEF DataInv, dataVars

\* A stuttering step.
LEMMA StutterData ==
  ASSUME DataInv, UNCHANGED allVars
  PROVE  DataInv'
<1>1. UNCHANGED <<options, pc, lastSwitchIteration, iterationCount, dataVars,
                  fuzzedWith>>
  BY DEF allVars, vars, stateVars, loopVars, historyVars
<1>2. Switches' = Switches
  BY <1>1 DEF Switches, options
<1>3. \A i : DataOf(i)' = DataOf(i)
  BY <1>1, <1>2 DEF DataOf, dataVars
<1> QED
  BY <1>1, <1>2, <1>3 DEF DataInv, dataVars

\* DataInv is inductive, given RunInv: a test case has the data set of its
\* block, unless the run begins in the first block and may switch
\* (RandomStrategy.cs:411).
THEOREM DataInvariance ==
  ASSUME "parallel" \notin RunModes,
         ~Switching \/ SwitchCount < IterationStart
  PROVE  TargetSpec => []DataInv
<1>1. TargetInit => DataInv
  BY InitData
<1>2. IInv /\ RunInv /\ DataInv /\ [TargetNext]_allVars => DataInv'
  BY BeginData, RunData, RestData, StutterData DEF TargetNext
<1> QED
  BY <1>1, <1>2, SearchInvariance, RunInvariance, PTL DEF TargetSpec

\* A search replays the session: in order, from the first test case of the
\* window, none left out, each with the data set that it had.
THEOREM SessionsReplayed ==
  ASSUME "parallel" \notin RunModes,
         ~Switching \/ SwitchCount < IterationStart
  PROVE  TargetSpec => []ReplaysSession
<1>1. ASSUME IInv, SearchInv, RunInv, DataInv PROVE ReplaysSession
  <2> SUFFICES ASSUME Replaying
               PROVE  /\ iterationCount \in DOMAIN fuzzedWith
                      /\ iterationCount = Due
                      /\ fuzzedWith[iterationCount] = dataSet
    BY DEF ReplaysSession, Due
  <2>1. /\ pc = "running" /\ reproducingFault /\ ~controlIteration
        /\ InLoop /\ NextIteration = iterationCount
    BY DEF Replaying, InLoop, NextIteration
  <2>2. /\ iterationCount \in Nat /\ lastReproFault \in Nat
        /\ IterationStart \in Nat
        /\ reproducingInitialIteration \in Nat
        /\ reproducingControlIteration \in BOOLEAN
        /\ lastReproFault < iterationCount
        /\ iterationCount <= reproducingInitialIteration
    BY <1>1, <2>1, EngineAssumption DEF IInv, TypeOK, CountersOK, FlagsOK,
      IterationShape
  <2>3. reproducingControlIteration
          => iterationCount # reproducingInitialIteration
    BY <1>1, <2>1 DEF SearchInv, StopShortInv
  <2>4. iterationCount = Due
    BY <1>1, <2>1, <2>3 DEF SearchInv, OrderInv, IsDue
  <2>5. iterationCount \in DOMAIN fuzzedWith
    <3>1. LastFuzzed = reproducingInitialIteration
                         - Bit(reproducingControlIteration)
      BY <2>1 DEF LastFuzzed
    <3>2. iterationCount <= LastFuzzed /\ LastFuzzed \in Int
      BY <2>2, <2>3, <3>1 DEF Bit
    <3>3. IterationStart <= iterationCount
      BY <1>1, <2>2 DEF RunInv, HistoryInv
    <3> QED
      BY <1>1, <2>1, <2>2, <3>2, <3>3 DEF RunInv, HistoryInv
  <2> QED
    BY <1>1, <2>1, <2>4, <2>5 DEF DataInv
<1> QED
  BY <1>1, SearchInvariance, RunInvariance, DataInvariance, PTL

-----------------------------------------------------------------------------
(* What a search shows.                                                    *)

\* The target has got nothing of its bug.
LEMMA InitRange == TargetInit => RangeInv
BY DEF TargetInit, Init, RangeInv

\* A restart that is due is about to come.
LEMMA BeginRange ==
  ASSUME RangeInv, Begin
  PROVE  RangeInv'
<1>1. /\ pc = "top" /\ pc' = "running"
      /\ faultOnPreviousIteration' = (faults # "none" \/ isReplayJump)
      /\ faults' = "none" /\ UNCHANGED <<reproVars, targetVars>>
  BY DEF Begin, BeginIteration
<1> QED
  BY <1>1 DEF RangeInv, Confined, InLoop, reproVars, targetVars

\* A search hits the bug with what it replays only.
LEMMA RunRange ==
  ASSUME IInv, RangeInv, Run
  PROVE  RangeInv'
<1>1. PICK outcome \in {"clean", "fault"} :
        /\ Execute(outcome) /\ Target
        /\ \/ outcome = IF ShowsBug THEN "fault" ELSE "clean"
           \/ ~reproducingFault
  BY DEF Run
<1>2. /\ pc = "running" /\ pc' \in {"judging", "error"}
      /\ faults' # "none" => outcome = "fault"
      /\ UNCHANGED <<iterationCount, controlIteration, reproVars, bug>>
  BY <1>1 DEF Execute, Target, flagVars
<1>3. CASE ~(InLoop' /\ reproducingFault)
  BY <1>2, <1>3 DEF RangeInv, reproVars
<1>4. CASE InLoop' /\ reproducingFault
  <2> DEFINE first == reproducingInitialIteration
                        - reproducingIterationJumpCount
  <2>1. first <= iterationCount
    BY <1>2, <1>4 DEF IInv, IterationShape, NextIteration
  <2>2. Expected # bug.from \/ IsBroken => bug.from >= first
    BY <1>2, <1>4 DEF RangeInv, Confined, InLoop, Expected, IsBroken
  <2>3. Hits => bug.from >= first
    BY <2>1, <2>2 DEF Hits
  <2>4. progress' # bug.from \/ broken' => bug.from >= first
    BY <1>1, <2>2, <2>3 DEF Target, CompletesBug
  <2>5. faults' # "none" => bug.from >= first
    BY <1>1, <1>2, <1>4, <2>2, <2>3 DEF ShowsBug, CompletesBug
  <2>6. Confined'
    BY <1>2, <2>4, <2>5 DEF Confined, reproVars
  <2> QED
    BY <1>2, <2>6 DEF RangeInv
<1> QED
  BY <1>3, <1>4

\* A search that begins, or a longer window, is due to restart the target.
LEMMA RestRange ==
  ASSUME IInv, RangeInv, Rest
  PROVE  RangeInv'
<1>1. UNCHANGED targetVars
  BY DEF Rest
<1>2. CASE pc' \in {"done", "error"} \/ ~reproducingFault'
  BY <1>1, <1>2 DEF RangeInv, InLoop, targetVars
<1>3. CASE StartReproduction
  BY <1>1, <1>3 DEF StartReproduction, RangeInv, targetVars
<1>4. CASE RestartVerified \/ JumpBack \/ ShallowStep \/ DeepStep \/ PlainStep
  <2>1. /\ pc = "judging" /\ InLoop /\ reproducingFault /\ Confined
        /\ reproducingInitialIteration \in Nat
        /\ reproducingIterationJumpCount \in Nat
    BY <1>4 DEF RestartVerified, JumpBack, WindowFailed, ShallowStep, DeepStep,
      PlainStep, InWindow, Searching, NoFault, RangeInv, InLoop, IInv, TypeOK,
      CountersOK
  <2>2. /\ pc' = "tail"
        /\ reproducingInitialIteration' = reproducingInitialIteration
        /\ reproducingIterationJumpCount' \in Int
        /\ reproducingIterationJumpCount <= reproducingIterationJumpCount'
    <3>1. CASE JumpBack
      <4>1. MaxJump \in Int
        BY <2>1, EngineAssumption DEF MaxJump, Lesser, IInv, TypeOK, CountersOK
      <4> QED
        BY <2>1, <3>1, <4>1 DEF JumpBack, NextJump, Lesser
    <3>2. CASE RestartVerified \/ ShallowStep \/ DeepStep \/ PlainStep
      <4>1. pc' = "tail" /\ UNCHANGED reproVars
        BY <3>2 DEF RestartVerified, ShallowStep, DeepStep, PlainStep,
          WindowFrame
      <4> QED
        BY <2>1, <4>1 DEF reproVars
    <3> QED
      BY <1>4, <3>1, <3>2
  <2>3. bug.from \in Int
    BY DEF RangeInv, Bugs
  <2> QED
    BY <1>1, <2>1, <2>2, <2>3 DEF RangeInv, Confined, targetVars
<1>5. CASE ContinueLoop \/ Advance
  <2>1. /\ pc = "tail" /\ pc' = "top"
        /\ UNCHANGED <<faults, reproVars>>
    BY <1>5 DEF ContinueLoop, Advance, AtTotals, stateVars
  <2> QED
    BY <1>1, <2>1 DEF RangeInv, Confined, InLoop, targetVars, reproVars
<1>6. CASE ReportFault \/ AttemptFailed \/ GiveUpSearch \/ KeepFuzzing
  BY <1>2, <1>6 DEF ReportFault, AttemptFailed, GiveUpSearch, KeepFuzzing,
    ResumeAtFault, stateVars, reproVars
<1>7. CASE \/ ReportFatalFault \/ MustStop \/ CountAndStop \/ TooManyMachines
           \/ StopBeforeFuzzing \/ LeaveLoop
  BY <1>2, <1>7 DEF ReportFatalFault, MustStop, CountAndStop, TooManyMachines,
    StopBeforeFuzzing, LeaveLoop
<1> QED
  BY <1>3, <1>4, <1>5, <1>6, <1>7 DEF Rest, Judge, LoopTail

\* A stuttering step.
LEMMA StutterRange ==
  ASSUME RangeInv, UNCHANGED allVars
  PROVE  RangeInv'
BY DEF allVars, vars, stateVars, reproVars, targetVars, RangeInv, Confined,
  InLoop

\* RangeInv is inductive, given the invariant of the loop: it holds in every
\* run.
THEOREM RangeInvariance == TargetSpec => []RangeInv
<1>1. TargetInit => RangeInv
  BY InitRange
<1>2. IInv /\ RangeInv /\ [TargetNext]_allVars => RangeInv'
  BY BeginRange, RunRange, RestRange, StutterRange DEF TargetNext
<1> QED
  BY <1>1, <1>2, SearchInvariance, PTL DEF TargetSpec

\* The range of test cases that is saved with a reproduced fault holds the bug,
\* whatever else fails in the run: a search shows only what it has replayed
\* (JobLogger.cs:517).
THEOREM ReportedRange == TargetSpec => ReportedRangeHoldsBug
<1>1. ASSUME RangeInv, ReportFault, reproducingFault
      PROVE  bug.from >= reproducingInitialIteration
                           - reproducingIterationJumpCount
  BY <1>1 DEF RangeInv, Confined, InLoop, ReportFault, FaultReported
<1> QED
  BY <1>1, RangeInvariance, PTL DEF TargetSpec, ReportedRangeHoldsBug

-----------------------------------------------------------------------------
(* What a search finds.                                                    *)

\* Nothing has been broken yet.
LEMMA InitBug == TargetInit => CauseInv /\ RetraceInv
BY DEF TargetInit, Init, CauseInv, RetraceInv

\* The first half of a pass: a restart that is due is about to come.
LEMMA BeginBug ==
  ASSUME CauseInv, RetraceInv, Begin
  PROVE  CauseInv' /\ RetraceInv'
<1>1. /\ pc = "top" /\ pc' = "running"
      /\ faultOnPreviousIteration' = (faults # "none" \/ isReplayJump)
      /\ UNCHANGED <<iterationCount, reproVars, targetVars, historyVars>>
  BY DEF Begin, BeginIteration
<1>2. LastFuzzed' = LastFuzzed
  BY <1>1 DEF LastFuzzed, reproVars, Bit
<1>3. CauseInv'
  BY <1>1, <1>2 DEF CauseInv, InLoop, Initial, OnControl, reproVars, targetVars
<1>4. RestartDue' <=> RestartDue
  BY <1>1 DEF RestartDue
<1>5. Reached' = Reached /\ Passed' = Passed
  BY <1>1 DEF Reached, Passed, reproVars, targetVars, historyVars
<1>6. RetraceInv'
  BY <1>1, <1>4, <1>5 DEF RetraceInv, InLoop, reproVars, targetVars,
    historyVars
<1> QED
  BY <1>3, <1>6

\* What is broken is broken by a test case that is fuzzed or replayed, and a
\* search begins with what the target shows.
LEMMA RunCause ==
  ASSUME IInv, SearchInv, RangeInv, CauseInv, Run
  PROVE  CauseInv'
<1>1. PICK outcome \in {"clean", "fault"} :
        /\ Execute(outcome) /\ Target
        /\ cause' = IF reproducingFault THEN cause
                    ELSE IF outcome = "clean" THEN "none"
                    ELSE IF ShowsBug THEN "bug" ELSE "spurious"
  BY DEF Run
<1>2. /\ pc = "running" /\ pc' \in {"judging", "error"}
      /\ UNCHANGED <<iterationCount, controlIteration, reproVars, bug>>
  BY <1>1 DEF Execute, Target, flagVars
<1>3. /\ InLoop /\ NextIteration = iterationCount
      /\ iterationCount \in Nat /\ reproducingInitialIteration \in Nat
      /\ controlIteration \in BOOLEAN /\ reproducingControlIteration \in BOOLEAN
      /\ reproducingFault \in BOOLEAN /\ bug.at \in Nat
  BY <1>2, EngineAssumption DEF InLoop, NextIteration, IInv, TypeOK,
    CountersOK, FlagsOK, RangeInv, Bugs
<1>4. CASE pc' = "error"
  BY <1>4 DEF CauseInv, InLoop
<1>5. CASE pc' = "judging"
  <2>1. LastFuzzed' = Initial - Bit(OnControl)
    BY <1>2, <1>3, <1>5 DEF LastFuzzed, Initial, OnControl, Bit, reproVars
  <2>2. ~controlIteration => iterationCount <= LastFuzzed'
    <3>1. CASE reproducingFault
      <4>1. /\ iterationCount <= reproducingInitialIteration
            /\ reproducingControlIteration
                 /\ iterationCount = reproducingInitialIteration
                 => controlIteration
        BY <1>2, <1>3, <3>1 DEF SearchInv, StopShortInv, IInv, IterationShape
      <4> QED
        BY <1>3, <2>1, <3>1, <4>1 DEF Initial, OnControl, Bit
    <3>2. CASE ~reproducingFault
      BY <1>3, <2>1, <3>2 DEF Initial, OnControl, Bit
    <3> QED
      BY <3>1, <3>2
  <2>3. bug.at <= LastFuzzed => bug.at <= LastFuzzed'
    BY <1>2, <1>3, <2>1 DEF LastFuzzed, Initial, OnControl, Bit
  <2>4. IsBroken => bug.at <= LastFuzzed
    BY <1>3 DEF CauseInv, IsBroken
  <2>5. CompletesBug => ~controlIteration /\ iterationCount = bug.at
    BY DEF CompletesBug, Hits
  <2>6. broken' => bug.at <= LastFuzzed'
    BY <1>1, <2>2, <2>3, <2>4, <2>5 DEF Target
  <2>7. UNCHANGED <<Initial, OnControl>>
    BY <1>2 DEF Initial, OnControl, reproVars
  <2>8. ASSUME cause' = "bug"
        PROVE  /\ bug.at <= Initial - Bit(OnControl)
               /\ bug.shows = "control" => OnControl
    <3>1. CASE reproducingFault
      BY <1>1, <1>3, <2>8, <3>1 DEF CauseInv
    <3>2. CASE ~reproducingFault /\ controlIteration
      BY <1>1, <1>2, <1>3, <2>4, <2>8, <3>2 DEF ShowsBug, LastFuzzed, Initial,
        OnControl, Bit
    <3>3. CASE ~reproducingFault /\ ~controlIteration
      BY <1>1, <1>3, <2>5, <2>8, <3>3 DEF ShowsBug, Initial, OnControl, Bit
    <3> QED
      BY <1>3, <3>1, <3>2, <3>3
  <2> QED
    BY <1>2, <2>6, <2>7, <2>8 DEF CauseInv
<1> QED
  BY <1>2, <1>4, <1>5

\* A pass of a search: a control iteration shows what is broken, a test case
\* of the bug brings the target one step further.
LEMMA RunRetrace ==
  ASSUME IInv, SearchInv, RangeInv, ReplaysSession, RetraceInv, Run
  PROVE  RetraceInv'
<1>1. PICK outcome \in {"clean", "fault"} :
        /\ Execute(outcome) /\ Target /\ Remember
        /\ \/ outcome = IF ShowsBug THEN "fault" ELSE "clean"
           \/ ~reproducingFault
  BY DEF Run
<1>2. /\ pc = "running" /\ pc' \in {"judging", "error"}
      /\ faults' \in {"none", "some"}
      /\ pc' = "judging" /\ outcome = "fault" => faults' = "some"
      /\ UNCHANGED <<iterationCount, controlIteration, reproVars, bug>>
  BY <1>1 DEF Execute, Target, flagVars
<1>3. CASE ~(pc' = "judging" /\ reproducingFault)
  BY <1>2, <1>3 DEF RetraceInv, InLoop, reproVars
<1>4. CASE pc' = "judging" /\ reproducingFault
  <2> DEFINE first == reproducingInitialIteration
                        - reproducingIterationJumpCount
  <2>1. /\ bug.from \in Nat \ {0} /\ bug.at \in Nat \ {0}
        /\ bug.from <= bug.at /\ bug.shows \in {"fuzz", "control"}
    BY EngineAssumption DEF RangeInv, Bugs
  <2>2. /\ first \in Int /\ iterationCount \in Nat /\ first <= iterationCount
        /\ controlIteration \in BOOLEAN /\ replayed \in Nat
    BY <1>2, <1>4 DEF SearchInv, OrderInv, IInv, TypeOK, CountersOK, FlagsOK,
      IterationShape, NextIteration
  <2>3. /\ Expected = IF Reached THEN Lesser(replayed, bug.at) + 1
                      ELSE bug.from
        /\ IsBroken <=> Passed /\ bug.shows = "control"
        /\ ~(Passed /\ bug.shows = "fuzz")
    <3>1. CASE faultOnPreviousIteration
      BY <1>2, <1>4, <2>1, <3>1 DEF RetraceInv, RestartDue, InLoop, Reached,
        Passed, Expected, IsBroken
    <3>2. CASE ~faultOnPreviousIteration
      BY <1>2, <1>4, <3>2 DEF RetraceInv, RestartDue, InLoop, Expected,
        IsBroken
    <3> QED
      BY <3>1, <3>2
  <2>4. /\ progress' = IF Hits THEN iterationCount + 1 ELSE Expected
        /\ broken' = (IsBroken \/ (CompletesBug /\ bug.shows = "control"))
        /\ ShowsBug => faults' # "none"
    BY <1>1, <1>2, <1>4 DEF Target
  <2>5. /\ Reached' <=> bug.from \in first..replayed'
        /\ Passed' <=> Reached' /\ bug.at <= replayed'
    BY <1>2 DEF Reached, Passed, reproVars
  <2>6. ~RestartDue'
    BY <1>4 DEF RestartDue
  <2>7. CASE controlIteration
    <3>1. ~Hits /\ ~CompletesBug /\ replayed' = replayed
      BY <1>1, <2>7 DEF Hits, CompletesBug, Remember
    <3>2. /\ Reached' <=> Reached
          /\ Passed' <=> Passed
      BY <2>5, <3>1 DEF Reached, Passed
    <3>3. broken' => faults' # "none"
      BY <2>4, <2>7, <3>1 DEF ShowsBug
    <3>4. progress' = IF Reached' THEN Lesser(replayed', bug'.at) + 1
                      ELSE bug'.from
      BY <1>2, <2>3, <2>4, <3>1, <3>2
    <3>5. broken' = (Passed' /\ bug'.shows = "control")
      BY <1>2, <2>3, <2>4, <3>1, <3>2
    <3>6. ~(Passed' /\ bug'.shows = "fuzz")
      BY <1>2, <2>3, <3>2
    <3> QED
      BY <2>6, <3>3, <3>4, <3>5, <3>6 DEF RetraceInv
  <2>8. CASE ~controlIteration
    <3> DEFINE i == iterationCount
    <3>1. /\ SameData
          /\ replayed' = i
          /\ i = IF replayed = 0 THEN first ELSE replayed + 1
      BY <1>1, <1>2, <1>4, <2>8 DEF ReplaysSession, Replaying, SameData,
        Remember
    <3>2. /\ Hits <=> i \in {Expected, bug.from} /\ i <= bug.at
          /\ CompletesBug <=> Hits /\ i = bug.at
          /\ ShowsBug <=> CompletesBug /\ bug.shows = "fuzz"
      BY <2>8, <3>1 DEF Hits, CompletesBug, ShowsBug
    <3>3. Reached <=> bug.from \in first..replayed
      BY DEF Reached
    <3>4. Passed <=> Reached /\ bug.at <= replayed
      BY DEF Passed
    <3> SUFFICES /\ progress' = IF Reached' THEN Lesser(i, bug.at) + 1
                                ELSE bug.from
                 /\ broken' = (Passed' /\ bug.shows = "control")
                 /\ Passed' /\ bug.shows = "fuzz" => faults' # "none"
      BY <1>2, <1>4, <2>6, <2>8, <3>1 DEF RetraceInv
    <3> HIDE DEF i, first
    <3>5. CASE bug.from < first \/ i < bug.from
      <4>1. ~Reached /\ ~Reached'
        BY <2>1, <2>2, <2>5, <3>1, <3>3, <3>5 DEF i
      <4>2. ~Hits
        BY <2>1, <2>2, <2>3, <3>2, <3>5, <4>1 DEF i
      <4> QED
        BY <2>3, <2>4, <2>5, <3>2, <3>4, <4>1, <4>2
    <3>6. CASE first <= bug.from /\ i = bug.from
      <4>1. ~Reached /\ Reached' /\ Hits
        BY <2>1, <2>2, <2>5, <3>1, <3>2, <3>3, <3>6 DEF i
      <4>2. Passed' <=> i = bug.at
        BY <2>1, <2>2, <2>5, <3>1, <3>6, <4>1 DEF i
      <4>3. Lesser(i, bug.at) = i
        BY <2>1, <3>6 DEF Lesser
      <4> QED
        BY <2>3, <2>4, <3>2, <3>4, <4>1, <4>2, <4>3 DEF i
    <3>7. CASE first <= bug.from /\ bug.from < i
      <4>1. i = replayed + 1 /\ replayed \in Int
        BY <2>1, <2>2, <3>1, <3>7 DEF i
      <4>2. Reached /\ Reached'
        BY <2>1, <2>2, <2>5, <3>1, <3>3, <3>7, <4>1 DEF i
      <4>3. CASE i <= bug.at
        <5>1. Lesser(replayed, bug.at) = replayed /\ Lesser(i, bug.at) = i
          BY <2>1, <4>1, <4>3 DEF Lesser
        <5>2. Hits /\ ~Passed /\ (Passed' <=> i = bug.at)
          BY <2>1, <2>3, <2>5, <3>1, <3>2, <3>4, <4>1, <4>2, <4>3, <5>1
        <5> QED
          BY <2>3, <2>4, <3>2, <4>2, <5>1, <5>2 DEF i
      <4>4. CASE bug.at < i
        <5>1. /\ Lesser(replayed, bug.at) = bug.at
              /\ Lesser(i, bug.at) = bug.at
          BY <2>1, <4>1, <4>4 DEF Lesser
        <5>2. ~Hits /\ Passed /\ Passed'
          BY <2>1, <2>5, <3>1, <3>2, <3>4, <4>1, <4>2, <4>4
        <5> QED
          BY <2>3, <2>4, <3>2, <4>2, <5>1, <5>2
      <4> QED
        BY <2>1, <4>1, <4>3, <4>4
    <3> QED
      BY <2>1, <2>2, <3>5, <3>6, <3>7 DEF i, first
  <2> QED
    BY <2>2, <2>7, <2>8
<1> QED
  BY <1>2, <1>3, <1>4

\* Judging an iteration, or ending its pass, takes nothing back that was fuzzed.
LEMMA RestFuzzes ==
  ASSUME "parallel" \notin RunModes, IInv, Rest, InLoop'
  PROVE  LastFuzzed' = LastFuzzed
<1>1. /\ iterationCount \in Nat /\ controlIteration \in BOOLEAN
      /\ reproducingInitialIteration \in Nat /\ reproducingFault \in BOOLEAN
      /\ reproducingControlIteration \in BOOLEAN /\ runMode # "parallel"
  BY DEF IInv, TypeOK, CountersOK, FlagsOK, PlacesOK
<1>2. CASE StartReproduction
  BY <1>1, <1>2 DEF StartReproduction, RememberSearch, Initial, OnControl,
    LastFuzzed, Bit
<1>3. CASE ReportFault
  BY <1>1, <1>3 DEF ReportFault, FaultReported, ResumeAtFault, Initial,
    OnControl, LastFuzzed, Bit
<1>4. CASE AttemptFailed \/ GiveUpSearch
  BY <1>1, <1>4 DEF AttemptFailed, GiveUpSearch, WindowFailed, Searching,
    NoFault, ResumeAtFault, Initial, OnControl, LastFuzzed, Bit
<1>5. CASE KeepFuzzing
  BY <1>5 DEF KeepFuzzing, NoFault, LastFuzzed, stateVars, loopVars, flagVars,
    reproVars
<1>6. CASE RestartVerified \/ JumpBack \/ ShallowStep \/ DeepStep \/ PlainStep
  BY <1>6 DEF RestartVerified, JumpBack, ShallowStep, DeepStep, PlainStep,
    WindowFailed, InWindow, Searching, WindowFrame, LastFuzzed, reproVars
<1>7. CASE ContinueLoop
  BY <1>7 DEF ContinueLoop, LastFuzzed, stateVars, reproVars
<1>8. CASE Advance
  <2>1. CASE reproducingFault
    BY <1>8, <2>1 DEF Advance, LastFuzzed, reproVars
  <2>2. CASE ~reproducingFault
    BY <1>1, <1>8, <2>2 DEF Advance, AtTotals, LearnsTotal, SetTotals, options,
      LastFuzzed, reproVars, Bit
  <2> QED
    BY <1>1, <2>1, <2>2
<1>9. CASE \/ ReportFatalFault \/ MustStop \/ CountAndStop \/ TooManyMachines
           \/ StopBeforeFuzzing \/ LeaveLoop
  BY <1>9 DEF ReportFatalFault, MustStop, CountAndStop, TooManyMachines,
    StopBeforeFuzzing, LeaveLoop, InLoop
<1> QED
  BY <1>2, <1>3, <1>4, <1>5, <1>6, <1>7, <1>8, <1>9 DEF Rest, Judge, LoopTail

\* A search that begins is for the fault that was found, and stays so.
LEMMA RestCause ==
  ASSUME "parallel" \notin RunModes, IInv, CauseInv, Rest
  PROVE  CauseInv'
<1>1. UNCHANGED targetVars
  BY DEF Rest
<1>2. /\ pc \in {"top", "judging", "tail"}
      /\ pc' \in {"top", "tail", "done", "error"}
  BY DEF Rest, Judge, LoopTail, StartReproduction, ReportFatalFault,
    ReportFault, FaultReported, KeepFuzzing, AttemptFailed, RestartVerified,
    GiveUpSearch, JumpBack, WindowFailed, ShallowStep, DeepStep, PlainStep,
    InWindow, Searching, NoFault, WindowFrame, MustStop, ContinueLoop,
    CountAndStop, TooManyMachines, Advance, AtTotals, StopBeforeFuzzing,
    LeaveLoop
<1>3. CASE pc' \in {"done", "error"}
  BY <1>3 DEF CauseInv, InLoop
<1>4. CASE InLoop'
  <2>1. broken' => bug'.at <= LastFuzzed'
    BY <1>1, <1>2, <1>4, RestFuzzes DEF CauseInv, InLoop, targetVars
  <2>2. ASSUME reproducingFault'
        PROVE  /\ reproducingFault \/ pc = "judging"
               /\ UNCHANGED <<Initial, OnControl>>
    <3>1. CASE StartReproduction
      BY <3>1 DEF StartReproduction, RememberSearch, Initial, OnControl
    <3>2. CASE ~StartReproduction
      <4>1. /\ reproducingFault
            /\ UNCHANGED <<reproducingInitialIteration,
                           reproducingControlIteration>>
        BY <1>4, <2>2, <3>2 DEF Rest, Judge, LoopTail, ReportFatalFault,
          ReportFault, KeepFuzzing, AttemptFailed, ResumeAtFault,
          RestartVerified, GiveUpSearch, JumpBack, WindowFailed, ShallowStep,
          DeepStep, PlainStep, InWindow, Searching, NoFault, WindowFrame,
          MustStop, ContinueLoop, CountAndStop, TooManyMachines, Advance,
          StopBeforeFuzzing, LeaveLoop, InLoop, stateVars, reproVars
      <4> QED
        BY <2>2, <4>1 DEF Initial, OnControl
    <3> QED
      BY <3>1, <3>2
  <2> QED
    BY <1>1, <1>2, <2>1, <2>2 DEF CauseInv, InLoop, targetVars
<1> QED
  BY <1>2, <1>3, <1>4 DEF InLoop

\* The first window of a fault on a control iteration has failed without the
\* test case of its number.
LEMMA FailedShort ==
  ASSUME IInv, SearchInv, WindowFailed, reproducingControlIteration,
         reproducingIterationJumpCount = 0
  PROVE  replayed < reproducingInitialIteration
<1>1. /\ pc = "judging" /\ faults = "none" /\ reproducingFault /\ InLoop
      /\ iterationCount = reproducingInitialIteration
      /\ NextIteration = iterationCount
  BY DEF WindowFailed, Searching, NoFault, AtWindowEnd, InLoop, NextIteration
<1>2. /\ reproducingInitialIteration \in Nat \ {0} /\ replayed \in Nat
      /\ controlIteration /\ ~controlAfterRepro
  BY <1>1 DEF IInv, TypeOK, CountersOK, FlagsOK, IterationShape, SearchShape,
    SearchInv, OrderInv, StopShortInv
<1>3. NextIteration = Due
  BY <1>1, <1>2 DEF SearchInv, WindowInv, CutShort, IsDue
<1> QED
  BY <1>1, <1>2, <1>3 DEF Due

\* Between two passes of a search the target is left as it is; a new window
\* starts with a restart, or has replayed nothing yet.
LEMMA RestRetrace ==
  ASSUME IInv, SearchInv, RangeInv, RetraceInv, Rest
  PROVE  RetraceInv'
<1>1. UNCHANGED targetVars /\ replayed' = IF NewWindow THEN 0 ELSE replayed
  BY DEF Rest
<1>2. bug.from \in Nat \ {0} /\ bug.at \in Nat \ {0} /\ bug.from <= bug.at
  BY EngineAssumption DEF RangeInv, Bugs
<1>3. CASE pc' \in {"done", "error"} \/ ~reproducingFault'
  BY <1>3 DEF RetraceInv, InLoop
<1>4. CASE NewWindow
  <2>1. /\ replayed' = 0 /\ ~Reached' /\ ~Passed'
        /\ pc' = "tail" /\ UNCHANGED <<faults, bug, progress, broken>>
    BY <1>1, <1>2, <1>4 DEF NewWindow, StartReproduction, JumpBack,
      SearchFrame, Reached, Passed, targetVars
  <2>2. CASE RestartDue'
    BY <2>1, <2>2 DEF RetraceInv
  <2>3. CASE ~RestartDue'
    <3>1. /\ JumpBack /\ pc = "judging" /\ faults = "none" /\ reproducingFault
          /\ reproducingIterationJumpCount = 0 /\ reproducingControlIteration
      BY <1>4, <2>1, <2>3 DEF NewWindow, StartReproduction, JumpBack,
        WindowFailed, Searching, NoFault, RestartDue, RestartsTarget
    <3>2. /\ replayed < reproducingInitialIteration /\ replayed \in Nat
          /\ reproducingInitialIteration \in Nat
      BY <3>1, FailedShort DEF JumpBack, IInv, TypeOK, CountersOK, SearchInv,
        OrderInv
    <3>3. ~Reached /\ ~Passed
      BY <1>2, <3>1, <3>2 DEF Reached, Passed
    <3>4. progress = bug.from /\ ~broken /\ broken = FALSE
      BY <3>1, <3>3 DEF RetraceInv, RestartDue, InLoop
    <3> QED
      BY <2>1, <2>3, <3>4 DEF RetraceInv
  <2> QED
    BY <2>2, <2>3
<1>5. CASE RestartVerified \/ ShallowStep \/ DeepStep \/ PlainStep
  <2>1. /\ pc = "judging" /\ pc' = "tail" /\ reproducingFault
        /\ faults = "none" /\ UNCHANGED <<faults, isReplayJump, reproVars>>
        /\ ~NewWindow
    BY <1>5 DEF RestartVerified, ShallowStep, DeepStep, PlainStep, InWindow,
      Searching, NoFault, SearchFrame, WindowFrame, NewWindow,
      StartReproduction, JumpBack, WindowFailed
  <2>2. ~RestartDue /\ ~RestartDue'
    BY <2>1 DEF RestartDue, IInv, RestartShape
  <2>3. (Reached' <=> Reached) /\ (Passed' <=> Passed)
    BY <1>1, <2>1 DEF Reached, Passed, reproVars, targetVars
  <2> QED
    BY <1>1, <2>1, <2>2, <2>3 DEF RetraceInv, InLoop, targetVars
<1>6. CASE ContinueLoop \/ Advance
  <2>1. /\ pc = "tail" /\ pc' = "top" /\ ~NewWindow
        /\ UNCHANGED <<faults, isReplayJump, reproVars>>
    BY <1>6 DEF ContinueLoop, Advance, AtTotals, stateVars, loopVars,
      NewWindow, StartReproduction, JumpBack, WindowFailed, Searching, NoFault
  <2>2. RestartDue' <=> RestartDue
    BY <2>1 DEF RestartDue
  <2>3. (Reached' <=> Reached) /\ (Passed' <=> Passed)
    BY <1>1, <2>1 DEF Reached, Passed, reproVars, targetVars
  <2> QED
    BY <1>1, <2>1, <2>2, <2>3 DEF RetraceInv, InLoop, targetVars, reproVars
<1>7. CASE ReportFault \/ AttemptFailed \/ GiveUpSearch \/ KeepFuzzing
  BY <1>3, <1>7 DEF ReportFault, AttemptFailed, GiveUpSearch, KeepFuzzing,
    ResumeAtFault, stateVars, reproVars
<1>8. CASE \/ ReportFatalFault \/ MustStop \/ CountAndStop \/ TooManyMachines
           \/ StopBeforeFuzzing \/ LeaveLoop
  BY <1>3, <1>8 DEF ReportFatalFault, MustStop, CountAndStop, TooManyMachines,
    StopBeforeFuzzing, LeaveLoop
<1> QED
  BY <1>4, <1>5, <1>6, <1>7, <1>8 DEF Rest, Judge, LoopTail, NewWindow

\* A stuttering step.
LEMMA StutterBug ==
  ASSUME CauseInv, RetraceInv, UNCHANGED allVars
  PROVE  CauseInv' /\ RetraceInv'
<1>1. /\ UNCHANGED <<pc, iterationCount, isReplayJump, controlIteration,
                     faultOnPreviousIteration, faults, reproVars>>
      /\ UNCHANGED <<targetVars, historyVars>>
  BY DEF allVars, vars, stateVars, loopVars, flagVars
<1>2. UNCHANGED <<InLoop, LastFuzzed, Initial, OnControl, RestartDue, Reached,
                  Passed>>
  BY <1>1 DEF InLoop, LastFuzzed, Initial, OnControl, RestartDue, Reached,
    Passed, reproVars, targetVars, historyVars
<1>3. CauseInv'
  BY <1>1, <1>2 DEF CauseInv, reproVars, targetVars
<1>4. RetraceInv'
  BY <1>1, <1>2 DEF RetraceInv, reproVars, targetVars, historyVars
<1> QED
  BY <1>3, <1>4

\* A bug is found again: the search only gives up if some of the test cases
\* that cause it were covered by an earlier search or are more than
\* MaxBackSearch back (Engine.cs:797), or if the window that held them was cut
\* short.  The machine does not share the run, and the run does not begin in the
\* first block of a strategy that switches.
THEOREM BugsReproduced ==
  ASSUME "parallel" \notin RunModes,
         ~Switching \/ SwitchCount < IterationStart
  PROVE  TargetSpec => BugIsReproduced
<1>1. TargetInit => CauseInv /\ RetraceInv
  BY InitBug
<1>2. ASSUME IInv, SearchInv, RangeInv, ReplaysSession, CauseInv, RetraceInv,
             [TargetNext]_allVars
      PROVE  CauseInv' /\ RetraceInv'
  BY <1>2, BeginBug, RunCause, RunRetrace, RestCause, RestRetrace, StutterBug
    DEF TargetNext
<1>3. ASSUME IInv, SearchInv, RangeInv, WindowIsComplete, CauseInv, RetraceInv,
             GiveUpSearch, cause = "bug"
      PROVE  \/ bug.from <= lastReproFault
             \/ bug.from < reproducingInitialIteration - MaxBackSearch
             \/ CutShort
  <2> SUFFICES ASSUME lastReproFault < bug.from,
                      reproducingInitialIteration - MaxBackSearch <= bug.from,
                      ~CutShort
               PROVE  FALSE
    BY <1>3, EngineAssumption DEF RangeInv, Bugs, IInv, TypeOK, CountersOK <2>
      DEFINE onControl == reproducingControlIteration
  <2>1. /\ WindowFailed /\ reproducingIterationJumpCount >= MaxJump
        /\ pc = "judging" /\ faults = "none" /\ reproducingFault /\ InLoop
        /\ iterationCount = reproducingInitialIteration
        /\ ControlEvery = 0 \/ controlIteration
    BY <1>3 DEF GiveUpSearch, WindowFailed, Searching, NoFault, AtWindowEnd,
      InLoop
  <2>2. /\ reproducingInitialIteration \in Nat /\ lastReproFault \in Nat
        /\ reproducingIterationJumpCount \in Nat /\ MaxBackSearch \in Nat
        /\ bug.from \in Nat /\ bug.at \in Nat /\ bug.from <= bug.at
        /\ bug.shows \in {"fuzz", "control"} /\ onControl \in BOOLEAN
    BY <1>3, EngineAssumption DEF RangeInv, Bugs, IInv, TypeOK, CountersOK,
      FlagsOK
  <2>3. /\ bug.at <= reproducingInitialIteration - Bit(onControl)
        /\ bug.shows = "control" => onControl
    BY <1>3, <2>1 DEF CauseInv, Initial, OnControl
  <2>4. reproducingInitialIteration - reproducingIterationJumpCount <= bug.from
    BY <2>1, <2>2 DEF MaxJump, Lesser
  <2>5. replayed = reproducingInitialIteration - Bit(onControl)
    <3>1. ~(reproducingIterationJumpCount = 0 /\ onControl)
      BY <2>2, <2>3, <2>4 DEF Bit
    <3> QED
      BY <1>3, <2>1, <3>1 DEF WindowIsComplete
  <2>6. Passed
    BY <2>2, <2>3, <2>4, <2>5 DEF Passed, Reached, Bit
  <2>7. ~RestartDue
    BY <2>1 DEF RestartDue
  <2>8. bug.shows = "control" /\ broken /\ ~controlIteration
    BY <1>3, <2>1, <2>2, <2>6, <2>7 DEF RetraceInv
  <2>9. NextIteration = reproducingInitialIteration
    BY <2>1 DEF NextIteration
  <2> QED
    BY <1>3, <2>1, <2>3, <2>8, <2>9 DEF SearchInv, StopShortInv
<1> QED
  BY <1>1, <1>2, <1>3, SearchInvariance, RangeInvariance, SessionsReplayed,
    WindowsComplete, PTL DEF TargetSpec, BugIsReproduced

=============================================================================
