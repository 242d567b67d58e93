---------------------------- MODULE SessionTarget ----------------------------
(***************************************************************************)
(* The engine's loop fuzzing a target that keeps running between test      *)
(* cases and that has one real bug: it fails once certain consecutive test *)
(* cases have been run in order since it was last started.  The module     *)
(* composes the loop (FuzzEngine) with                                     *)
(*   - the target and the monitor that restarts it when the engine says    *)
(*     that there was a fault before (FaultOnPreviousIteration);           *)
(*   - the data sets of RandomStrategy: what a test case sends is fixed by *)
(*     its number and by the data set applied when it is run;              *)
(*   - faults that never come back, at any test case of the session.       *)
(* It asks whether the search finds the faults that can be found.          *)
(***************************************************************************)
EXTENDS FuzzEngine

CONSTANTS
  LastCase,     \* bound: no test case of the run lies beyond (RangeStop does
                \* not, either)
  MaxSpurious,  \* bound: how many faults that never come back
  DataSets      \* the data sets of one data model; two or more if Switching

VARIABLES
  bug,        \* the test cases that cause it, and where it shows
  progress,   \* the test case of the bug that has to come next
  broken,     \* the bug was caused and shows on the next control iteration
  spurious,   \* faults that do not come back, so far
  cause       \* what the current search was started by

targetVars == <<bug, progress, broken, spurious, cause>>

VARIABLES
  choice,          \* randomDataSet.Choice, for each block of iterations
  trackerSwitch,   \* DataSetTracker.Iteration
  dataSet          \* the data set that is applied

dataVars == <<choice, trackerSwitch, dataSet>>

VARIABLES          \* history
  fuzzedWith,      \* the data set each test case was fuzzed with
  replayed,        \* the last test case replayed in the current window
  controlled       \* the last control iteration that was run

historyVars == <<fuzzedWith, replayed, controlled>>

allVars == <<vars, targetVars, dataVars, historyVars>>

-----------------------------------------------------------------------------
Blocks == {GetSwitchIteration(i) : i \in IterationStart..LastCase + 1}

\* The first data set of the list is applied until a block is switched to.
FirstDataSet == CHOOSE d \in DataSets : TRUE

Bugs == {b \in [from : IterationStart..LastCase, at : IterationStart..LastCase,
                shows : {"fuzz", "control"}] : b.from <= b.at}

TargetInit ==
  /\ Init
  /\ bug \in Bugs
  /\ progress = bug.from
  /\ broken = FALSE /\ spurious = 0 /\ cause = "none"
  /\ choice \in [Blocks -> DataSets]
  /\ trackerSwitch = 1
  /\ dataSet = FirstDataSet
  /\ fuzzedWith = <<>>
  /\ replayed = 0 /\ controlled = 0

\* A recording iteration applies the data set of its block, unless the last one
\* applied was of the same block.
SyncDataSets ==
  LET block   == GetSwitchIteration(iterationCount)
      applies == /\ controlIteration' /\ controlRecordingIteration'
                 /\ Switches /\ block # trackerSwitch
  IN /\ dataSet' = IF applies THEN choice[block] ELSE dataSet
     /\ trackerSwitch' = IF applies THEN block ELSE trackerSwitch
     /\ UNCHANGED choice

Begin ==
  /\ BeginIteration
  /\ SyncDataSets
  /\ UNCHANGED <<targetVars, historyVars>>

-----------------------------------------------------------------------------
(* The target.  A restart forgets what has been sent before.               *)

Expected == IF faultOnPreviousIteration THEN bug.from ELSE progress

IsBroken == broken /\ ~faultOnPreviousIteration

\* Is this the test case of that number, or the same mutation of other data?
SameData ==
  reproducingFault => /\ iterationCount \in DOMAIN fuzzedWith
                      /\ fuzzedWith[iterationCount] = dataSet

Hits == /\ ~controlIteration /\ SameData
        /\ iterationCount \in {Expected, bug.from}
        /\ iterationCount <= bug.at

CompletesBug == Hits /\ iterationCount = bug.at

ShowsBug == IF controlIteration THEN IsBroken
            ELSE CompletesBug /\ bug.shows = "fuzz"

Target ==
  /\ progress' = IF Hits THEN iterationCount + 1 ELSE Expected
  /\ broken' = (IsBroken \/ (CompletesBug /\ bug.shows = "control"))
  /\ UNCHANGED bug

\* The test case of this pass is fuzzed with the data set that is applied.
FuzzedNow ==
  [i \in DOMAIN fuzzedWith \cup {iterationCount} |->
     IF i = iterationCount THEN dataSet ELSE fuzzedWith[i]]

Remember ==
  /\ fuzzedWith' = IF controlIteration \/ reproducingFault THEN fuzzedWith
                   ELSE FuzzedNow
  /\ replayed' = IF reproducingFault /\ ~controlIteration THEN iterationCount
                 ELSE replayed
  /\ controlled' = IF controlIteration THEN iterationCount ELSE controlled

\* The target's own faults, and a spurious one if there may be one.
Run ==
  \E outcome \in {"clean", "fault"} :
    /\ Execute(outcome)
    /\ Target /\ Remember
    /\ \/ /\ outcome = IF ShowsBug THEN "fault" ELSE "clean"
          /\ UNCHANGED spurious
       \/ /\ outcome = "fault" /\ ~ShowsBug
          /\ ~reproducingFault /\ spurious < MaxSpurious
          /\ spurious' = spurious + 1
    /\ cause' = IF reproducingFault THEN cause
                ELSE IF outcome = "clean" THEN "none"
                ELSE IF ShowsBug THEN "bug" ELSE "spurious"
    /\ UNCHANGED dataVars

\* A window starts anew.
NewWindow == StartReproduction \/ JumpBack

Rest ==
  /\ \/ Judge \/ LoopTail \/ StopBeforeFuzzing \/ LeaveLoop
  /\ replayed' = IF NewWindow THEN 0 ELSE replayed
  /\ UNCHANGED <<targetVars, dataVars, fuzzedWith, controlled>>

TargetNext == Begin \/ Run \/ Rest \/ (Terminated /\ UNCHANGED allVars)

TargetSpec == TargetInit /\ [][TargetNext]_allVars

-----------------------------------------------------------------------------
(* Properties.                                                             *)

Replaying == pc = "running" /\ reproducingFault /\ ~controlIteration

\* A search replays the session: only test cases that this run has sent before
\* ("searching through previously executed test cases",
\* FaultReproduction.adoc:40), in the order of the session, from the first test
\* case of the window, none left out, each with the data set that it had.
ReplaysSession ==
  Replaying =>
    /\ iterationCount \in DOMAIN fuzzedWith
    /\ iterationCount = IF replayed = 0
         THEN reproducingInitialIteration - reproducingIterationJumpCount
         ELSE replayed + 1
    /\ fuzzedWith[iterationCount] = dataSet

\* A window that ends with the first test case of a block: the strategy makes it
\* a recording iteration, and without control iterations, or in a window of more
\* than 10, that is taken for the end of the window (Engine.cs:790, 874).
CutShort ==
  LET last == reproducingInitialIteration - Bit(reproducingControlIteration)
  IN /\ Switches /\ reproducingIterationJumpCount # 0
     /\ GetSwitchIteration(last) = last
     /\ ControlEvery = 0 \/ reproducingIterationJumpCount > 10

\* But for that, a window has only failed when its last test case was replayed,
\* too: the one the fault was found on, or the one before the control iteration
\* that it was found on.
WindowIsComplete ==
  LET empty == reproducingIterationJumpCount = 0 /\ reproducingControlIteration
  IN (WindowFailed /\ ~empty /\ ~CutShort)
       => replayed = reproducingInitialIteration
                       - Bit(reproducingControlIteration)

\* A search gives up on the bug only if the test cases that cause it reach back
\* further than it may go, or its last window was cut short.
BugIsReproduced ==
  [][(GiveUpSearch /\ cause = "bug")
       => \/ bug.from <= lastReproFault
          \/ bug.from < reproducingInitialIteration - MaxBackSearch
          \/ CutShort]_allVars

\* The range of test cases that is saved with a reproduced fault holds all those
\* that cause it.
ReportedRangeHoldsBug ==
  [][(ReportFault /\ reproducingFault /\ cause = "bug")
       => bug.from >= reproducingInitialIteration
                        - reproducingIterationJumpCount
     ]_allVars

\* No test case of the session itself is fuzzed unless the control iteration
\* that its number asks for was run right before, whatever searches came
\* between (test.controlIteration).
ControlComesFirst ==
  (pc = "running" /\ ~reproducingFault /\ ~controlIteration /\ ControlEvery > 0
     /\ (ControlEvery = 1 \/ iterationCount % ControlEvery = 1))
    => controlled = iterationCount

-----------------------------------------------------------------------------
(* What the proofs of the properties need beside them.                     *)

InLoop == pc \in {"top", "running", "judging", "tail"}

\* There is a restart to verify only in a session, and after its first iteration.
FaultFlagInv ==
  controlIterationAfterFault => Session /\ (InLoop => totalKnown)

\* The test case of the current window that has to be replayed next.
Due == IF replayed = 0
       THEN reproducingInitialIteration - reproducingIterationJumpCount
       ELSE replayed + 1

\* Not so when it has just been replayed, nor when a control iteration checks the
\* last one.
IsDue == (pc = "judging" => controlIteration) /\ ~controlAfterRepro

\* A window is replayed test case by test case, whatever control iterations come
\* between, up to the control iteration that the fault was found on.
OrderInv ==
  /\ replayed \in Nat
  /\ InLoop /\ reproducingFault =>
       /\ replayed # 0 =>
            reproducingInitialIteration - reproducingIterationJumpCount
              <= replayed
       /\ controlAfterRepro =>
            /\ controlIteration /\ ~controlIterationAfterFault
            /\ iterationCount = reproducingInitialIteration
       /\ controlIterationAfterFault => controlIteration
       /\ pc = "judging" /\ ~controlIteration => replayed = iterationCount
       /\ IsDue => \/ NextIteration = Due
                   \/ /\ reproducingControlIteration
                      /\ NextIteration = reproducingInitialIteration

\* Without control iterations of their own, windows meet none, but for one right
\* after the floor.
PlainInv ==
  ControlEvery = 0 /\ InLoop =>
    /\ IF reproducingFault
       THEN reproducingControlIteration
              /\ (reproducingControlRecordingIteration => ~Switches)
              => reproducingInitialIteration = lastReproFault + 1
       ELSE controlIteration /\ (controlRecordingIteration => ~Switches)
              => NextIteration = lastReproFault + 1
    /\ pc = "tail" /\ ~reproducingFault /\ controlIterationAfterFault
         => NextIteration = lastReproFault + 1

\* If the fault was found on a control iteration, the search does not get to the
\* test case of its number.
StopShortInv ==
  InLoop /\ reproducingFault /\ reproducingControlIteration
    /\ NextIteration = reproducingInitialIteration
    => controlIteration

\* The test cases before the one to fuzz next have been fuzzed, from the first of
\* the run on.
LastFuzzed ==
  IF reproducingFault
  THEN reproducingInitialIteration - Bit(reproducingControlIteration)
  ELSE iterationCount - 1 + Bit(pc \in {"judging", "tail"} /\ ~controlIteration)

HistoryInv ==
  /\ IterationStart <= lastReproFault + 1
  /\ InLoop => IterationStart..LastFuzzed \subseteq DOMAIN fuzzedWith

\* The data set of a test case is that of its block.
DataOf(i) ==
  IF Switches THEN choice[GetSwitchIteration(i)] ELSE FirstDataSet

DataInv ==
  /\ IF Switches
     THEN IF lastSwitchIteration = 0
          THEN trackerSwitch = 1
          ELSE /\ trackerSwitch = lastSwitchIteration
               /\ dataSet = choice[trackerSwitch]
     ELSE dataSet = FirstDataSet
  /\ pc = "running" => dataSet = DataOf(iterationCount)
  /\ \A i \in DOMAIN fuzzedWith : fuzzedWith[i] = DataOf(i)

\* The strategy knows the block of the iteration that runs, and a restart to
\* verify comes before anything else in a search.
BlockInv ==
  InLoop =>
    /\ lastSwitchIteration = 0 =>
         pc = "top" /\ ~reproducingFault /\ controlIteration
    /\ controlRecordingIteration => controlIteration
    /\ Switches /\ pc \in {"running", "judging"} =>
         lastSwitchIteration = GetSwitchIteration(iterationCount)
    /\ reproducingFault =>
         /\ reproducingControlRecordingIteration => reproducingControlIteration
         /\ controlIterationAfterFault =>
              /\ ~controlRecordingIteration
              /\ replayed = 0 /\ reproducingIterationJumpCount = 0
         /\ Switches /\ replayed = 0 /\ reproducingIterationJumpCount = 0 =>
              lastSwitchIteration
                = GetSwitchIteration(reproducingInitialIteration)

\* In a window that is not cut short no test case is left out: that is where its
\* control iterations are.  The strategy asks for one where a block begins only:
\* it knows the block of the last test case that was replayed, or of the next.
WindowInv ==
  InLoop /\ reproducingFault /\ ~CutShort =>
    /\ Switches /\ replayed # 0 /\ replayed # reproducingInitialIteration =>
         lastSwitchIteration \in {GetSwitchIteration(replayed),
                                  GetSwitchIteration(replayed + 1)}
    /\ controlAfterRepro => replayed = reproducingInitialIteration
    /\ IsDue => NextIteration = Due
    /\ controlIteration =>
         \/ replayed = 0
              /\ (reproducingIterationJumpCount = 0
                    => reproducingControlIteration
                         \/ controlIterationAfterFault)
         \/ WindowHasControls /\ reproducingIterationJumpCount \in 1..10
         \/ reproducingControlIteration
              /\ NextIteration = reproducingInitialIteration
         \/ controlAfterRepro
         \/ /\ Switches /\ reproducingIterationJumpCount # 0
            /\ GetSwitchIteration(NextIteration) = NextIteration

\* The control iteration of a number is run before the number is marked.
ControlInv ==
  ControlEvery > 0 /\ InLoop =>
    /\ pc = "judging" /\ controlIteration => controlled = iterationCount
    /\ IF reproducingFault
       THEN /\ lastControlIteration <= reproducingInitialIteration
            /\ ~Session /\ reproducingControlIteration => controlIteration
       ELSE /\ lastControlIteration <= iterationCount
            /\ pc = "tail" /\ controlIteration /\ ~controlIterationAfterFault
                 => controlled = iterationCount
            /\ pc \in {"top", "running"} /\ ~controlIteration
                 /\ lastControlIteration = iterationCount
                 => controlled = iterationCount

\* What the target has got of its bug since a search has restarted it is part of
\* what the search has replayed, and so is what it is about to show.
Confined ==
  progress # bug.from \/ broken \/ (pc = "judging" /\ faults # "none")
    => bug.from >= reproducingInitialIteration - reproducingIterationJumpCount

RangeInv ==
  /\ bug \in Bugs
  /\ InLoop /\ reproducingFault =>
       \/ Confined
       \/ pc \in {"top", "tail"} /\ faults # "none"
       \/ pc = "running" /\ faultOnPreviousIteration

\* A search is for a bug whose test cases have all been fuzzed: up to the one
\* that it is for, or before the control iteration that showed it.
CauseInv ==
  /\ InLoop /\ broken => bug.at <= LastFuzzed
  /\ InLoop /\ cause = "bug" /\ (reproducingFault \/ pc = "judging") =>
       /\ bug.at <= Initial - Bit(OnControl)
       /\ bug.shows = "control" => OnControl

\* The target will be restarted before the next iteration.
RestartDue ==
  \/ pc \in {"top", "tail"} /\ (faults # "none" \/ isReplayJump)
  \/ pc = "running" /\ faultOnPreviousIteration

\* The window has come to the bug; it has come to its end.
Reached ==
  bug.from \in (reproducingInitialIteration - reproducingIterationJumpCount)
               ..replayed

Passed == Reached /\ bug.at <= replayed

\* Since a window started with a restart the target has got the test cases of the
\* bug that were replayed, and it has shown the bug when it had to.
RetraceInv ==
  InLoop /\ reproducingFault =>
    /\ IF RestartDue
       THEN replayed = 0
       ELSE /\ progress = IF Reached THEN Lesser(replayed, bug.at) + 1
                          ELSE bug.from
            /\ broken = (Passed /\ bug.shows = "control")
    /\ pc = "judging" /\ controlIteration /\ broken => faults # "none"
    /\ Passed /\ bug.shows = "fuzz" => pc = "judging" /\ faults # "none"

\* The inductive invariant of the composition, beside that of the loop: what a
\* search does in every run; what holds of a machine that has the run to itself.
SearchInv ==
  /\ FaultFlagInv /\ OrderInv /\ PlainInv /\ StopShortInv
  /\ BlockInv /\ WindowInv

RunInv == HistoryInv /\ ControlInv /\ ControlComesFirst

=============================================================================
