---------------------------- MODULE EngineSearch ----------------------------
(***************************************************************************)
(* The engine's loop as a session of FaultSearch: the refinement mapping.  *)
(***************************************************************************)
EXTENDS FuzzEngine

\* The test case of the session that is fuzzed next: after a search, the one
\* after the fault, or the one whose control iteration showed it; once an
\* iteration has run, the one that the increment at "tail" will lead to.
NextTestCase ==
  IF reproducingFault
  THEN reproducingInitialIteration + Bit(~reproducingControlIteration)
  ELSE iterationCount
         + Bit(pc \in {"judging", "tail", "error"} /\ ~controlIteration)

SessionMode ==
  IF pc \in {"done", "error"} THEN "over"
  ELSE IF reproducingFault THEN "searching" ELSE "fuzzing"

\* The first test case of this machine's part.
FirstOfPart ==
  LET slice == SliceRange(Lesser(StrategyCount, RangeStop))
  IN IF "parallel" \in RunModes /\ IterationStart < slice.start
     THEN slice.start ELSE IterationStart

Search == INSTANCE FaultSearch WITH
  First        <- IterationStart,
  PartStart    <- FirstOfPart,
  searchesBack <- Session,
  mode         <- SessionMode,
  next         <- NextTestCase,
  floor        <- lastReproFault,
  fault        <- IF reproducingFault THEN reproducingInitialIteration ELSE 0,
  depth        <- IF reproducingFault THEN reproducingIterationJumpCount ELSE 0

=============================================================================
