\* Switches but no periodic control iterations; every run option.
SPECIFICATION FairSpec
CONSTANTS
  IterationStart = 1
  RangeStop = 30
  StrategyCount = 24
  ControlEvery = 0
  MaxBackSearch = 22
  Lifetimes = {"Session", "Iteration"}
  DisableReproduction = FALSE
  SwitchCount = 7
  Switching = TRUE
  RunModes = {"fuzz", "countOnly", "singleIteration", "parallel"}
  ParallelNum = 2
  ParallelTotal = 30
INVARIANTS
  SearchStaysInBounds
  FuzzingIsPastSearches
  RestartIsVerified
  LoggerAgrees
  IInv
PROPERTIES
  RunEnds
