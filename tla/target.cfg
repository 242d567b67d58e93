\* One real bug and one spurious fault, with control iterations and data set
\* switches, from the second block of iterations on.
SPECIFICATION TargetSpec
CONSTANTS
  IterationStart = 9
  RangeStop = 22
  StrategyCount = 100
  ControlEvery = 5
  MaxBackSearch = 11
  Lifetimes = {"Session"}
  DisableReproduction = FALSE
  SwitchCount = 7
  Switching = TRUE
  RunModes = {"fuzz"}
  ParallelNum = 1
  ParallelTotal = 1
  LastCase = 22
  MaxSpurious = 1
  DataSets = {d1, d2}
INVARIANTS
  ReplaysSession
  WindowIsComplete
  ControlComesFirst
PROPERTIES
  BugIsReproduced
  ReportedRangeHoldsBug
