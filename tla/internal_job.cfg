\* Two jobs in turn, with or without a duration, and four calls.
SPECIFICATION FairSpec
CONSTANTS
  MaxStarts = 2
  MaxCalls = 4
INVARIANTS
  LocksOK
  RunHasMonitor
  IdleMeansStopped
  TestIsFinished
PROPERTIES
  EndsWhenTold
  PauseHolds
  KillReturns
