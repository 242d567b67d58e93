\* One job, a crash, a kill.
SPECIFICATION Spec
CONSTANTS
  RangeStop = 2
  MaxCrashes = 1
  MaxStarts = 1
  MaxCalls = 2
INVARIANTS
  KilledIsDead
