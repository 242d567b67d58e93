\* Two jobs of two test cases, three crashes, four calls.  Nothing has to happen
\* while no job runs, and a worker may hang.
SPECIFICATION FairSpec
CHECK_DEADLOCK FALSE
CONSTANTS
  RangeStop = 2
  MaxCrashes = 3
  MaxStarts = 2
  MaxCalls = 4
INVARIANTS
  MonitorOK
  NothingSkipped
  IdleMeansStopped
PROPERTIES
  EndsWhenTold
  CallsReturn
