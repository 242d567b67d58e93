\* Every call of the engine, one pause and one Stop from outside; the queue holds
\* two; a database may throw at any moment.  Then the engine may wait for ever.
SPECIFICATION FairSpec
CONSTANTS
  QueueLimit = 2
  IterationModes = {"Fuzzing", "Reproducing"}
  MaxIterations = 2
  MaxFaults = 1
  MaxPauses = 1
  MaxStops = 1
  StorageFails = TRUE
INVARIANTS
  RowIsCurrent
  PermitsOK
  RowNeverAhead
  ResultIsFinal
PROPERTIES
  ImplementsMetricLog
  EngineCallReturns
CHECK_DEADLOCK FALSE
