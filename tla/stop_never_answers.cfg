\* A Stop from outside while the job is being finished.
SPECIFICATION FairSpec
CONSTANTS
  QueueLimit = 2
  IterationModes = {"Fuzzing", "Reproducing"}
  MaxIterations = 1
  MaxFaults = 0
  MaxPauses = 0
  MaxStops = 1
  StorageFails = FALSE
PROPERTIES
  StopReturns
