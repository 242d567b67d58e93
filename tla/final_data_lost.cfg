\* The final data is lost to an error of the first phase.
SPECIFICATION Spec
CONSTANTS
  Outputs = 1
  MaxTroubles = 1
  MaxStale = 1
INVARIANTS
  FirstErrorIsHarmless
