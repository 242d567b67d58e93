\* Two monitors; a lost, unanswered or repeated request, a refusal and a crash,
\* at any moment.  The run of an engine ends.
SPECIFICATION FairSpec
CHECK_DEADLOCK FALSE
CONSTANTS
  Monitors = 2
  MaxGlitches = 2
  MaxRefusals = 2
  MaxCrashes = 2
INVARIANTS
  ContextsOK
  IterationIsMonitored
  OutputArrives
  FaultIsRecorded
PROPERTIES
  DisconnectsFirst
  Reconnects
