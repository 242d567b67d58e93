\* A crash, and a monitor that refuses to start again.
SPECIFICATION Spec
CHECK_DEADLOCK FALSE
CONSTANTS
  Monitors = 1
  MaxGlitches = 0
  MaxRefusals = 1
  MaxCrashes = 1
INVARIANTS
  ReconnectIsDue
