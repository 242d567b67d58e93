\* Two output actions in an iteration, three troubles at any moment, and two
\* callbacks that are late.
SPECIFICATION FairSpec
CONSTANTS
  Outputs = 2
  MaxTroubles = 3
  MaxStale = 2
INVARIANTS
  FinalIsSent
  FinalIsFresh
  NothingIsLeft
PROPERTIES
  ActionEnds
