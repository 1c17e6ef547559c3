\* Two attempts, which may overlap, and how they end.
SPECIFICATION Spec
CONSTANTS
  MaxAttempts = 2
  MaxBoxes = 1
  MaxFailures = 0
  Backlog = 0
INVARIANTS
  NeverBlocks
  NoOrphan
  MainScreenFree
PROPERTIES
  EveryAttemptEnds
  ConnectedServed
