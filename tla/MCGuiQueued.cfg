\* A place that was waited for.
SPECIFICATION Spec
CONSTANTS
  MaxAttempts = 1
  MaxBoxes = 1
  MaxFailures = 0
  Backlog = 0
INVARIANTS
  PreparesAPlace
