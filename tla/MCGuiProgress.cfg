\* One attempt, boxes within boxes, and a refresh that fails.
SPECIFICATION Spec
CONSTANTS
  MaxAttempts = 1
  MaxBoxes = 2
  MaxFailures = 1
  Backlog = 0
INVARIANTS
  NeverStuck
PROPERTIES
  RefreshResumes
  WaitingServed
