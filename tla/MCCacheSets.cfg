CONSTANTS
  Tags = {t1, t2}
  Indices = {i1, i2}
  Devices = {}
  Lanes = {1}
  Bytes = {0, 1}
  Blank = 0
  Patterns <- AllPatterns
  ReadDelay = 1
  WriteDelay = 2
  FetchDelay = 0
SPECIFICATION Spec
INVARIANTS CleanLinesCoherent ReadsFindMemoryIdle
PROPERTY NeverStallsForGood
