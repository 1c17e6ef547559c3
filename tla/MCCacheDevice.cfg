CONSTANTS
  Tags = {t1, t2}
  Indices = {i1}
  Devices = {uart}
  Lanes = {l1, l2}
  Bytes = {0, 1}
  Blank = 0
  Patterns <- AllPatterns
  ReadDelay = 2
  WriteDelay = 0
  FetchDelay = 1
SYMMETRY Alike
SPECIFICATION Spec
INVARIANTS RequestHeld
PROPERTY IsAtomicMemory
