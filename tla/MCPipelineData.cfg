CONSTANTS
  Registers = {0, 1}
  ZeroReg = 0
  Words = 2
  Pcs = 4
  Unknown = Unknown
  Instructions <- DataInstructions
  Contents <- AllContents
SPECIFICATION Spec
PROPERTIES IsSequential
