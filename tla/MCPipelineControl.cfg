CONSTANTS
  Registers = {0, 1, 2}
  ZeroReg = 0
  Words = 4
  Pcs = 3
  Unknown = Unknown
  Instructions <- ControlInstructions
  Contents <- AscendingOnly
SPECIFICATION Spec
PROPERTIES IsSequential KeepsRetiring
