SPECIFICATION Spec
CONSTANTS
  ShellHandlers <- MCShell
  Capacity = 20
  ReadSize = 10
  Features <- MCFeatures
  Inputs <- MCInputs
  Interrupted <- MCInterrupted
  Columns = {0, 1}
  Sizes <- MCSizes
  FirstSize <- MCFirstSize
  MaxWire = 1
  MaxExpected = 2
PROPERTIES
  NoBytesLeak
CHECK_DEADLOCK FALSE
