SPECIFICATION Spec
CONSTANTS
  Specs <- StackSpecs
  Screens <- StackScreens
  Points <- StackPoints
  MouseEvents <- StackEvents
  MaxWindows = 3
INVARIANTS
  TypeOK
  FocusInv
PROPERTIES
  InputReachesVisible
  ModalBlocks
  OthersKeepOrder
