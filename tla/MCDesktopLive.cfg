SPECIFICATION LiveSpec
CONSTANTS
  Registered <- AllKinds
  MaxWindows = 3
  MouseEvents <- Buttons
  DragReliable = TRUE
  KeyboardOnly = FALSE
INVARIANTS
  FocusOnTop
  LauncherHasKeys
  ModeMovesFocused
PROPERTIES
  ShutdownEnds
CHECK_DEADLOCK FALSE
