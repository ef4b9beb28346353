SPECIFICATION Spec
CONSTANTS
  Registered <- Documents
  MaxWindows = 4
  MouseEvents <- Presses
  DragReliable = TRUE
  KeyboardOnly = FALSE
PROPERTIES
  QuitAsksEveryApp
CHECK_DEADLOCK FALSE
