SPECIFICATION Spec
CONSTANTS
  Registered <- Documents
  MaxWindows = 4
  MouseEvents <- Presses
  DragReliable = FALSE
  KeyboardOnly = FALSE
INVARIANTS
  WindowsAreOwned
  PendingCanBeAnswered
  AskedInOrder
  UnsavedIsKnown
PROPERTIES
  QuitIsTransaction
CHECK_DEADLOCK FALSE
CONSTRAINT Plain
