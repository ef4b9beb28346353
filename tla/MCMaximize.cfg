SPECIFICATION MSpec
CONSTANTS
  Specs <- MCSpecs
  Screens <- MCScreens
  Points <- MCPoints
  MouseEvents <- MCEvents
  MaxWindows = 2
  SlotCap = 1
  Terminals <- MCTerminals
INVARIANTS
  DragInv
  TitleOnScreen
PROPERTIES
  OnlyHeldMoves
  MaximizedFills
  RestoresExactly
