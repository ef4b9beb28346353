SPECIFICATION Spec
CONSTANTS
  Chars <- Used
  Bytes <- Width2
  Columns <- CellsOf
  Fold <- Lower
  MaxLen = 2
  MaxBytes = 3
  Pastes <- Clips
  Texts <- Files
  Sizes <- Areas
INVARIANTS
  PlacesExist
  CursorIsSeen
  WrapIsFaithful
  FindsNearest
PROPERTIES
  EditsAsPromised
CONSTRAINT
  QueryInUse
