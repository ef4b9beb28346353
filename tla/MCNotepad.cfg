SPECIFICATION Spec
CONSTANTS
  none = none
  one = one
  two = two
  four = four
  here = here
  there = there
  Text <- Texts
  Place <- Places
  Size <- Sizes
  MaxStates = 3
  MaxBytes = 3
INVARIANTS
  BytesCounted
  DirtyKnown
PROPERTIES
  HistoryAsPromised
