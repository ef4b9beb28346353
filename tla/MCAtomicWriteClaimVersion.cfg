SPECIFICATION Spec
CONSTANTS
  p1 = p1
  p2 = p2
  blank = blank
  a = a
  partial = partial
  Proc <- Two
  Text <- Texts
  Blank <- blank
  Partial <- partial
  Adapters = {"posix"}
  OtherWrites = {}
  MaxInode = 3
  MaxStamp = 1
  MaxCrash = 0
PROPERTIES
  WrittenVersionNamesText
CHECK_DEADLOCK FALSE
