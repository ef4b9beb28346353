SPECIFICATION Spec
CONSTANTS
  p1 = p1
  blank = blank
  a = a
  partial = partial
  Proc <- One
  Text <- Texts
  Blank <- blank
  Partial <- partial
  Adapters = {"posix", "portable", "win32", "djgpp"}
  OtherWrites <- All
  MaxInode = 3
  MaxStamp = 2
  MaxCrash = 1
INVARIANTS
  TargetWhole
  NoLitter
PROPERTIES
  CopyKept
  ReadVersionNamesText
  CreateNeverReplaces
  SavesAsPromised
CHECK_DEADLOCK FALSE
CONSTRAINT FewUnsynced
