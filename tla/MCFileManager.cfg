\* Four adapters, three names, three objects, one act of another program
SPECIFICATION Spec
CONSTANTS
  Order <- Names
  Hidden <- Dots
  Firsts <- Contents
  Forms <- PathForms
  Starts <- StartPaths
  Adapters = {"native", "portable", "win32", "djgpp"}
  Rows = 2
  Page = 2
  MaxEntries = 3
  MaxObject = 3
  MaxOthers = 1
INVARIANTS ShowsFolder RoundTrip
PROPERTIES NothingLost SelectionKept
