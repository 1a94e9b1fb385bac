\* As AsyncWrite.cfg, but one rank between others has no FAB.
CONSTANTS
  NProcs = 5
  NOutFiles = 2
  NWrites = 1
  MinMax = 77
  Layouts <- GapLayouts
SPECIFICATION Spec
INVARIANT HeaderExact
CHECK_DEADLOCK FALSE
