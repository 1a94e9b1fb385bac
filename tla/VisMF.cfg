\* Five ranks.  Iterators: one to five files, grouped or not, every mode and every decider;
\* asynchronous: two files of three and two turns, two consecutive writes.
CONSTANTS
  NProcs = 5
  OutFilesInputs = {1, 2, 3, 4, 5}
  DeciderInputs <- MCDeciders
  DeciderIndices <- MCIndices
  RanksInputs <- MCRanks
  NOutFiles = 2
  NWrites = 2
  MinMax = 77
  Layouts <- MCLayouts
SPECIFICATION MCSpec
INVARIANTS OneWriter HeaderTrue InTurn HeaderExact
PROPERTY WritesEnd
CHECK_DEADLOCK FALSE
