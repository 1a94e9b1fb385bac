CONSTANTS
  Layouts <- MCLayouts
  FmgIters = {0, 1}
  Uses <- MCUses
  do_no_sync_gpu = TRUE
  max_iters = 2
  PrecondIters = 1
  MaxCalls = 3
SPECIFICATION Spec
CHECK_DEADLOCK FALSE
INVARIANTS ResidualTrue CorrectionWhole SolutionReturned
