CONSTANTS
  Layouts <- MCLayouts
  FmgIters = {0, 1}
  Uses <- MCMixedGhosts
  do_no_sync_gpu = TRUE
  max_iters = 2
  PrecondIters = 1
  MaxCalls = 2
SPECIFICATION Spec
CHECK_DEADLOCK FALSE
INVARIANTS SolutionReturned
