\* Three levels, factor 2: crashes and restarts in one job, changing grids in the other.
CONSTANTS
  MaxLevel = 2
  Jobs <- MCJobs
  RegridInt <- MCRegridInt
  SubCycle = TRUE
  ComputeNewDtOnRegrid = TRUE
  RegridOnRestart = FALSE
  CheckInt = 2
  MaxTries = 2
  AbortOnRetryFailure = FALSE
  HugeDt = 4000
  RefRatio = 2
SPECIFICATION Spec
INVARIANTS CoarseConsistent CrashLossBounded RestartFileKept FillBracketed RegridSynced
PROPERTY RunEnds
CHECK_DEADLOCK FALSE
