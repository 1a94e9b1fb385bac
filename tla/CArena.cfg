\* Two threads and the streams: the unlocked windows, blocks that are split and coalesced,
\* adjacent hunks, defragmentation, release at the threshold, refusals of the system.
CONSTANTS
  Threads = {t1, t2}
  NoThread = NoThread
  Aborted = Aborted
  MaxAddr = 3
  Sizes = {1, 2, 3}
  Hunk = 1
  ReleaseThreshold = 5
  Defragmentation = TRUE
  Gpu = TRUE
  FreeSynchronizes = TRUE
SPECIFICATION Spec
INVARIANTS BlocksDisjoint HunksTiled SystemHunks Coalesced Accounting HolderNeverWaits
CHECK_DEADLOCK FALSE
