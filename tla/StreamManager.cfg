CONSTANTS
  Master = t1
  Threads = {t1, t2}
  NoThread = NoThread
  Aborted = Aborted
  Blocks = {b1, b2}
  max_gpu_streams = 1
  Streams = {1, 2}
  UserStreams = {2}
  MaxDepth = 1
  Limit = 1
  MaxWork = 1
  MaxAllocs = 3
SPECIFICATION Spec
CHECK_DEADLOCK FALSE
INVARIANTS NothingLost
PROPERTIES Promise CallsReturn
