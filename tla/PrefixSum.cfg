\* Five blocks with warps of two lanes, two or more windows to look back at; three kernels
\* with two warps and two chunks, eight elements a block, two to five blocks.
CONSTANTS
  nblocks = 5
  warp_size = 2
  MaxResident = 3
  nwarps = 2
  nchunks = 2
  Lengths = {9, 10, 13, 16, 34}
  fin <- MCfin
  mp_resident = 2
SPECIFICATION ScanSpec
INVARIANTS PrefixesTrue AddedOnce ScanTrue
PROPERTY ScanEnds
CHECK_DEADLOCK FALSE
