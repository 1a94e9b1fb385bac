SPECIFICATION Spec
CONSTANTS
  BARefs = {a1, a2}
  DMRefs = {d1}
  BoxLists = {b1, b2}
  Maps = {p1}
  Transformers <- MCTransformers
  FabArrays = {f1, f2}
  LayoutDatas = {l1, l2}
  Iters = {i1}
  None = None
  MaxLive = 3
  MaxCached = 1
SYMMETRY MCSymmetry
INVARIANTS CacheTrue CountsTrue NoDangling
PROPERTY HeldMetadataStays
