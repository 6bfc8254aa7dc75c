SPECIFICATION Spec
CONSTANTS
  ALIGN_SIZE_LOG2 = 1
  SL_INDEX_COUNT_LOG2 = 2
  FL_INDEX_MAX = 6
  Top = 48
  JunkFlags <- MCJunkFlags
  Cpus = {c1, c2}
  None = None
  Mem = 4
  PoolSizes <- MCPoolSizes
  Sizes <- MCSizes
  Aligns <- MCAligns
  Resizes <- MCResizes
INVARIANTS AssertsHold PoolPartitioned FreeListsExact NullMeansTight
PROPERTIES HeapImplemented
SYMMETRY Symmetry
