SPECIFICATION FairSpec
CONSTANTS
  Threads = {t1, t2}
  None = None
  PAGESIZE = 2
  MemMap <- AlignedMap
  Counts = {1}
INVARIANTS NoSharedFrame NoFrameLost NullMeansExhausted GrantsUsable
PROPERTIES AllocImplemented HolderReturns
