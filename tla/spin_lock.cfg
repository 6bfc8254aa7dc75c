SPECIFICATION FairSpec
CONSTANTS
  t1 = t1
  t2 = t2
  t3 = t3
  c1 = c1
  c2 = c2
  Threads = {t1, t2, t3}
  Cpus = {c1, c2}
  Home <- SharedHome
  None = None
INVARIANTS MutualExclusion
PROPERTIES IrqRestored LockImplemented LockTaken
CHECK_DEADLOCK FALSE
