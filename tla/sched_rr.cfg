SPECIFICATION FairSpec
CONSTANTS
  NCpu = 3
  MaxProcs = 5
  Affinities <- SomePinned
  StaleCurproc <- AnyWord
  InitOutcomes = {TRUE, FALSE}
INVARIANTS OnePlace OneContext NoProcessLost
PROPERTIES RoundRobin
CHECK_DEADLOCK FALSE
