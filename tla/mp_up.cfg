SPECIFICATION FairSpec
CONSTANTS
  Aps = {1, 2, 3, 4, 5}
  Bsp = 0
  Madts <- BothMadts
  MAX_CPUS = 4
  Frames = {1, 2, 3, 4, 5, 6, 7, 8, 9, 10, 11, 12, 13, 14, 15, 16, 17, 18, 19, 20}
  AP_BUA = 8
  AP_BUDA = 9
  Supplies <- AnySupply
  StaleBooted = {0, 1}
  ApicModes = {TRUE, FALSE}
  Junk = Junk
  Nobody = Nobody
INVARIANTS TablesLive OwnStack
PROPERTIES DescriptorStable BringUpEnds
CHECK_DEADLOCK FALSE
