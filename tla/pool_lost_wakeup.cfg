SPECIFICATION FairSpec
CONSTANTS
  Goroutines = {g1, g2}
  hosts <- OneHost
  ConnectionsPerHost = 1
  MaxConns = 2
  MaxRawConns = 0
PROPERTY
  LoopsUntilSlotFree
CHECK_DEADLOCK FALSE
