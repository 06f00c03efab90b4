SPECIFICATION FairSpec
CONSTANTS
  Goroutines = {g1, g2, g3}
  hosts <- OneHost
  ConnectionsPerHost = 1
  MaxConns = 3
  MaxRawConns = 0
PROPERTIES FullPoolServesWaiters ClosedClientClosesSockets
CHECK_DEADLOCK FALSE
