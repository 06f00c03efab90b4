SPECIFICATION FairSpec
CONSTANTS
  Goroutines = {g1, g2}
  hosts <- RepeatedHost
  ConnectionsPerHost = 1
  MaxConns = 2
  MaxRawConns = 0
INVARIANT
  NoPanic
CHECK_DEADLOCK FALSE
