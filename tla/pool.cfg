SPECIFICATION Spec
CONSTANTS
  Goroutines = {g1, g2, g3}
  hosts <- TwoHosts
  ConnectionsPerHost = 1
  MaxConns = 3
  MaxRawConns = 1
INVARIANTS
  TypeOK
  ExclusiveOwner
  SlotsExact
  LimitRespected
  SendNeverBlocks
  NoPanic
  NoLostSocket
  SocketsBounded
  CloseReachesAll
PROPERTY PoolImplementsSlots
SYMMETRY Interchangeable
CHECK_DEADLOCK FALSE
