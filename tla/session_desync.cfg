SPECIFICATION FairSpec
CONSTANTS
  Offsets <- TwoOffsets
  MaxStale = 0
INVARIANT
  CleanReturn
CHECK_DEADLOCK FALSE
