SPECIFICATION FairSpec
CONSTANTS
  Offsets <- TwoOffsets
  MaxStale = 0
INVARIANT
  ImageTransfers
CHECK_DEADLOCK FALSE
