SPECIFICATION FairSpec
CONSTANTS
  Offsets <- TwoOffsets
  MaxStale = 0
PROPERTY
  CloseInterrupts
CHECK_DEADLOCK FALSE
