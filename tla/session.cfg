SPECIFICATION FairSpec
CONSTANTS
  Offsets <- ThreeOffsets
  MaxStale = 0
INVARIANTS
  TypeOK
  CleanReturnUnlessGetterFailed
  DataReleased
  ImageUnlessTypeRefused
  ResumesAtOffset
PROPERTIES
  NothingSentOnceBroken
  
CHECK_DEADLOCK FALSE
