SPECIFICATION Spec
CONSTANTS
  Contents <- SmallContents
  OldFiles <- SmallOldFiles
  Offsets <- SmallOffsets
  Positions <- FurtherOn
  MaxHosts = 2
INVARIANT
  StoredIsUpload
CHECK_DEADLOCK FALSE
