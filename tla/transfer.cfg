SPECIFICATION FairSpec
CONSTANTS
  Contents <- SmallContents
  OldFiles <- SmallOldFiles
  Offsets <- SmallOffsets
  Positions <- AtTheBeginning
  MaxHosts = 2
INVARIANTS
  TypeOK
  StoredIsUpload
  RemoteIsPrefix
PROPERTIES
  RetrieveImplementsFileCopy
  StoreImplementsFileCopy
  RetrieveEnds
  StoreEnds
CHECK_DEADLOCK FALSE
