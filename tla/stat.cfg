SPECIFICATION Spec
CONSTANTS
  Tokens <- MCTokens
  NameSets <- MCNameSets
  Folders <- MCFolders
  Kinds <- MCKinds
  Now <- MCNow
  MaxChanges = 1
INVARIANTS
  TypeOK
  StatDescribesPath
  NotFoundIsTrue
  ReadDirExact
  DirNameExact
CHECK_DEADLOCK FALSE
