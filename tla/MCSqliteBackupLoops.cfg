CONSTANTS
  NPages = 2
  Chunks <- OneOrAll
  All = All
  MaxVersion = 2
  MayFail = TRUE
  MayDrop = TRUE
SPECIFICATION BackupSpec
INVARIANT SuccessMeansCopied
PROPERTIES CopiesAreSnapshots LoopEnds
CHECK_DEADLOCK FALSE
