CONSTANTS
  Log <- MCLog
  Topics = {"a", "b"}
  Selections <- MCSelections
  LastTime = 4
  MaxBlocks = 3
  MinDuration = 1
  MaxCacheSize = 4
  MaxChanges = 4
  SourceFails = TRUE
SPECIFICATION FairSpec
INVARIANTS BlocksAreComplete CacheBounded RestsWhenLoaded
PROPERTIES LoadingRests
CHECK_DEADLOCK FALSE
