CONSTANTS
  Chunk = 2
  Concurrency = 2
  HighWater = 4
  Sizes <- MCLongFile
  MaxResizes = 0
  Fails = FALSE
SPECIFICATION FairSpec
INVARIANT MemoryBounded
CHECK_DEADLOCK FALSE
