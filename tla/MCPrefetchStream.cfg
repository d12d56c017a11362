CONSTANTS
  Chunk = 2
  Concurrency = 3
  HighWater = 3
  Sizes <- MCSizes
  MaxResizes = 2
  Fails = TRUE
SPECIFICATION FairSpec
INVARIANTS NeverStalls NoHandleLeaks
PROPERTIES DeliversFile StreamFinishes
CHECK_DEADLOCK FALSE
