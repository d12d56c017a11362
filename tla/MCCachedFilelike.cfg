CONSTANTS
  Size = 9
  BlockSize = 2
  CacheSizes = {2, 9}
  Threshold = 1
  Reads <- MCReads
  MaxChunk = 2
  MaxReads = 3
  MaxErrors = 2
SPECIFICATION FairFileSpec
INVARIANTS DataAreTheFile ReadsAreServed
PROPERTY ReadsAreAnswered
CHECK_DEADLOCK FALSE
