CONSTANTS
  FileFrames = 1
  Window = 1
  Files = 1
  MaxRetries = 0
SPECIFICATION FairSpec
INVARIANT CancelVoids
CHECK_DEADLOCK FALSE
