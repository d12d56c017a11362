CONSTANTS
  FileFrames = 3
  Window = 2
  Files = 2
  MaxRetries = 1
SPECIFICATION FairSpec
INVARIANTS NothingStalls OneTransfer FileIntact WithinWindow NoSessionLeak
PROPERTIES AnswersOnce WaitEnds
CHECK_DEADLOCK FALSE
