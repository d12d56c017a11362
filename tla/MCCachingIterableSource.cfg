CONSTANTS
  Log <- MCLog
  Topics = {"a", "b"}
  Selections <- MCSelections
  Starts <- MCStarts
  Ends <- MCEnds
  MaxBlockSize = 2
  MaxTotalSize = 3
  MaxIterators = 3
  SourceFails = TRUE
SPECIFICATION Spec
INVARIANTS BlocksTellTheTruth BackfillIsLatest
PROPERTIES IteratorKeepsPromise
CHECK_DEADLOCK FALSE
