CONSTANTS
  Log <- MCLog
  Starts <- MCStarts
  ReadAhead = 2
  MinReadAhead = 1
  MaxIterators = 3
  SourceFails = TRUE
SPECIFICATION FairSpec
INVARIANT NobodyWaitsInVain
PROPERTIES IteratorKeepsPromise CallsWearDown CallsReturn
CHECK_DEADLOCK FALSE
