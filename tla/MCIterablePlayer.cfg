CONSTANTS
  a = a
  b = b
  Topics <- MCTopics
  Selections <- MCSelections
  Log <- MCLog
  SeekTimes <- MCSeekTimes
  PlayUntilTimes <- MCPlayUntilTimes
  EndTime = 3
  SeekOnStart = 0
  MaxTick = 2
  MaxCalls = 4
  SourceFails = TRUE
SPECIFICATION FairSpec
INVARIANTS NeverAhead InvariantsNeverThrow NothingSkipped RestingFrameIsCurrent
PROPERTIES FramesHonourContract CloseCompletesUnlessOrphaned ComesToRest
CHECK_DEADLOCK FALSE
