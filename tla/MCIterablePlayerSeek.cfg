CONSTANTS
  a = a
  b = b
  Topics <- MCTopics
  Selections <- MCSelections
  Log <- MCPlainLog
  SeekTimes <- MCSeekTimes
  PlayUntilTimes <- MCPlayUntilTimes
  EndTime = 3
  SeekOnStart = 1
  MaxTick = 2
  MaxCalls = 4
  SourceFails = FALSE
SPECIFICATION FairSpec
PROPERTY SeekRequestKept
CHECK_DEADLOCK FALSE
