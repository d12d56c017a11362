CONSTANTS
  Topics = {"a", "b"}
  TopicOf <- MCTopicOf
  Started = {1}
  Selections <- MCSelections
  Published <- MCPublished
  Times = {1, 2}
  Uris = {"u"}
  MaxCalls = 2
  MaxEvents = 3
SPECIFICATION FairSpec
INVARIANTS ServerSendsWhatIsWanted FramesAreOfOneTime
PROPERTIES CallsSettle
CHECK_DEADLOCK FALSE
