CONSTANTS
  SourceTopics = {"a", "b"}
  AliasOf <- MCAliasOf
  Panels = {"p", "q"}
  Choices <- MCChoices
  Pausing = {"p"}
  MaxFrames = 2
  MaxBuilt = 1
  MaxIds = 2
SPECIFICATION FairSpec
INVARIANTS OneStateAtATime PlayerKnowsSubscriptions PanelsAgree
PROPERTIES NeverSetBack FramesEnd
CHECK_DEADLOCK FALSE
