CONSTANTS
  MaxSettles = 2
  MaxHits = 2
  MaxFaults = 1
  MaxPushes = 1
SPECIFICATION FairAccSpec
PROPERTIES HitsAreShown FaultIsLeftStopped AttachResumes HitOpensPrompt
CHECK_DEADLOCK FALSE
