SPECIFICATION FairSpec
CONSTANTS
  NumWorks = 1
  EosWorks = {1}
  CsdWorks = {}
  NoBufferWorks = {}
  HalOutcomes = {"picture", "errorFrame", "noOutFrame"}
  PictureBeforeInput = FALSE
  StartOutcomes = {"success", "initFailed"}
  SerialClient = TRUE
  MaxErrorFrames = 3
  MaxCalls <- MCCalls22011
INVARIANTS
  StopReturnsEverything
PROPERTIES
  Progress
CHECK_DEADLOCK FALSE
