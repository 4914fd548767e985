SPECIFICATION Spec
CONSTANTS
  NumWorks = 3
  EosWorks = {3}
  CsdWorks = {1}
  NoBufferWorks = {1}
  HalOutcomes = {"picture", "errorFrame"}
  PictureBeforeInput = FALSE
  StartOutcomes = {"success", "initFailed", "noProfile"}
  SerialClient = TRUE
  MaxErrorFrames = 3
  MaxCalls <- MCCalls21100
INVARIANTS
  TypeOK
  NoWorkLost
PROPERTIES
  ImplementsContract
CHECK_DEADLOCK FALSE
