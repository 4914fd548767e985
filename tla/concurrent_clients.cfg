SPECIFICATION Spec
CONSTANTS
  NumWorks = 2
  EosWorks = {2}
  CsdWorks = {}
  NoBufferWorks = {}
  HalOutcomes = {"picture", "twoPictures"}
  PictureBeforeInput = TRUE
  StartOutcomes = {"success"}
  SerialClient = FALSE
  MaxErrorFrames = 3
  MaxCalls <- MCCalls11000
INVARIANTS
  NoSpuriousError
  InputKeptForDecoder
PROPERTIES
  DrainDeliversPictures
CHECK_DEADLOCK FALSE
