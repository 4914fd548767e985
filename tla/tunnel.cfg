SPECIFICATION FairSpec
CONSTANTS
  NumWorks = 3
  DefaultNum = 2
  Sessions <- MCSessions
INVARIANTS
  TypeOK
  BuffersAccounted
PROPERTIES
  FramesComeBack
CHECK_DEADLOCK FALSE
