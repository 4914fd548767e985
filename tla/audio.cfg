SPECIFICATION FairSpec
CONSTANTS
  NumWorks = 3
  EosWorks = {3}
  CsdWorks = {1}
  Decoders = {"AAC", "EAC3", "AC4", "DTS", "DTSX", "FFMPEG"}
  DrainModes = {"noEos"}
  FrameCounts = {0, 2}
  OutputDelay = 1
  RingFrames = 3
  MaxCalls <- MCCalls
INVARIANTS
  TypeOK
  InfosMatchPending
  EosReportedLast
  OnlyUsesWhatIsThere
PROPERTIES
  Progress
CHECK_DEADLOCK FALSE
