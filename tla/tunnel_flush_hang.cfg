SPECIFICATION FairSpec
CONSTANTS
  NumWorks = 3
  DefaultNum = 2
  Sessions <- MCFlushAfterChange
PROPERTIES
  FlushEnds
CHECK_DEADLOCK FALSE
