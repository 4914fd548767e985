SPECIFICATION FairSpec
CONSTANTS
  NumWorks = 3
  EmptyWorks = {2}
  SyncWorks = {1}
  MaxCalls <- MCCalls
INVARIANTS
  TypeOK
  EncoderOpenWhileUsed
  SyncRequestHonoured
  CsdComesFirst
PROPERTIES
  Progress
CHECK_DEADLOCK FALSE
