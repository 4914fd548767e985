SPECIFICATION FairSpec
CONSTANTS
  NumWorks = 5
  EosWorks = {4, 5}
  CsdWorks = {}
  Delays = {0, 1, 2}
  MaxPending = 2
  Budgets <- MCBudgets
INVARIANTS
  TypeOK
  PictureOfItsWork
  EosReportedLast
PROPERTIES
  Progress
CHECK_DEADLOCK FALSE
