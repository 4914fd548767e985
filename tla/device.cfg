SPECIFICATION Spec
CONSTANTS
  Platforms <- MCPlatforms
  Batches <- MCBatches
  Streams <- MCStreams
  Budgets <- MCBudgets
INVARIANTS
  TypeOK
  ParametersAgree
  BuffersHold
  InfoReported
CHECK_DEADLOCK FALSE
