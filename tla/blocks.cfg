SPECIFICATION Spec
CONSTANTS
  Sizes = {s1, s2}
  Nums = {1, 2}
  Names = {n1, n2, n3}
  FirstBlocks = 1
  Pools = {TRUE, FALSE}
  mMaxDequeuedBufferNum = 3
  Fates = {"frame", "error", "late"}
  Budgets <- MCBudgets
SYMMETRY Symmetry
INVARIANTS
  TypeOK
  PendingBlocksOwned
  DecoderWritesItsBlocks
  DecoderSupplied
CHECK_DEADLOCK FALSE
