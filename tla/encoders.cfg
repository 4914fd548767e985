SPECIFICATION Spec
CONSTANTS
  Sizes <- MCSizes
  FrameRates = {30, 60}
  Bitrates = {100, 1000000, 12000000}
  Periods = {0, 500000, 2000000, 2147483647}
  AvcLevels = {"1", "1b", "3"}
  HevcLevels = {"high4", "main2"}
  Quantizations <- MCQuantizations
  Stamps = {0, 40000, 50000}
  MaxCalls <- MCCalls
INVARIANTS
  TypeOK
  LevelCovers
  LibraryAsConfigured
CHECK_DEADLOCK FALSE
