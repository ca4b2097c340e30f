CONSTANTS
  HeaderLen = 2
  CannedLen = 2
  MetaLen = 2
  Capacity = 3
  LowWater = 2
  MaxBatch = 3
  MaxSize = 2
  Rewrites = TRUE
SPECIFICATION FairSpec
CHECK_DEADLOCK FALSE
INVARIANTS
  TypeOK
  WireIsResponse
  FinishedIsWhole
  OnlyMissing
  FailuresAreReal
PROPERTIES
  Concluded
