SPECIFICATION HSpec
CONSTANTS
  Paths <- MCPaths
  Cost <- PathCost
  UnitsPerCent = 2
  LLONG_MIN <- MCMin
  LLONG_MAX = 50
  NoPath = NoPath
  Thrown = Thrown
INVARIANTS TypeOK MinIsLeastKey BucketsWellFormed
PROPERTIES ServesInOrder LazyBecomesReady
