SPECIFICATION Spec
CONSTANTS
  Data <- MCData
  Actions <- MCActions
  ActionList <- MCList
  Problems <- MixedProblems
  MaxCost = 200
  LLONG_MIN <- MCMin
  LLONG_MAX = 100000
  Inexecutable = Inexecutable
  NoPath = NoPath
  Thrown = Thrown
  Pending = Pending
  NoPlan = NoPlan
INVARIANT NoStateAnalysedTwice
CHECK_DEADLOCK FALSE
