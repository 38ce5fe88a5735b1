SPECIFICATION FairSpec
CONSTANTS
  Data <- MCData
  Actions <- MCActions
  ActionList <- MCList
  Problems <- MCProblems
  MaxCost = 200
  LLONG_MIN <- MCMin
  LLONG_MAX = 100000
  Inexecutable = Inexecutable
  NoPath = NoPath
  Thrown = Thrown
  Pending = Pending
  NoPlan = NoPlan
INVARIANTS TypeOK FrontierComplete StatesMatchPlan ShortestPlan
PROPERTIES MakePlanContract Terminates
CHECK_DEADLOCK FALSE
