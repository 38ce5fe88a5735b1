SPECIFICATION Spec
CONSTANTS
  Data <- MCData
  Actions <- MCActions
  Inexecutable = Inexecutable
  Worlds <- UniformWorlds
  Calls <- MCCalls
  ActionSets <- MCActionSets
  Meets <- MCMeets
  Distance <- MCDistance
  MaxLength = 3
  MaxPlans = 2
INVARIANT AnswerIsValid
