SPECIFICATION Spec
CONSTANTS
  StateIds = {s1, s2}
  ValueIds = {v1, v2, v3, v4}
  Keys = {k1, k2}
  MaxNumber = 2
  Costs <- MCCosts
  Unset = Unset
  Null = Null
SYMMETRY MCSymmetry
INVARIANTS TypeOK HashIsCurrent VisitedFound
PROPERTY ExecuteKeepsOthers
