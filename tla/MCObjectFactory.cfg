SPECIFICATION FairSpec
CONSTANTS
  Meter = Meter
  Comparer = Comparer
  numeric = numeric
  other = other
  plain = plain
  sized = sized
  TheComparer = TheComparer
  Threads = {t1, t2}
  Interfaces = {Meter, Comparer}
  Names = {numeric, other}
  Signatures = {plain, sized}
  Keys <- MCKeys
  Classes = {TheComparer}
  Class <- MCClass
  Needs <- MCNeeds
  None = None
INVARIANTS TypeOK SingletonOnce CreateAllServes
PROPERTY CreateReturns
