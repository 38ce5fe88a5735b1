SPECIFICATION Spec
CONSTANTS
  t1 = t1
  t2 = t2
  h1 = h1
  h2 = h2
  h3 = h3
  o1 = o1
  o2 = o2
  o3 = o3
  Threads <- MCThreads
  Handles <- MCHandles
  Objects <- MCObjects
  Owner <- MCOwner
  Sizes <- MCSizes
  Routes = {"bare"}
  Null = Null
INVARIANT HeldIsAlive
