SPECIFICATION FairSpec
CONSTANTS
  None = None
  Goroutine = {main, g1, g2}
  Main = main
  MaxOps = 2
  MaxNest = 1
  MaxStray = 1
INVARIANTS
  CallsConsistent
  DeadlockIsReal
PROPERTIES
  CallReturns
