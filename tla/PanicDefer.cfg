SPECIFICATION Spec
CONSTANTS
  None = None
  Goroutine = {main, g1, g2}
  Main = main
  MaxDepth = 4
  MaxLive = 4
  MaxDefers = 2
SYMMETRY Symmetric
INVARIANTS
  ChainsConsistent
  DeferRunsInItsFunction
PROPERTIES
  RecoverIsLocal
