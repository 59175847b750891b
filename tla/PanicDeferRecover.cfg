SPECIFICATION Spec
CONSTANTS
  None = None
  Goroutine = {main, g1, g2}
  Main = main
  MaxDepth = 3
  MaxLive = 4
  MaxDefers = 1
INVARIANTS
  DeferRecovers
