SPECIFICATION Spec
CONSTANTS
  None = None
  Frame = {main, f1, f2, f3, f4}
  Main = main
  MaxAwaits = 3
INVARIANTS
  OneResumer
  FramesConsistent
