SPECIFICATION Spec
CONSTANTS
  None = None
  Object = {o1, o2, o3}
  Slot = {s1, s2}
  Thread = {t1, t2}
  Shared = {}
SYMMETRY Symmetric
INVARIANTS
  TypeOK
  HeapClosed
  RootsMatch
PROPERTIES
  SweepIsExact
