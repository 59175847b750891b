SPECIFICATION Spec
CONSTANTS
  p1 = p1
  p2 = p2
  p3 = p3
  Entry = Entry
  None = None
  Package <- Packages
  File <- Files
  HeaderFor <- Names
CHECK_DEADLOCK FALSE
INVARIANTS
  DependenciesFirst
  EachLoadedOnce
  CycleIsReal
  OutputConsistent
PROPERTIES
  Terminates
