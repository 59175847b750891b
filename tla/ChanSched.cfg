SPECIFICATION Spec
CONSTANTS
  main = main
  g1 = g1
  g2 = g2
  un = un
  bf = bf
  None = None
  Goroutine <- MCGoroutine
  Main = main
  Chan <- MCChan
  Cap <- MCCap
  SelectCases <- MCSelectCases
  MaxOps = 2
SYMMETRY MCSymmetry
INVARIANTS
  TypeOK
  WaitersConsistent
  NoMissedRendezvous
  DeadlockVerdict
PROPERTIES
  ChannelsKeepPromise
