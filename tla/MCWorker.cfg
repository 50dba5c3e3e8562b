CONSTANTS
  parent = parent
  child = child
  main = main
  other = other
  k1 = k1
  k2 = k2
  k3 = k3
  Proc <- ParentAndChild
  First = parent
  NoProc = NoProc
  Thread <- MainOnly
  Target <- TwoTargets
  Engines <- ChildHasItsOwn
  Packets = 1
  MaxTime = 3
  MaxThreads = 2
  ForkWhileSending = FALSE
SPECIFICATION FairWorkerSpec
INVARIANTS
  WorkerTypeOK
  OneWorker
  OwnSocket
PROPERTIES
  OncePerInterval
  Reported
CHECK_DEADLOCK FALSE
