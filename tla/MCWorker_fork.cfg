CONSTANTS
  parent = parent
  child = child
  main = main
  other = other
  k1 = k1
  k2 = k2
  k3 = k3
  Proc <- ParentAndChild
  First = parent
  NoProc = NoProc
  Thread <- MainOnly
  Target <- OneTarget
  Engines <- AllEngines
  Packets = 2
  MaxTime = 2
  MaxThreads = 2
  ForkWhileSending = TRUE
SPECIFICATION FairWorkerSpec
PROPERTIES
  Reported
CHECK_DEADLOCK FALSE
