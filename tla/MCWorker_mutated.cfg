CONSTANTS
  parent = parent
  child = child
  main = main
  other = other
  k1 = k1
  k2 = k2
  k3 = k3
  Proc <- OneProcess
  First = parent
  NoProc = NoProc
  Thread <- MainOnly
  Target <- ThreeTargets
  Engines <- AllEngines
  Packets = 2
  MaxTime = 2
  MaxThreads = 2
  ForkWhileSending = FALSE
SPECIFICATION WorkerSpec
INVARIANTS
  WorkerSurvives
CHECK_DEADLOCK FALSE
