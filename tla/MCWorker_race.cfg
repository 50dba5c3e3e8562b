CONSTANTS
  parent = parent
  child = child
  main = main
  other = other
  k1 = k1
  k2 = k2
  k3 = k3
  Proc <- OneProcess
  First = parent
  NoProc = NoProc
  Thread <- TwoThreads
  Target <- OneTarget
  Engines <- AllEngines
  Packets = 1
  MaxTime = 1
  MaxThreads = 3
  ForkWhileSending = FALSE
SPECIFICATION WorkerSpec
INVARIANTS
  OneWorker
CHECK_DEADLOCK FALSE
