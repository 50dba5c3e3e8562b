CONSTANTS
  k1 = k1
  k2 = k2
  v = v
  Keys = {k1, k2}
  Data = {v}
  Times <- MCTimes
  Intervals <- MCIntervals
SYMMETRY MCSymmetry
SPECIFICATION StoreSpec
INVARIANTS
  StoreTypeOK
  LatestReceived
  NothingStale
  GoneOnlyIfStale
