CONSTANTS
  c1 = c1
  c2 = c2
  Client <- MCClient
  Skew <- MCSkew
  MinGap = 4
  MaxGap = 5
  MaxDelay = 1
  MaxLost = 1
  Sent = {"totals"}
  Start = 40
VIEW View
SPECIFICATION ReceiverSpec
INVARIANTS
  ReceiverTypeOK
  NothingRefused
PROPERTIES
  LiveCounted
  LiveProcessCounted
  PoolsHaveProcesses
  Forgotten
CHECK_DEADLOCK FALSE
