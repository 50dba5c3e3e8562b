CONSTANTS
  none = none
  None = none
  NonAscii = {}
  Host = {"h"}
  Metrics <- MCMetrics
  Interval = 4
  MinGap = 3
  MaxGap = 4
  MaxDelay = 3
  Counts = {1}
  MaxTotal = 2
  Start = 40
VIEW View
SPECIFICATION StatSpec
INVARIANTS
  StatTypeOK
  TableForgets
PROPERTIES
  RatesAreReal
  SumsForget
  ReportingShown
CHECK_DEADLOCK FALSE
