CONSTANTS
  none = none
  None = none
  NonAscii = {}
  Client <- MCClient
  Steady <- MCSteady
  Garbled <- MCGarbled
  Sent = {"sqlalchemy_totals"}
  Interval = 2
  MinGap = 4
  MaxGap = 5
  Start = 40
VIEW View
SPECIFICATION ServerSpec
INVARIANTS
  ServerTypeOK
  IdentitiesUnique
PROPERTIES
  RegularKept
  SumsBetween
CHECK_DEADLOCK FALSE
