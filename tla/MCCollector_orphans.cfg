CONSTANTS
  c1 = c1
  c2 = c2
  none = none
  Ident <- MCIdent
  IdNone = none
  MaxTotal = 3
  Orphans = TRUE
SYMMETRY MCSymmetry
SPECIFICATION Spec
INVARIANTS
  NeverMissing
  NoHandlerFails
CHECK_DEADLOCK FALSE
