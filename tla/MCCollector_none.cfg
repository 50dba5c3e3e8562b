CONSTANTS
  c1 = c1
  c2 = c2
  none = none
  Ident <- MCIdent
  IdNone = none
  MaxTotal = 3
  Orphans = FALSE
SYMMETRY MCSymmetry
SPECIFICATION Spec
INVARIANTS
  CheckedinAtRest
CHECK_DEADLOCK FALSE
