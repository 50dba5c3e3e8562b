CONSTANTS
  c1 = c1
  c2 = c2
  none = none
  Ident <- MCIdent
  IdNone = none
  MaxTotal = 2
  Orphans = FALSE
SYMMETRY MCSymmetry
SPECIFICATION SnapshotSpec
INVARIANTS
  TypeOK
  AccountingInv
  QuiescentExact
  NoWarnings
  Balance
  SnapshotTypeOK
  SnapshotFaithful
CHECK_DEADLOCK FALSE
