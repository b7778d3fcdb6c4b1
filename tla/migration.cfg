SPECIFICATION Spec
CONSTANTS
  Calls = {c1, c2, c3, c4}
  Settings <- AllSettings
SYMMETRY Symmetry
CHECK_DEADLOCK FALSE
INVARIANTS
  TypeOK
  RowsGoTogether
  BackfillReconciles
PROPERTIES
  AlignedStaysReadable
