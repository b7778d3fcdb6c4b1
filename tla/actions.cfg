SPECIFICATION Spec
CONSTANTS
  Proposals = {p1, p2}
  Calls = {c1, c2, c3}
  Decisions <- YesOrNo
  Settings <- ThreeSettings
SYMMETRY Symmetry
CHECK_DEADLOCK FALSE
INVARIANTS
  TypeOK
  NothingIsLeft
PROPERTIES
  ImplementsExecuteOnce
  RefusalIsFinal
