SPECIFICATION Spec
CONSTANTS
  Calls = {c1, c2, c3, c4}
  Types <- OneOfEach
  Settings <- ThreeSettings
SYMMETRY CallSymmetry
CHECK_DEADLOCK FALSE
INVARIANTS
  TypeOK
  NoBlindExecution
  RunsAreBounded
  EndIsSettled
