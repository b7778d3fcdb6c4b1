SPECIFICATION Spec
CONSTANTS
  p1 = p1
  p2 = p2
  Tasks = {t1, t2}
  People = {p1, p2}
  Nobody = Nobody
  Calls = {c1, c2, c3}
  Settings <- ThreeSettings
SYMMETRY CallSymmetry
CHECK_DEADLOCK FALSE
INVARIANTS
  TypeOK
  CompletedByActions
  CompletedExactly
  AssigneeIsTold
