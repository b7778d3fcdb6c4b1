SPECIFICATION Spec
CONSTANTS
  Calls = {c1, c2, c3, c4}
  Drivers = {d1, d2}
  Vehicles = {v1, v2}
  Widths <- OneOrTwo
SYMMETRY CallSymmetry
CHECK_DEADLOCK FALSE
INVARIANTS
  TypeOK
  RaceIsBounded
PROPERTIES
  ImplementsExclusiveUse
