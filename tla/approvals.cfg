SPECIFICATION Spec
CONSTANTS
  u1 = u1
  u2 = u2
  N = 3
  Calls = {c1, c2, c3}
  Users = {u1, u2}
  Approvers <- MCApprovers
  Settings <- BothSettings
SYMMETRY CallSymmetry
CHECK_DEADLOCK FALSE
INVARIANTS
  TypeOK
  ApprovedByAll
  NeverStranded
  RowsAreReliable
PROPERTIES
  ImplementsChain
