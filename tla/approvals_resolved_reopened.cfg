SPECIFICATION Spec
CONSTANTS
  u1 = u1
  u2 = u2
  N = 2
  Calls = {c1, c2}
  Users = {u1, u2}
  Approvers <- MCApprovers
  Settings <- OverlapOnly
CHECK_DEADLOCK FALSE
PROPERTIES
  ResolvedIsFinal
