SPECIFICATION EventsSpec
CONSTANTS
  Requests = {q1, q2}
  Aggregates = {a, b}
  MaxEvents = 17
  MaxRules = 3
  Settings <- AllSettings
SYMMETRY RequestSymmetry
CHECK_DEADLOCK FALSE
INVARIANTS
  EventsTypeOK
  CooldownIsKept
  RulesAreSettled
  CascadeIsBounded
