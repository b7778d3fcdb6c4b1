SPECIFICATION Spec
CONSTANTS
  Records <- TwoKinds
  Versions = 2
  Syncs = {s1, s2, s3}
  Settings <- AllSettings
SYMMETRY SyncSymmetry
CHECK_DEADLOCK FALSE
INVARIANTS
  TypeOK
  RunIsTrue
  UpToCursor
