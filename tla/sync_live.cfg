SPECIFICATION FairSpec
CONSTANTS
  Records <- OneProduct
  Versions = 3
  Syncs = {s1, s2}
  Settings <- Delivery
CHECK_DEADLOCK FALSE
PROPERTIES
  EditsArrive
