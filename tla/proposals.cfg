SPECIFICATION Spec
CONSTANTS
  Tasks = {t1, t2, t3}
  Calls = {q1, q2}
  Conditions = {"orders", "product", "revenue", "sync"}
  Loud = {"sync"}
  Versions = {1, 2}
  RecommendationType <- Kind
  RecommendationLimit = 2
  Proposes <- Kind
  Order <- DraftOrder
  MaxDrafts = 1
  MaxRows = 12
  EngineWindow = 3
  RecommendationWindow = 2
  MaxProposals = 4
  Settings <- AllSettings
SYMMETRY Symmetry
CHECK_DEADLOCK FALSE
INVARIANTS
  TypeOK
  InsightsAreSound
  ReviewsAreKept
  ProposalsAreDistinct
