\* Ingestion: Cross
CONSTANTS
  v1 = v1
  v2 = v2
  k1 = k1
  k2 = k2
  Null = Null
  Requests = {1, 2}
  Values = {v1, v2}
  Rules = {k1, k2}
  Scores = {70}
  Stored = {v1}
  Kind <- CrossKind
  Items <- CrossItems
  Metric <- TwoMetrics
  Threshold <- TwoThresholds
SPECIFICATION FairSpec
INVARIANTS
  PhantomsAreRolledBack
PROPERTIES
  IntakeSpec
  RequestsEnd
