\* Ingestion: Same
CONSTANTS
  v1 = v1
  v2 = v2
  k1 = k1
  k2 = k2
  Null = Null
  Requests = {1, 2, 3}
  Values = {v1}
  Rules = {k1}
  Scores = {40, 80}
  Stored = {}
  Kind <- OneValueKind
  Items <- OneValueItems
  Metric <- OneRule
  Threshold <- OneThreshold
SPECIFICATION Spec
INVARIANTS
  TypeOK
  SightingsAreAudited
  ExplainedUnlessLost
  EveryImportIsEvaluated
