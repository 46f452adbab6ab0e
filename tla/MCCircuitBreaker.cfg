\* Three callers, so that late results of old admissions overlap a probe.
CONSTANTS
  Callers = {a, b, c}
  Threshold = 2
  Recovery = 1
  Attempts = 2
SPECIFICATION FairSpec
INVARIANTS
  TypeOK
  FieldsAgree
  ProbeIsOutstanding
PROPERTIES
  HalfOpenEnds
  CollectEnds
  Recovers
