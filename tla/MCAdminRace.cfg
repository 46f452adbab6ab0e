\* Two requests at a time.
CONSTANTS
  Users = {u1, u2}
  Keys = {k1}
  Slots = {s1, s2}
  Roles = {"admin", "viewer"}
  Nobody = Nobody
SYMMETRY Symmetry
SPECIFICATION Spec
INVARIANTS
  TypeOK
PROPERTIES
  LastAdminFallsOnlyToOverlap
  LossIsAudited
