\* Two requests at a time.
CONSTANTS
  Users = {u1, u2}
  Keys = {}
  Slots = {s1, s2}
  Roles = {"admin", "viewer"}
  Nobody = Nobody
SPECIFICATION Spec
INVARIANTS
  AdminRemains
