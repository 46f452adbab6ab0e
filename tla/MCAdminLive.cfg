\* Two requests at a time and two keys, which can revoke one another.
CONSTANTS
  Users = {u1}
  Keys = {k1, k2}
  Slots = {s1, s2}
  Roles = {"admin", "viewer"}
  Nobody = Nobody
SPECIFICATION FairSpec
PROPERTIES
  RequestsEnd
