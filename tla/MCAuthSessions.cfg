CONSTANTS
  Requests = {q1, q2}
  Access = {a1}
  Refresh = {r1, r2}
  NoToken = NoToken
  Second = 2
  AccessLife = 1
  RefreshLife = 2
SPECIFICATION Spec
INVARIANTS TypeOK EndedIsRefused DisabledIsRefused
SYMMETRY Symmetry
