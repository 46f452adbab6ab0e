CONSTANTS
  Requests = {q1, q2}
  Access = {a1, a2}
  Refresh = {r1, r2, r3}
  NoToken = NoToken
  Second = 2
  AccessLife = 1
  RefreshLife = 2
SPECIFICATION Spec
INVARIANT RefreshIsOnce
SYMMETRY Symmetry
