CONSTANTS
  Attempts = {a1, a2}
  Replicas = {r1, r2}
  MaxAttempts = 2
  Lockout = 2
  MaxFaults = 1
SPECIFICATION Spec
INVARIANTS TypeOK ReplicaStaysLimited FleetStaysLimited CountersExpire
PROPERTY OwnerGetsIn
