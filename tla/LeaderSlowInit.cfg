SPECIFICATION Spec
CONSTANTS
  Replicas = {r1, r2}
  NoHolder = NoHolder
  LeaseTTL = 3
  RenewInterval = 1
  MaxLatency = 0
  MaxInit = 4
  MaxDrain = 0
  MaxErrors = 0
  MaxStops = 0
SYMMETRY ReplicaSymmetry
INVARIANTS
  AtMostOneActive
