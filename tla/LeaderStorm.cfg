SPECIFICATION FairSpec
CONSTANTS
  Replicas = {r1, r2}
  NoHolder = NoHolder
  LeaseTTL = 3
  RenewInterval = 1
  MaxLatency = 1
  MaxInit = 4
  MaxDrain = 2
  MaxErrors = 5
  MaxStops = 1
INVARIANTS
  TypeOK
  OverlapBounded
PROPERTIES
  LeaderEmerges
  ImplementsElection
