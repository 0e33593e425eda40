SPECIFICATION FairOperatorSpec
CONSTANTS
  Controllers = {k1, k2}
  None = None
  NoHolder = NoHolder
  MaxGeneration = 2
  MaxVault = 0
  MaxNow = 1
  MaxFaults = 1
  BurstLimit = 0
  ValidSpecs = {1, 2}
INVARIANTS
  HandoverSafe
  NeverStranded
PROPERTIES
  SettlesAfterFailover
  HandoverAdvances
