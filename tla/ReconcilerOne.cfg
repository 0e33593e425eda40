SPECIFICATION FairSpec
CONSTANTS
  Controllers = {k1}
  None = None
  MaxGeneration = 3
  MaxVault = 1
  MaxNow = 2
  MaxFaults = 2
  BurstLimit = 6
  ValidSpecs <- MCValidSpecs
INVARIANTS
  TypeOK
  ReadyMeansWritten
  StatusConsistent
  NoHotLoop
  NeverStranded
PROPERTIES
  Converges
  DeletionCompletes
  RestIsKept
  DeletionIsFinal
