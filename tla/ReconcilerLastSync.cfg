SPECIFICATION Spec
CONSTANTS
  Controllers = {k1}
  None = None
  MaxGeneration = 2
  MaxVault = 0
  MaxNow = 2
  MaxFaults = 0
  BurstLimit = 6
  ValidSpecs <- MCValidSpecs
PROPERTIES
  LastSyncKept
