SPECIFICATION FairSpec
CONSTANTS
  Main = main
  Callers = {}
  CacheTasks = {cache}
  TokenTasks = {token}
  NoTask = NoTask
  NoToken = NoToken
  NoVault = NoVault
  item = item
  other = other
  ApiKey = TRUE
  MaxRetries = 2
  MinRefresh = 1
  TokenLife = 2
  Margin = 0
  MaxEdits = 1
  MaxRotations = 2
  MaxFaults = 2
  Wanted <- WantedItem
  Contents <- MCContents
INVARIANTS
  KeyFitsToken
PROPERTIES
  CacheConverges
