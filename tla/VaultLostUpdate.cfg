SPECIFICATION FairSpec
CONSTANTS
  Main = main
  Callers = {}
  CacheTasks = {cache}
  TokenTasks = {token}
  NoTask = NoTask
  NoToken = NoToken
  NoVault = NoVault
  item = item
  other = other
  ApiKey = FALSE
  MaxRetries = 2
  MinRefresh = 1
  TokenLife = 2
  Margin = 1
  MaxEdits = 0
  MaxRotations = 1
  MaxFaults = 1
  Wanted <- WantedItem
  Contents <- MCContents
PROPERTIES
  CacheConverges
