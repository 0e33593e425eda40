SPECIFICATION FairSpec
CONSTANTS
  Main = main
  Callers = {c1, c2}
  CacheTasks = {}
  TokenTasks = {token}
  NoTask = NoTask
  NoToken = NoToken
  NoVault = NoVault
  item = item
  other = other
  ApiKey = TRUE
  MaxRetries = 2
  MinRefresh = 1
  TokenLife = 1
  Margin = 0
  MaxEdits = 0
  MaxRotations = 1
  MaxFaults = 1
  Wanted <- WantedItem
  Contents <- MCContents
PROPERTIES
  FetchReturns
  TokenRenewed
