SPECIFICATION Spec
CONSTANTS
  Main = main
  Callers = {c1}
  CacheTasks = {cache}
  TokenTasks = {}
  NoTask = NoTask
  NoToken = NoToken
  NoVault = NoVault
  item = item
  other = other
  ApiKey = FALSE
  MaxRetries = 2
  MinRefresh = 1
  TokenLife = 2
  Margin = 1
  MaxEdits = 1
  MaxRotations = 0
  MaxFaults = 0
  Wanted <- WantedItem
  Contents <- MCContents
INVARIANTS
  RetryNotOlderThanCall
