SPECIFICATION Spec
CONSTANTS
  Main = main
  Callers = {c1, c2}
  CacheTasks = {cache}
  TokenTasks = {token}
  NoTask = NoTask
  NoToken = NoToken
  NoVault = NoVault
  item = item
  other = other
  ApiKey = FALSE
  MaxRetries = 1
  MinRefresh = 1
  TokenLife = 2
  Margin = 0
  MaxEdits = 1
  MaxRotations = 0
  MaxFaults = 1
  Wanted <- WantedBoth
  Contents <- MCContents
SYMMETRY CallerSymmetry
INVARIANTS
  TypeOK
  OnDemandSpaced
  RetrySeesTheCall
PROPERTIES
  ImplementsLimiter
  CacheGoesBackOnlyAcross
