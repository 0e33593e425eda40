SPECIFICATION Spec
CONSTANTS
  Failed = Failed
  NoString = NoString
  BlockSize = 2
  HalfKey = 1
  NotUtf8 = {99}
  MemoryUnit = 1024
  MemoryWords = 131072
  Unset = Unset
  Invalid = Invalid
  Panics = Panics
  Words = 131072
  NoOrg = NoOrg
  Nothing = Nothing
  Email = "me@home.io"
  Password = "right"
  DefaultSync = 300
  DefaultRefresh = 300
  Derive <- MCDerive
  Salt <- MCSalt
  SaltBytes <- MCSaltBytes
  MinSalt = 8
  Sha256 <- MCSha256
  Stretch <- MCStretch
  LowerCase <- MCLowerCase
  Within <- MCWithin
  SecretFields <- MCSecretFields
  Logins <- MCLogins
  UserKey <- MCUserKey
  PrivateKey <- MCPrivateKey
  Vaults <- MCVaults
  Orders <- MCOrders
  Noises <- MCNoises
  Specs <- MCSpecs
  EnvValues <- MCEnvValues
INVARIANTS
  TypeOK
  UnlockSound
  UnlockComplete
  UnpadExact
  ScopeRespected
  ExactPreferred
  WrongKeyHidden
  BestPartTaken
  EachKeyItsOwnItem
  IntervalPositive
  IntervalAsWritten
PROPERTIES
  ValueStable
