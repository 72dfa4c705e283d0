SPECIFICATION LiveSpec
CONSTANTS
  t1 = t1
  t2 = t2
  t3 = t3
  usd = usd
  eur = eur
  p1 = p1
  p2 = p2
  p3 = p3
  q1 = q1
  None = None
  Tokens = {t1, t2, t3}
  Targets = {usd, eur}
  Plugins = {p1, p2, p3, q1}
  Collaterals = {p1, p2, p3, q1}
  erc20 <- MCErc20
  targetName <- MCTargetName
  targetPerRef <- MCTargetPerRef
  delayUntilDefault <- MCDelay
  FIX_ONE = 2
  NEVER = 9
  InitAssets = {p1, p2, p3}
  Listings = {p1, q1}
  PrimeBaskets <- MCPrimeBaskets
  BackupConfigs <- MCBackupConfigs
  Feeds <- MCFeeds
  PauseStates = {TRUE, FALSE}
  MaxNonce = 2
  MaxTime = 2
INVARIANTS
  TypeOK
  BuiltWithRegistered
PROPERTIES
  DefaultsInTime
  WeightsKept
  Recovers
CHECK_DEADLOCK FALSE
