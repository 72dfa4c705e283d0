SPECIFICATION Spec
CONSTANTS
  a1 = a1
  a2 = a2
  t1 = t1
  t2 = t2
  Accounts = {a1}
  Tokens = {t1}
  BasketTokens <- MCOneBasket
  Quantities = {3, 4}
  FIX_ONE = 3
  BLOCKS_PER_HOUR = 2
  MIN_BLOCK_ISSUANCE_LIMIT = 2
  MIN_BU_RATE = 1
  MAX_BU_RATE = 6
  IssuanceRates = {2}
  RateFloors = {2}
  ScalingRates = {0, 2}
  Modes = {"running", "paused"}
  BasketStatuses = {"SOUND", "IFFY"}
  IssueAmounts = {2}
  RedeemAmounts = {1, 2}
  MintAmounts = {1}
  Melts = {0, 1}
  TradedBalances = {1}
  WindowStarts = {3}
  MaxSupply = 3
  MaxBalance = 5
  MaxRewards = 1
  MaxQueue = 1
  MaxNonce = 1
  MaxBlock = 4
  MaxWhen = 6
INVARIANTS
  LiabilitiesExact
  RedemptionThrottled
PROPERTIES
  StaysCollateralized
  FairRedemption
CHECK_DEADLOCK FALSE
