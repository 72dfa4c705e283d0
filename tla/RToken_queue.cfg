SPECIFICATION Spec
CONSTANTS
  a1 = a1
  a2 = a2
  t1 = t1
  t2 = t2
  Accounts = {a1, a2}
  Tokens = {t1, t2}
  BasketTokens <- MCBasketTokens
  Quantities = {3}
  FIX_ONE = 3
  BLOCKS_PER_HOUR = 2
  MIN_BLOCK_ISSUANCE_LIMIT = 2
  MIN_BU_RATE = 1
  MAX_BU_RATE = 4
  IssuanceRates = {3}
  RateFloors = {0}
  ScalingRates = {0}
  Modes = {"running"}
  BasketStatuses = {"SOUND"}
  IssueAmounts = {1, 2}
  RedeemAmounts = {}
  MintAmounts = {}
  Melts = {0}
  TradedBalances = {}
  WindowStarts = {1}
  MaxSupply = 3
  MaxRewards = 0
  MaxBalance = 6
  MaxQueue = 2
  MaxNonce = 2
  MaxBlock = 3
  MaxWhen = 9
SYMMETRY AccountSymmetry
INVARIANTS
  TypeOK
  LiabilitiesExact
  IssuanceThrottled
PROPERTIES
  ImplementsTickets
CHECK_DEADLOCK FALSE
