SPECIFICATION LiveSpec
CONSTANTS
  a = a
  b = b
  Collaterals = {a, b}
  InitBasket = {a}
  InitBalances <- MCBalances
  InitDistribution <- MCDistribution
  Baskets = {{a}, {a, b}}
  TokenLists <- MCLists
  Distributions <- MCDistributions
  MaxShare = 1
  TradingDelays = {1}
  AuctionLengths = {1}
  BackingBuffers = {0}
  FIX_ONE = 2
  period = 1
  ratio = 2
  PauseStates = {TRUE, FALSE}
  MaxReceipts = 1
  MaxSwitches = 1
  MaxTime = 2
INVARIANTS
  TypeOK
  NothingStrays
PROPERTIES
  BackingKept
  ViolationsStop
  TradesEnd
CHECK_DEADLOCK FALSE
