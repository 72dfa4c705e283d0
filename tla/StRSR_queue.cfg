SPECIFICATION LiveSpec
CONSTANTS
  a1 = a1
  a2 = a2
  Accounts = {a1}
  FIX_ONE = 2
  MAX_RATE = 6
  Delays = {2, 4}
  Periods = {1, 2}
  Ratios = {0, 1}
  InitRSR = {0}
  PauseStates = {TRUE, FALSE}
  BasketStates = {TRUE, FALSE}
  MaxRSR = 2
  MaxTime = 4
  MaxEra = 2
  MaxDrafts = 2
INVARIANTS
  QueuesOrdered
PROPERTIES
  OnlyAvailableDraftsLeave
  DraftsGetOut
CHECK_DEADLOCK FALSE
