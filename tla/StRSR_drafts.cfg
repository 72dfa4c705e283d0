SPECIFICATION Spec
CONSTANTS
  a1 = a1
  a2 = a2
  Accounts = {a1, a2}
  FIX_ONE = 4
  MAX_RATE = 12
  Delays = {2}
  Periods = {1}
  Ratios = {2}
  InitRSR = {0}
  PauseStates = {FALSE}
  BasketStates = {TRUE}
  MaxRSR = 4
  MaxTime = 3
  MaxEra = 2
  MaxDrafts = 1
SYMMETRY AccountSymmetry
INVARIANT DraftsAddUp
CHECK_DEADLOCK FALSE
