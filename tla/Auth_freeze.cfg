SPECIFICATION LiveSpec
CONSTANTS
  a1 = a1
  a2 = a2
  Accounts = {a1, a2}
  LONG_FREEZE_CHARGES = 2
  MAX_UNFREEZE_AT = 20
  MAX_SHORT_FREEZE = 2
  MAX_LONG_FREEZE = 3
  ShortFreezes = {2}
  LongFreezes = {1, 3}
  MaxTime = 5
INVARIANTS
  TypeOK
  LongFreezersCharged
  FreezeBounded
PROPERTIES
  FreezesRunOut
  AbandonedThaws
CHECK_DEADLOCK FALSE
