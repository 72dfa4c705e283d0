-------------------------------- MODULE Auth ---------------------------------
(***************************************************************************)
(* Roles, freezing and pausing, contracts/mixins/Auth.sol, which Main is   *)
(* and every other component asks paused(), frozen() and pausedOrFrozen(). *)
(*                                                                         *)
(* A freeze ends by itself: a short freezer can start one once, a long     *)
(* freezer until its charges are used up.  The owner hands out the roles,  *)
(* ends a freeze and can make one last for ever.  Roles are kept by        *)
(* OpenZeppelin's AccessControl; OWNER is the admin of all of them.        *)
(***************************************************************************)
EXTENDS Integers, FiniteSets, Functions

CONSTANTS
  Accounts,             \* addresses other than 0
  LONG_FREEZE_CHARGES,  \* 6 in the code
  MAX_UNFREEZE_AT,      \* type(uint48).max
  MAX_SHORT_FREEZE,     \* a month
  MAX_LONG_FREEZE,      \* a year
  ShortFreezes,         \* values the owner gives to shortFreeze
  LongFreezes,          \* and to longFreeze
  MaxTime               \* bound: block.timestamp

ASSUME AccountAssumption == IsFiniteSet(Accounts)
ASSUME TimeAssumption ==
  /\ MaxTime \in Nat
  /\ MAX_SHORT_FREEZE \in Nat /\ MAX_LONG_FREEZE \in Nat
  /\ MAX_SHORT_FREEZE <= MAX_LONG_FREEZE
  /\ MAX_UNFREEZE_AT \in Nat /\ MaxTime + MAX_LONG_FREEZE < MAX_UNFREEZE_AT
ASSUME ParamAssumption ==
  /\ LONG_FREEZE_CHARGES \in Nat \ {0}
  /\ ShortFreezes \subseteq 1..MAX_SHORT_FREEZE
  /\ LongFreezes \subseteq 1..MAX_LONG_FREEZE

Roles == {"OWNER", "SHORT_FREEZER", "LONG_FREEZER", "PAUSER"}

VARIABLES
  roles,        \* roles[r]: the accounts that have role r
  longFreezes, unfreezeAt, shortFreeze, longFreeze, paused,
  now           \* block.timestamp

freezeVars == <<longFreezes, unfreezeAt>>
params == <<shortFreeze, longFreeze>>
vars == <<roles, freezeVars, params, paused, now>>

Has(role, account) == account \in roles[role]
Frozen == now < unfreezeAt

-----------------------------------------------------------------------------

\* __Auth_init(): whoever creates Main has all roles.
Init ==
  /\ \E sender \in Accounts :
       /\ roles = [role \in Roles |-> {sender}]
       /\ longFreezes = [a \in Accounts |->
                           IF a = sender THEN LONG_FREEZE_CHARGES ELSE 0]
  /\ shortFreeze \in ShortFreezes /\ longFreeze \in LongFreezes
  /\ unfreezeAt = 0 /\ paused = FALSE /\ now = 0

-----------------------------------------------------------------------------
(* Roles *)

\* Mutation: charges are added to the ones that are left.
GrantRoleAddingCharges(sender, role, account) ==
  /\ Has("OWNER", sender)
  /\ roles' = [roles EXCEPT ![role] = @ \cup {account}]
  /\ longFreezes' =
       IF role = "LONG_FREEZER"
       THEN [longFreezes EXCEPT ![account] = @ + LONG_FREEZE_CHARGES]
       ELSE longFreezes
  /\ UNCHANGED <<unfreezeAt, params, paused, now>>

\* grantRole(): a long freezer is recharged, also one that has the role.
GrantRole(sender, role, account) ==
  /\ Has("OWNER", sender)
  /\ roles' = [roles EXCEPT ![role] = @ \cup {account}]
  /\ longFreezes' =
       IF role = "LONG_FREEZER"
       THEN [longFreezes EXCEPT ![account] = LONG_FREEZE_CHARGES]
       ELSE longFreezes
  /\ UNCHANGED <<unfreezeAt, params, paused, now>>

\* revokeRole() and renounceRole() leave the charges as they are.
RevokeRole(sender, role, account) ==
  /\ Has("OWNER", sender) \/ sender = account
  /\ roles' = [roles EXCEPT ![role] = @ \ {account}]
  /\ UNCHANGED <<freezeVars, params, paused, now>>

-----------------------------------------------------------------------------
(* Freezing *)

\* freezeUntil()
FreezeUntil(newUnfreezeAt) ==
  newUnfreezeAt > unfreezeAt /\ unfreezeAt' = newUnfreezeAt

\* Mutation: the role survives its use.
FreezeShortKeepingRole(sender) ==
  /\ Has("SHORT_FREEZER", sender)
  /\ FreezeUntil(now + shortFreeze)
  /\ UNCHANGED <<roles, longFreezes, params, paused, now>>

\* freezeShort()
FreezeShort(sender) ==
  /\ Has("SHORT_FREEZER", sender)
  /\ roles' = [roles EXCEPT !["SHORT_FREEZER"] = @ \ {sender}]
  /\ FreezeUntil(now + shortFreeze)
  /\ UNCHANGED <<longFreezes, params, paused, now>>

\* Mutation: the role is revoked one charge late.
LastChargeUnnoticed(charges) == charges < 0

LastCharge(charges) == charges = 0

\* Mutation: a long freeze is added to the freeze there is.
LongFreezeEndStacked == longFreeze + (IF Frozen THEN unfreezeAt ELSE now)

LongFreezeEnd == now + longFreeze

\* freezeLong()
FreezeLong(sender) ==
  /\ Has("LONG_FREEZER", sender) /\ longFreezes[sender] > 0
  /\ longFreezes' = [longFreezes EXCEPT ![sender] = @ - 1]
  /\ roles' = IF LastCharge(longFreezes[sender] - 1)
              THEN [roles EXCEPT !["LONG_FREEZER"] = @ \ {sender}] ELSE roles
  /\ FreezeUntil(LongFreezeEnd)
  /\ UNCHANGED <<params, paused, now>>

\* freezeForever()
FreezeForever(sender) ==
  /\ Has("OWNER", sender) /\ FreezeUntil(MAX_UNFREEZE_AT)
  /\ UNCHANGED <<roles, longFreezes, params, paused, now>>

\* unfreeze()
Unfreeze(sender) ==
  /\ Has("OWNER", sender) /\ unfreezeAt' = now
  /\ UNCHANGED <<roles, longFreezes, params, paused, now>>

-----------------------------------------------------------------------------
(* Pausing and parameters *)

\* pause() and unpause()
SetPaused(sender, status) ==
  /\ Has("PAUSER", sender) /\ paused' = status
  /\ UNCHANGED <<roles, freezeVars, params, now>>

SetShortFreeze(sender, duration) ==
  /\ Has("OWNER", sender) /\ shortFreeze' = duration
  /\ UNCHANGED <<roles, freezeVars, longFreeze, paused, now>>

SetLongFreeze(sender, duration) ==
  /\ Has("OWNER", sender) /\ longFreeze' = duration
  /\ UNCHANGED <<roles, freezeVars, shortFreeze, paused, now>>

Tick ==
  /\ now < MaxTime /\ now' = now + 1
  /\ UNCHANGED <<roles, freezeVars, params, paused>>

Next ==
  \/ \E sender, account \in Accounts, role \in Roles :
       GrantRole(sender, role, account) \/ RevokeRole(sender, role, account)
  \/ \E sender \in Accounts :
       \/ FreezeShort(sender)
       \/ FreezeLong(sender)
       \/ FreezeForever(sender)
       \/ Unfreeze(sender)
       \/ \E status \in BOOLEAN : SetPaused(sender, status)
       \/ \E duration \in ShortFreezes : SetShortFreeze(sender, duration)
       \/ \E duration \in LongFreezes : SetLongFreeze(sender, duration)
  \/ Tick

Spec == Init /\ [][Next]_vars

\* Blocks are mined; nobody has to call anything.
LiveSpec == Spec /\ WF_vars(Tick)

-----------------------------------------------------------------------------
(* Properties *)

\* "0 <= longFreeze[a] <= LONG_FREEZE_CHARGES for all addrs a", and the types.
TypeOK ==
  /\ roles \in [Roles -> SUBSET Accounts]
  /\ longFreezes \in [Accounts -> 0..LONG_FREEZE_CHARGES]
  /\ unfreezeAt \in 0..MAX_UNFREEZE_AT
  /\ shortFreeze \in ShortFreezes /\ longFreeze \in LongFreezes
  /\ paused \in BOOLEAN /\ now \in 0..MaxTime

\* Whoever has the role LONG_FREEZER has a charge to use: the subtraction in
\* freezeLong() never underflows.  (The converse fails for a revoked role.)
LongFreezersCharged == \A a \in roles["LONG_FREEZER"] : longFreezes[a] > 0

\* Freezes of several freezers may follow or extend each other, but they are
\* never added up: unless the owner froze the system for ever, whatever freeze
\* there is ends within the longest one that governance may allow.
FreezeBounded ==
  unfreezeAt = MAX_UNFREEZE_AT \/ unfreezeAt <= now + MAX_LONG_FREEZE

\* Long freezes that a may still begin.
Charges(a) == IF Has("LONG_FREEZER", a) THEN longFreezes[a] ELSE 0

\* How long the system could still be kept frozen without the owner.
FreezeBudget ==
  (IF Frozen THEN unfreezeAt - now ELSE 0)
    + shortFreeze * Cardinality(roles["SHORT_FREEZER"])
    + longFreeze * SumFunction([a \in Accounts |-> Charges(a)])

\* "Typically freezing thaws on its own": only the owner, by granting a role,
\* recharging a long freezer, changing a duration or freezing for ever, can
\* lengthen the time that all freezers together can keep the system frozen.
FreezesRunOut ==
  [][(/\ \A role \in Roles : roles'[role] \subseteq roles[role]
      /\ \A a \in Accounts : longFreezes'[a] <= longFreezes[a]
      /\ UNCHANGED params /\ unfreezeAt' # MAX_UNFREEZE_AT)
     => FreezeBudget' <= FreezeBudget]_vars

\* A system whose owner is gone thaws, whatever the freezers that are left do.
AbandonedThaws ==
  (/\ roles["OWNER"] = {} /\ unfreezeAt # MAX_UNFREEZE_AT
   /\ now + FreezeBudget <= MaxTime) ~> ~Frozen
=============================================================================
