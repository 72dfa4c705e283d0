------------------------------- MODULE Basket --------------------------------
(***************************************************************************)
(* The basket and what it is made of: the contracts p1/AssetRegistry.sol,  *)
(* p1/BasketHandler.sol and the collateral plugins.                        *)
(*                                                                         *)
(* Governance configures a prime basket, in target units per token, and    *)
(* for each target unit a list of backup tokens.  refreshBasket() computes *)
(* from these, and from the statuses of the plugins that are registered at *)
(* that moment, the reference basket, which the RToken is backed by.       *)
(*                                                                         *)
(* A basket is a function from tokens to reference amounts; the order of   *)
(* its array matters to nobody.  The prices that make a plugin SOUND, IFFY *)
(* or DISABLED are an input of every refresh.  refPerTok() is positive.    *)
(***************************************************************************)
EXTENDS FixedPoint, Collateral, Sequences, FiniteSets, Functions

CONSTANTS
  Tokens,             \* ERC20s, none of them a token of the system
  Targets,            \* target units
  Plugins,            \* assets and collateral
  None,               \* no plugin, no target
  Collaterals,        \* the plugins that are collateral
  erc20,              \* erc20[p]: the token of plugin p
  targetName,         \* targetName[p], targetPerRef[p] (D18) and
  targetPerRef,       \* delayUntilDefault[p] of the collateral plugins
  delayUntilDefault,
  FIX_ONE,            \* the D18 number 1
  InitAssets,         \* plugins that init() registers
  Listings,           \* plugins that governance registers, swaps or unregisters
  PrimeBaskets,       \* prime baskets that governance may set: D18 target
                      \* amounts per token, 0 for tokens that are not in it
  BackupConfigs,      \* backups that governance may set: [max, erc20s]
  Feeds,              \* what the price feeds may say of the plugins
  PauseStates,        \* values of main.pausedOrFrozen()
  MaxNonce,           \* bound: nonce
  MaxTime             \* bound: block.timestamp

ASSUME PluginAssumption ==
  /\ IsFiniteSet(Tokens) /\ None \notin Plugins \cup Targets
  /\ Collaterals \subseteq Plugins /\ InitAssets \cup Listings \subseteq Plugins
  /\ erc20 \in [Plugins -> Tokens]
  /\ targetName \in [Plugins -> Targets]
  /\ targetPerRef \in [Plugins -> Nat \ {0}]
  /\ delayUntilDefault \in [Plugins -> Nat \ {0}]
  /\ \A p, q \in InitAssets : erc20[p] = erc20[q] => p = q
ASSUME ConfigAssumption ==
  /\ FIX_ONE \in Nat \ {0}
  /\ PrimeBaskets \subseteq [Tokens -> Nat]
  /\ \A amts \in PrimeBaskets : \E t \in Tokens : amts[t] > 0
  /\ BackupConfigs \subseteq [max : Nat, erc20s : Seq(Tokens)]
  /\ Feeds \subseteq [Plugins -> Statuses] /\ PauseStates \subseteq BOOLEAN
ASSUME TimeAssumption ==
  /\ MaxTime \in Nat /\ MaxNonce \in Nat /\ NEVER \in Nat
  /\ \A p \in Plugins : MaxTime + delayUntilDefault[p] < NEVER

VARIABLES
  assets,          \* AssetRegistry: assets[t], None if t is not registered
  whenDefault,     \* of each plugin
  targetAmts, targetNames, backups,     \* config
  refAmts,         \* basket: 0 for the tokens that are not in it
  nonce, timestamp, disabled,
  pausedOrFrozen,  \* main.pausedOrFrozen()
  now,             \* block.timestamp
  builtWith        \* history: the plugins the basket was computed with

config == <<targetAmts, targetNames, backups>>
basket == <<refAmts, nonce, timestamp, builtWith>>
vars == <<assets, whenDefault, config, basket, disabled, pausedOrFrozen, now>>

InBasket == {t \in Tokens : refAmts[t] > 0}

-----------------------------------------------------------------------------
(* Views *)

\* toColl() does not revert.
IsColl(t) == assets[t] \in Collaterals

\* goodCollateral(), with the plugins' defaults as in whens.
Good(target, t, whens) ==
  /\ IsColl(t) /\ targetName[assets[t]] = target
  /\ StatusAt(whens[assets[t]], now) # "DISABLED"

\* status() of the handler, once its tokens have a plugin each.
StatusDefined == disabled \/ InBasket = {} \/ \A t \in InBasket : IsColl(t)
StatusWith(whens) ==
  LET statuses == {StatusAt(whens[assets[t]], now) : t \in InBasket}
  IN  CASE disabled \/ InBasket = {} \/ "DISABLED" \in statuses -> "DISABLED"
        [] OTHER -> IF "IFFY" \in statuses THEN "IFFY" ELSE "SOUND"
Status == StatusWith(whenDefault)

\* quantity(t) > 0
HasQuantity(t) ==
  /\ refAmts[t] > 0 /\ IsColl(t)
  /\ StatusAt(whenDefault[assets[t]], now) # "DISABLED"

-----------------------------------------------------------------------------
(* Initial state: init() of both contracts *)

Init ==
  /\ assets = [t \in Tokens |->
       IF \E p \in InitAssets : erc20[p] = t
       THEN CHOOSE p \in InitAssets : erc20[p] = t ELSE None]
  /\ whenDefault = [p \in Plugins |-> NEVER]
  /\ targetAmts = [t \in Tokens |-> 0] /\ targetNames = [t \in Tokens |-> None]
  /\ backups = [target \in Targets |-> [max |-> 0, erc20s |-> <<>>]]
  /\ refAmts = [t \in Tokens |-> 0] /\ builtWith = [t \in Tokens |-> None]
  /\ nonce = 0 /\ timestamp = 0 /\ disabled = TRUE
  /\ pausedOrFrozen \in PauseStates /\ now = 0

-----------------------------------------------------------------------------
(* Plugins *)

\* refresh() of the registered collateral, as the feeds are.
Refreshed(feed) ==
  [p \in Plugins |->
     IF p \in Collaterals /\ \E t \in Tokens : assets[t] = p
     THEN Marked(whenDefault[p], feed[p], delayUntilDefault[p], now)
     ELSE whenDefault[p]]

\* AssetRegistry.refresh(), which anyone may call.
Refresh(feed) ==
  /\ whenDefault' = Refreshed(feed)
  /\ UNCHANGED <<assets, config, basket, disabled, pausedOrFrozen, now>>

\* refresh() of one plugin, registered or not, which anyone may call.
RefreshPlugin(p, mark) ==
  /\ p \in Collaterals
  /\ whenDefault' = [whenDefault EXCEPT
                       ![p] = Marked(@, mark, delayUntilDefault[p], now)]
  /\ UNCHANGED <<assets, config, basket, disabled, pausedOrFrozen, now>>

-----------------------------------------------------------------------------
(* Registry: governance *)

\* register()
Register(p) ==
  /\ assets[erc20[p]] \in {None, p}
  /\ assets' = [assets EXCEPT ![erc20[p]] = p]
  /\ UNCHANGED <<whenDefault, config, basket, disabled, pausedOrFrozen, now>>

\* Mutation: the basket handler is not told.
DisablesNever(t) == disabled

\* disableBasket(), called if the basket had a quantity of the token before.
DisablesWith(t) == disabled \/ HasQuantity(t)

\* swapRegistered()
SwapRegistered(p) ==
  /\ assets[erc20[p]] # None
  /\ assets' = [assets EXCEPT ![erc20[p]] = p]
  /\ disabled' = DisablesWith(erc20[p])
  /\ UNCHANGED <<whenDefault, config, basket, pausedOrFrozen, now>>

\* unregister()
Unregister(p) ==
  /\ assets[erc20[p]] = p
  /\ assets' = [assets EXCEPT ![erc20[p]] = None]
  /\ disabled' = DisablesWith(erc20[p])
  /\ UNCHANGED <<whenDefault, config, basket, pausedOrFrozen, now>>

-----------------------------------------------------------------------------
(* Configuration: governance *)

\* setPrimeBasket(): remembers the target names of this moment.
SetPrimeBasket(amts) ==
  /\ \A t \in Tokens : amts[t] > 0 => IsColl(t)
  /\ targetAmts' = amts
  /\ targetNames' = [t \in Tokens |->
                       IF amts[t] > 0 THEN targetName[assets[t]] ELSE None]
  /\ UNCHANGED <<assets, whenDefault, backups, basket, disabled,
                 pausedOrFrozen, now>>

\* setBackupConfig()
SetBackupConfig(target, conf) ==
  /\ \A i \in DOMAIN conf.erc20s : IsColl(conf.erc20s[i])
  /\ backups' = [backups EXCEPT ![target] = conf]
  /\ UNCHANGED <<assets, whenDefault, targetAmts, targetNames, basket,
                 disabled, pausedOrFrozen, now>>

-----------------------------------------------------------------------------
(* _switchBasket() *)

Prime(target) == {t \in Tokens : targetNames[t] = target}

WeightOf(tokens) == SumFunction([t \in tokens |-> targetAmts[t]])

\* Prime collateral that backups must stand in for, and unsoundPrimeWt(target).
Unsound(target, whens) == {t \in Prime(target) : ~Good(target, t, whens)}
Needed(target, whens) == WeightOf(Unsound(target, whens))

\* backups(target): the first good ones, at most max of them.
BackupsFor(target, whens) ==
  LET listed == backups[target].erc20s
      good == {i \in DOMAIN listed : Good(target, listed[i], whens)}
  IN  {listed[i] : i \in {i \in good : Cardinality(good \cap 1..i) <= backups[target].max}}

\* Mutation: what is needed is divided among as many backups as there may be.
BackupRefToMax(target, t, whens) ==
  IF t \notin BackupsFor(target, whens) THEN 0
  ELSE CeilDiv(Needed(target, whens) * FIX_ONE,
               targetPerRef[assets[t]] * backups[target].max)

\* Reference amounts that a token gets as prime and as backup collateral.
PrimeRef(t, whens) ==
  IF targetAmts[t] > 0 /\ Good(targetNames[t], t, whens)
  THEN CeilDiv(targetAmts[t] * FIX_ONE, targetPerRef[assets[t]]) ELSE 0
BackupRef(target, t, whens) ==
  IF t \notin BackupsFor(target, whens) THEN 0
  ELSE CeilDiv(Needed(target, whens) * FIX_ONE,
               targetPerRef[assets[t]] * Cardinality(BackupsFor(target, whens)))

\* A good token has one target unit, and so is a backup for that one only.
NewRefAmts(whens) ==
  [t \in Tokens |->
     LET target == targetName[assets[t]]
     IN  IF ~IsColl(t) THEN 0
         ELSE PrimeRef(t, whens)
                + (IF Unsound(target, whens) = {} THEN 0
                   ELSE BackupRef(target, t, whens))]

\* Mutation: an empty basket is not noticed.
NoBasketIfUnbacked(whens) ==
  \E target \in Targets :
    Unsound(target, whens) # {} /\ BackupsFor(target, whens) = {}

\* No backup is left for a target, or the new basket is empty, which with
\* backups for all that is unsound means that no prime basket is set.
NoBasket(whens) ==
  \/ \E target \in Targets :
       Unsound(target, whens) # {} /\ BackupsFor(target, whens) = {}
  \/ \A target \in Targets : Prime(target) = {}

\* The basket stays as it is when there is no new one.  The last loop then
\* reads it up to the length of the new one all the same: if it is shorter,
\* the call reverts.
SwitchBasket(whens) ==
  LET new == NewRefAmts(whens)
      length == Cardinality({t \in Tokens : new[t] > 0})
      none == NoBasket(whens)
  IN  \/ /\ none /\ length <= Cardinality(InBasket)
         /\ disabled' = TRUE
         /\ UNCHANGED basket
      \/ /\ ~none
         /\ disabled' = FALSE
         /\ nonce < MaxNonce /\ nonce' = nonce + 1
         /\ timestamp' = now
         /\ refAmts' = new
         /\ builtWith' = [t \in Tokens |-> IF new[t] > 0 THEN assets[t] ELSE None]

\* Mutation: only a basket that was disabled explicitly is replaced.
RefreshableIfDisabled(whens) == disabled

\* Anyone may refresh the basket once it is DISABLED.
Refreshable(whens) == StatusDefined /\ StatusWith(whens) = "DISABLED"

\* refreshBasket(): statuses are those after the refresh.
RefreshBasket(byOwner, feed) ==
  LET whens == Refreshed(feed)
  IN  /\ byOwner \/ (~pausedOrFrozen /\ Refreshable(whens))
      /\ UNCHANGED <<assets, config, pausedOrFrozen, now>>
      /\ whenDefault' = whens
      /\ SwitchBasket(whens)

-----------------------------------------------------------------------------

SetPausedOrFrozen(status) ==
  /\ pausedOrFrozen' = status
  /\ UNCHANGED <<assets, whenDefault, config, basket, disabled, now>>

Tick ==
  /\ now < MaxTime /\ now' = now + 1
  /\ UNCHANGED <<assets, whenDefault, config, basket, disabled, pausedOrFrozen>>

Governance ==
  \/ \E p \in Listings : Register(p) \/ SwapRegistered(p) \/ Unregister(p)
  \/ \E amts \in PrimeBaskets : SetPrimeBasket(amts)
  \/ \E target \in Targets, conf \in BackupConfigs : SetBackupConfig(target, conf)

Next ==
  \/ Governance
  \/ \E feed \in Feeds :
       \/ Refresh(feed)
       \/ RefreshBasket(TRUE, feed)
       \/ RefreshBasket(FALSE, feed)
  \/ \E p \in Plugins : \E mark \in {feed[p] : feed \in Feeds} : RefreshPlugin(p, mark)
  \/ \E status \in PauseStates : SetPausedOrFrozen(status)
  \/ Tick

Spec == Init /\ [][Next]_vars

\* Time passes, and someone refreshes a basket that is disabled: anyone may,
\* and FacadeAct tells keepers to.
Fairness ==
  /\ WF_vars(Tick)
  /\ WF_vars(\E feed \in Feeds : RefreshBasket(FALSE, feed))

LiveSpec == Spec /\ Fairness

-----------------------------------------------------------------------------
(* Properties *)

\* Every field keeps its type, no deadline is further off than its delay, and a basket
\* that was built of nothing is never enabled ("if basket.erc20s is empty then disabled
\* == true").
TypeOK ==
  /\ assets \in [Tokens -> Plugins \cup {None}]
  /\ \A p \in Plugins :
       whenDefault[p] = NEVER \/ whenDefault[p] \in 0..now + delayUntilDefault[p]
  /\ targetAmts \in [Tokens -> Nat]
  /\ targetNames \in [Tokens -> Targets \cup {None}]
  /\ backups \in [Targets -> [max : Nat, erc20s : Seq(Tokens)]]
  /\ refAmts \in [Tokens -> Nat] /\ nonce \in 0..MaxNonce
  /\ timestamp \in 0..now /\ now \in 0..MaxTime
  /\ disabled \in BOOLEAN /\ pausedOrFrozen \in BOOLEAN
  /\ builtWith \in [Tokens -> Plugins \cup {None}]
  /\ InBasket = {} => disabled

\* A default is final, and a plugin that stays off defaults when its delay is
\* over, however often it is refreshed in between: until it recovers its
\* deadline may only come nearer.
DefaultsInTime ==
  [][\A p \in Plugins :
       /\ whenDefault[p] <= now => whenDefault'[p] = whenDefault[p]
       /\ whenDefault'[p] <= whenDefault[p] \/ whenDefault'[p] = NEVER]_vars

\* A basket that is not disabled is priced and redeemed by the plugins that it
\* was computed with; those of them that have been replaced had defaulted.
BuiltWithRegistered ==
  ~disabled => \A t \in InBasket :
    \/ assets[t] = builtWith[t]
    \/ StatusAt(whenDefault[builtWith[t]], now) = "DISABLED"

\* "the resulting total target weights should equal the configured target
\* weight": for each target they are no less, and no more than what rounding up
\* adds to each token, once as prime and once as backup collateral.  All tokens
\* of a new basket are good.
WeightsKept ==
  [][nonce' # nonce =>
       /\ \A t \in Tokens :
            refAmts'[t] > 0 =>
              IsColl(t)' /\ StatusAt(whenDefault[assets[t]], now)' # "DISABLED"
       /\ \A target \in Targets :
            LET tokens == {t \in InBasket' : targetName[assets[t]] = target}
                weight == SumFunction(
                            [t \in tokens |-> refAmts'[t] * targetPerRef[assets[t]]])
                slack == SumFunction([t \in tokens |-> 2 * targetPerRef[assets[t]]])
                wanted == WeightOf(Prime(target)) * FIX_ONE
            IN  wanted <= weight /\ weight <= wanted + slack]_vars

\* As long as the configuration allows a basket, a basket that is DISABLED is
\* replaced in the end by one that is not, without governance.
Recovers ==
  <>[](~pausedOrFrozen /\ StatusDefined /\ ~NoBasket(whenDefault)
         /\ nonce < MaxNonce)
    => []<>(StatusDefined /\ Status # "DISABLED")

-----------------------------------------------------------------------------
(* What a comment of the registry says and the code does not do *)

\* AssetRegistry.sol:73 of swapRegistered(): "actions: if asset.erc20() is in
\* basketHandler's basket then basketHandler.disableBasket()".  The basket has
\* no quantity of a token whose collateral has defaulted.
SwapsDisable ==
  [][\A p \in Listings :
       SwapRegistered(p) /\ erc20[p] \in InBasket => disabled']_vars
=============================================================================
