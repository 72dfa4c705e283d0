---------------------------- MODULE BasketProofs -----------------------------
(***************************************************************************)
(* Proofs about Basket, for any finite set of tokens, any plugins,         *)
(* configurations and feeds.  Defaults come in time and are final, and a   *)
(* basket that is not disabled uses the plugins it was computed with       *)
(* unless they have defaulted: the second rests on the first, as a plugin  *)
(* may be replaced without disabling the basket only when it has           *)
(* defaulted, and it never recovers.  A new basket has the configured      *)
(* weight for each target, up to one rounding per token and role.          *)
(***************************************************************************)
EXTENDS Basket, ArithmeticProofs

\* The defaults, the registry and the clock keep their types.
DefaultsOK ==
  /\ now \in 0..MaxTime
  /\ whenDefault \in [Plugins -> Nat]
  /\ assets \in [Tokens -> Plugins \cup {None}]
  /\ builtWith \in [Tokens -> Plugins \cup {None}]

\* BuiltWithRegistered, and the basket was computed with collateral.
BuiltOK ==
  ~disabled => \A t \in InBasket :
    /\ builtWith[t] \in Collaterals
    /\ \/ assets[t] = builtWith[t]
       \/ StatusAt(whenDefault[builtWith[t]], now) = "DISABLED"

IInv == DefaultsOK /\ BuiltOK

(***************************************************************************)
(* Defaults                                                                *)
(***************************************************************************)

\* DISABLED is what status() says from whenDefault on.
LEMMA DisabledFrom ==
  ASSUME NEW p \in Plugins, NEW when \in Nat, NEW time \in 0..MaxTime
  PROVE  StatusAt(when, time) = "DISABLED" <=> when <= time
BY TimeAssumption, PluginAssumption DEF StatusAt

\* What markStatus() does to a deadline.
LEMMA MarkedBounds ==
  ASSUME NEW p \in Plugins, NEW when \in Nat, NEW time \in 0..MaxTime,
         NEW mark \in Statuses, NEW delay \in Nat
  PROVE  LET next == Marked(when, mark, delay, time)
         IN  /\ next \in Nat
             /\ when <= time => next = when
             /\ next <= when \/ next = NEVER
<1>1. CASE mark = "SOUND"
  BY <1>1, TimeAssumption DEF Marked
<1>2. CASE mark = "IFFY"
  BY <1>2, TimeAssumption DEF Marked
<1>3. CASE mark = "DISABLED"
  BY <1>3, TimeAssumption DEF Marked
<1> QED
  BY <1>1, <1>2, <1>3 DEF Statuses

\* What a refresh may do to the deadlines of all plugins.
DeadlinesKept ==
  /\ whenDefault' \in [Plugins -> Nat]
  /\ \A p \in Plugins :
       /\ whenDefault[p] <= now => whenDefault'[p] = whenDefault[p]
       /\ whenDefault'[p] <= whenDefault[p] \/ whenDefault'[p] = NEVER

\* A refresh of the registry, alone or within refreshBasket(), does no more.
LEMMA RefreshedKeeps ==
  ASSUME DefaultsOK, NEW feed \in Feeds, whenDefault' = Refreshed(feed)
  PROVE  DeadlinesKept
<1>1. ASSUME NEW p \in Plugins
      PROVE  /\ whenDefault'[p] \in Nat
             /\ whenDefault[p] <= now => whenDefault'[p] = whenDefault[p]
             /\ whenDefault'[p] <= whenDefault[p] \/ whenDefault'[p] = NEVER
  <2>1. /\ whenDefault[p] \in Nat /\ feed[p] \in Statuses
        /\ delayUntilDefault[p] \in Nat
    BY ConfigAssumption, PluginAssumption DEF DefaultsOK
  <2>2. \/ whenDefault'[p] = Marked(whenDefault[p], feed[p], delayUntilDefault[p], now)
        \/ whenDefault'[p] = whenDefault[p]
    BY DEF Refreshed
  <2> QED
    BY <2>1, <2>2, MarkedBounds DEF DefaultsOK
<1>2. whenDefault' \in [Plugins -> Nat]
  BY <1>1 DEF Refreshed
<1> QED
  BY <1>1, <1>2 DEF DeadlinesKept

\* Nor does the refresh of a single plugin.
LEMMA RefreshPluginKeeps ==
  ASSUME DefaultsOK, NEW p \in Plugins, NEW mark \in Statuses,
         RefreshPlugin(p, mark)
  PROVE  DeadlinesKept
<1>1. whenDefault[p] \in Nat /\ delayUntilDefault[p] \in Nat
  BY PluginAssumption DEF DefaultsOK
<1> DEFINE next == Marked(whenDefault[p], mark, delayUntilDefault[p], now)
<1>2. /\ next \in Nat
      /\ whenDefault[p] <= now => next = whenDefault[p]
      /\ next <= whenDefault[p] \/ next = NEVER
  BY <1>1, MarkedBounds DEF DefaultsOK
<1>3. whenDefault' = [whenDefault EXCEPT ![p] = next]
  BY DEF RefreshPlugin
<1> HIDE DEF next
<1>4. whenDefault' \in [Plugins -> Nat]
  BY <1>2, <1>3 DEF DefaultsOK
<1>5. ASSUME NEW q \in Plugins
      PROVE  /\ whenDefault[q] <= now => whenDefault'[q] = whenDefault[q]
             /\ whenDefault'[q] <= whenDefault[q] \/ whenDefault'[q] = NEVER
  BY <1>2, <1>3 DEF DefaultsOK
<1> QED
  BY <1>4, <1>5 DEF DeadlinesKept

\* No other step touches a deadline.
LEMMA NextKeepsDeadlines == DefaultsOK /\ [Next]_vars => DeadlinesKept
<1> SUFFICES ASSUME DefaultsOK, [Next]_vars PROVE DeadlinesKept
  OBVIOUS
<1>1. ASSUME UNCHANGED whenDefault PROVE DeadlinesKept
  BY <1>1 DEF DeadlinesKept, DefaultsOK
<1>2. ASSUME NEW feed \in Feeds,
             \/ Refresh(feed)
             \/ RefreshBasket(TRUE, feed)
             \/ RefreshBasket(FALSE, feed)
      PROVE  DeadlinesKept
  BY <1>2, RefreshedKeeps DEF Refresh, RefreshBasket
<1>3. ASSUME NEW p \in Plugins, NEW feed \in Feeds, RefreshPlugin(p, feed[p])
      PROVE  DeadlinesKept
  BY <1>3, RefreshPluginKeeps, ConfigAssumption
<1>4. ASSUME Governance PROVE UNCHANGED whenDefault
  BY <1>4 DEF Governance, Register, SwapRegistered, Unregister, SetPrimeBasket,
              SetBackupConfig
<1>5. ASSUME NEW status \in PauseStates, SetPausedOrFrozen(status)
      PROVE  UNCHANGED whenDefault
  BY <1>5 DEF SetPausedOrFrozen
<1>6. ASSUME Tick \/ UNCHANGED vars PROVE UNCHANGED whenDefault
  BY <1>6 DEF Tick, vars
<1> QED
  BY <1>1, <1>2, <1>3, <1>4, <1>5, <1>6 DEF Next

(***************************************************************************)
(* The basket                                                              *)
(***************************************************************************)

\* A step that leaves the basket alone and replaces, in the registry, only what
\* has defaulted keeps the invariant: a default is final.
LEMMA BasketStays ==
  ASSUME IInv, DeadlinesKept, UNCHANGED basket,
         now' \in 0..MaxTime, now <= now',
         disabled' \/ \A t \in InBasket :
                        ~disabled /\ (\/ assets'[t] = assets[t]
                                      \/ StatusAt(whenDefault[builtWith[t]], now) = "DISABLED")
  PROVE  BuiltOK'
<1> SUFFICES ASSUME ~disabled', NEW t \in InBasket'
             PROVE  /\ builtWith'[t] \in Collaterals
                    /\ \/ assets'[t] = builtWith'[t]
                       \/ StatusAt(whenDefault'[builtWith'[t]], now') = "DISABLED"
  BY DEF BuiltOK
<1>1. t \in InBasket /\ builtWith' = builtWith
  BY DEF InBasket, basket
<1>2. /\ builtWith[t] \in Collaterals
      /\ \/ assets'[t] = builtWith[t]
         \/ StatusAt(whenDefault[builtWith[t]], now) = "DISABLED"
  BY <1>1 DEF IInv, BuiltOK
<1>3. builtWith[t] \in Plugins
  BY <1>2, PluginAssumption
<1>4. ASSUME StatusAt(whenDefault[builtWith[t]], now) = "DISABLED"
      PROVE  StatusAt(whenDefault'[builtWith[t]], now') = "DISABLED"
  <2> DEFINE old == whenDefault[builtWith[t]]
             new == whenDefault'[builtWith[t]]
  <2>1. old \in Nat /\ new \in Nat /\ now \in 0..MaxTime
    BY <1>3 DEF IInv, DefaultsOK, DeadlinesKept
  <2>2. old <= now
    BY <1>3, <1>4, <2>1, DisabledFrom
  <2>3. new = old
    BY <1>3, <2>2 DEF DeadlinesKept
  <2>4. new <= now'
    BY <2>1, <2>2, <2>3, TimeAssumption
  <2> QED
    BY <1>3, <2>1, <2>4, DisabledFrom
<1> QED
  BY <1>1, <1>2, <1>4

\* A token with collateral that the basket has no quantity of has defaulted: the
\* swap or removal that does not disable the basket replaces such a token only.
LEMMA ReplacesDefaulted ==
  ASSUME IInv, NEW t \in Tokens, NEW p \in Plugins \cup {None},
         assets' = [assets EXCEPT ![t] = p], disabled' = DisablesWith(t)
  PROVE  disabled' \/ \A u \in InBasket :
                        ~disabled /\ (\/ assets'[u] = assets[u]
                                      \/ StatusAt(whenDefault[builtWith[u]], now) = "DISABLED")
<1> SUFFICES ASSUME ~DisablesWith(t), NEW u \in InBasket, assets'[u] # assets[u]
             PROVE  StatusAt(whenDefault[builtWith[u]], now) = "DISABLED"
  BY DEF DisablesWith
<1>1. u = t /\ refAmts[t] > 0
  BY DEF IInv, DefaultsOK, InBasket
<1>2. ~disabled /\ ~HasQuantity(t)
  BY DEF DisablesWith
<1>3. /\ builtWith[t] \in Collaterals
      /\ \/ assets[t] = builtWith[t]
         \/ StatusAt(whenDefault[builtWith[t]], now) = "DISABLED"
  BY <1>1, <1>2 DEF IInv, BuiltOK
<1> QED
  BY <1>1, <1>2, <1>3 DEF HasQuantity, IsColl

\* register() has no token of an enabled basket to replace, but a defaulted one
\* that was unregistered.
LEMMA RegisterKeeps ==
  ASSUME IInv, NEW p \in Plugins, Register(p)
  PROVE  disabled' \/ \A t \in InBasket :
                        ~disabled /\ (\/ assets'[t] = assets[t]
                                      \/ StatusAt(whenDefault[builtWith[t]], now) = "DISABLED")
<1> SUFFICES ASSUME ~disabled, NEW t \in InBasket, assets'[t] # assets[t]
             PROVE  StatusAt(whenDefault[builtWith[t]], now) = "DISABLED"
  BY DEF Register
<1>1. t = erc20[p] /\ assets[t] = None
  BY PluginAssumption DEF IInv, DefaultsOK, InBasket, Register
<1>2. builtWith[t] # None
  BY PluginAssumption DEF IInv, BuiltOK
<1> QED
  BY <1>1, <1>2 DEF IInv, BuiltOK

\* A new basket holds registered collateral only, or it stays and is disabled.
LEMMA SwitchBuilds ==
  ASSUME IInv, NEW whens, SwitchBasket(whens), UNCHANGED assets
  PROVE  BuiltOK' /\ builtWith' \in [Tokens -> Plugins \cup {None}]
<1>1. CASE disabled' /\ UNCHANGED basket
  BY <1>1 DEF BuiltOK, basket, IInv, DefaultsOK
<1> DEFINE new == NewRefAmts(whens)
<1>2. CASE /\ refAmts' = new
           /\ builtWith' = [t \in Tokens |-> IF new[t] > 0 THEN assets[t] ELSE None]
  <2>1. ASSUME NEW t \in Tokens, new[t] > 0
        PROVE  assets[t] \in Collaterals
    BY <2>1 DEF NewRefAmts, IsColl
  <2> HIDE DEF new
  <2>2. \A t \in InBasket' : t \in Tokens /\ new[t] > 0
    BY <1>2 DEF InBasket
  <2>3. BuiltOK'
    BY <1>2, <2>1, <2>2 DEF BuiltOK
  <2>4. builtWith' \in [Tokens -> Plugins \cup {None}]
    BY <1>2 DEF IInv, DefaultsOK
  <2> QED
    BY <2>3, <2>4
<1> QED
  BY <1>1, <1>2 DEF SwitchBasket

\* Both contracts start with a basket that is disabled.
LEMMA InitIInv == Init => IInv
<1> SUFFICES ASSUME Init PROVE IInv
  OBVIOUS
<1>1. ASSUME NEW t \in Tokens
      PROVE  assets[t] \in Plugins \cup {None}
  <2>1. CASE \E p \in InitAssets : erc20[p] = t
    <3>1. assets[t] = CHOOSE p \in InitAssets : erc20[p] = t
      BY <2>1 DEF Init
    <3>2. assets[t] \in InitAssets
      BY <2>1, <3>1
    <3> QED
      BY <3>2, PluginAssumption
  <2>2. CASE ~\E p \in InitAssets : erc20[p] = t
    BY <2>2 DEF Init
  <2> QED
    BY <2>1, <2>2
<1>2. assets \in [Tokens -> Plugins \cup {None}]
  BY <1>1 DEF Init
<1>3. /\ now \in 0..MaxTime
      /\ whenDefault \in [Plugins -> Nat]
      /\ builtWith \in [Tokens -> Plugins \cup {None}]
  BY TimeAssumption DEF Init
<1>4. BuiltOK
  BY DEF Init, BuiltOK
<1> QED
  BY <1>2, <1>3, <1>4 DEF IInv, DefaultsOK

\* Every step keeps it.
LEMMA NextIInv == IInv /\ [Next]_vars => IInv'
<1> SUFFICES ASSUME IInv, [Next]_vars PROVE IInv'
  OBVIOUS
<1>1. DeadlinesKept
  BY NextKeepsDeadlines DEF IInv
<1> DEFINE replaces ==
      disabled' \/ \A t \in InBasket :
                     ~disabled /\ (\/ assets'[t] = assets[t]
                                   \/ StatusAt(whenDefault[builtWith[t]], now) = "DISABLED")
<1>2. ASSUME NEW p \in Listings, Register(p) \/ SwapRegistered(p) \/ Unregister(p)
      PROVE  IInv'
  <2>1. p \in Plugins /\ erc20[p] \in Tokens
    BY PluginAssumption
  <2>2. UNCHANGED basket /\ UNCHANGED now
    BY <1>2 DEF Register, SwapRegistered, Unregister
  <2>3. replaces
    <3>1. CASE Register(p)
      BY <2>1, <3>1, RegisterKeeps
    <3>2. CASE SwapRegistered(p)
      BY <2>1, <3>2, ReplacesDefaulted DEF SwapRegistered
    <3>3. CASE Unregister(p)
      BY <2>1, <3>3, ReplacesDefaulted DEF Unregister
    <3> QED
      BY <1>2, <3>1, <3>2, <3>3
  <2>4. assets' \in [Tokens -> Plugins \cup {None}]
    BY <1>2, <2>1 DEF IInv, DefaultsOK, Register, SwapRegistered, Unregister
  <2>5. now' \in 0..MaxTime /\ now <= now'
    BY <2>2, TimeAssumption DEF IInv, DefaultsOK
  <2>6. BuiltOK'
    BY <1>1, <2>2, <2>3, <2>5, BasketStays
  <2> QED
    BY <1>1, <2>2, <2>4, <2>5, <2>6 DEF IInv, DefaultsOK, DeadlinesKept, basket
<1>3. ASSUME NEW byOwner \in BOOLEAN, NEW feed \in Feeds, RefreshBasket(byOwner, feed)
      PROVE  IInv'
  <2>1. UNCHANGED assets /\ UNCHANGED now /\ SwitchBasket(Refreshed(feed))
    BY <1>3 DEF RefreshBasket
  <2>2. BuiltOK' /\ builtWith' \in [Tokens -> Plugins \cup {None}]
    BY <2>1, SwitchBuilds
  <2> QED
    BY <1>1, <2>1, <2>2 DEF IInv, DefaultsOK, DeadlinesKept
<1>4. ASSUME UNCHANGED <<assets, basket, disabled>>,
             now' \in 0..MaxTime, now <= now'
      PROVE  IInv'
  <2>1. replaces
    BY <1>4
  <2>2. BuiltOK'
    BY <1>1, <1>4, <2>1, BasketStays
  <2> QED
    BY <1>1, <1>4, <2>2 DEF IInv, DefaultsOK, DeadlinesKept, basket
<1>5. ASSUME UNCHANGED <<assets, basket, disabled, now>>
      PROVE  IInv'
  BY <1>4, <1>5, TimeAssumption DEF IInv, DefaultsOK
<1>6. ASSUME Tick PROVE IInv'
  BY <1>4, <1>6, TimeAssumption DEF Tick, IInv, DefaultsOK
<1>7. ASSUME \/ \E amts \in PrimeBaskets : SetPrimeBasket(amts)
             \/ \E target \in Targets, conf \in BackupConfigs :
                  SetBackupConfig(target, conf)
      PROVE  UNCHANGED <<assets, basket, disabled, now>>
  BY <1>7 DEF SetPrimeBasket, SetBackupConfig
<1>8. ASSUME \/ \E feed \in Feeds : Refresh(feed)
             \/ \E p \in Plugins, feed \in Feeds : RefreshPlugin(p, feed[p])
             \/ \E status \in PauseStates : SetPausedOrFrozen(status)
             \/ UNCHANGED vars
      PROVE  UNCHANGED <<assets, basket, disabled, now>>
  BY <1>8 DEF Refresh, RefreshPlugin, SetPausedOrFrozen, vars
<1> QED
  BY <1>2, <1>3, <1>5, <1>6, <1>7, <1>8 DEF Next, Governance

\* In every reachable state the deadlines, the registry and the clock have their
\* types, and a basket that is not disabled was computed with collateral that is
\* still registered or has defaulted.
THEOREM BasketInvariance == Spec => []IInv
  BY InitIInv, NextIInv, PTL DEF Spec

\* swapRegistered() and unregister() never leave an enabled basket priced by a
\* plugin it was not computed with, unless the old plugin had defaulted.
THEOREM BuiltFromRegistry == Spec => []BuiltWithRegistered
<1>1. IInv => BuiltWithRegistered
  BY DEF IInv, BuiltOK, BuiltWithRegistered
<1> QED
  BY <1>1, BasketInvariance, PTL

\* markStatus() never lets go of a default, and never moves a deadline later
\* except by lifting it when the price is back.
THEOREM DefaultsComeInTime == Spec => DefaultsInTime
<1> DEFINE Kept ==
      \A p \in Plugins :
        /\ whenDefault[p] <= now => whenDefault'[p] = whenDefault[p]
        /\ whenDefault'[p] <= whenDefault[p] \/ whenDefault'[p] = NEVER
<1>1. IInv /\ [Next]_vars => [Kept]_vars
  BY NextKeepsDeadlines DEF IInv, DeadlinesKept
<1> QED
  BY <1>1, BasketInvariance, PTL DEF Spec, DefaultsInTime

(***************************************************************************)
(* The weights of a new basket                                             *)
(***************************************************************************)

\* The prime basket has the tokens that have an amount, and the registry its types.
Configured ==
  /\ assets \in [Tokens -> Plugins \cup {None}]
  /\ targetAmts \in [Tokens -> Nat]
  /\ targetNames \in [Tokens -> Targets \cup {None}]
  /\ \A t \in Tokens : targetNames[t] # None => targetAmts[t] > 0
  /\ backups \in [Targets -> [max : Nat, erc20s : Seq(Tokens)]]

\* A target's prime collateral that is good, and its backups, if any are needed.
Fit(target, whens) == Prime(target) \ Unsound(target, whens)
Standby(target, whens) ==
  IF Unsound(target, whens) = {} THEN {} ELSE BackupsFor(target, whens)

PerRef(t) == targetPerRef[assets[t]]
PrimeShare(t) == CeilDiv(targetAmts[t] * FIX_ONE, PerRef(t))
BackupShare(target, t, whens) ==
  CeilDiv(Needed(target, whens) * FIX_ONE, PerRef(t) * Cardinality(Standby(target, whens)))

\* Collateral has a target unit and a price in it.
LEMMA CollateralTyped ==
  ASSUME Configured, NEW t \in Tokens, IsColl(t)
  PROVE  /\ assets[t] \in Plugins /\ PerRef(t) \in Nat \ {0}
         /\ targetName[assets[t]] \in Targets /\ targetName[assets[t]] # None
BY PluginAssumption DEF Configured, IsColl, PerRef

\* Whatever stands in the new basket for a target is good collateral of that target.
LEMMA FitIsGood ==
  ASSUME Configured, NEW target \in Targets, NEW whens
  PROVE  /\ Fit(target, whens) \subseteq Prime(target) /\ Prime(target) \subseteq Tokens
         /\ Standby(target, whens) \subseteq Tokens
         /\ \A t \in Fit(target, whens) \cup Standby(target, whens) : Good(target, t, whens)
<1>1. \A t \in Fit(target, whens) : Good(target, t, whens)
  BY DEF Fit, Unsound
<1>2. ASSUME NEW t \in Standby(target, whens) PROVE t \in Tokens /\ Good(target, t, whens)
  <2>1. t \in BackupsFor(target, whens)
    BY <1>2 DEF Standby
  <2>2. PICK i \in DOMAIN backups[target].erc20s :
          t = backups[target].erc20s[i] /\ Good(target, t, whens)
    BY <2>1 DEF BackupsFor
  <2>3. backups[target].erc20s \in Seq(Tokens)
    BY DEF Configured
  <2> QED
    BY <2>2, <2>3
<1> QED
  BY <1>1, <1>2 DEF Fit, Prime

\* A prime token has an amount, and so has all that backups must stand in for.
LEMMA NeededTyped ==
  ASSUME Configured, NEW target \in Targets, NEW whens
  PROVE  /\ WeightOf(Prime(target)) \in Nat /\ Needed(target, whens) \in Nat
         /\ WeightOf(Fit(target, whens)) \in Nat
         /\ WeightOf(Prime(target)) = WeightOf(Fit(target, whens)) + Needed(target, whens)
         /\ Unsound(target, whens) # {} => Needed(target, whens) > 0
<1> DEFINE P == Prime(target)
           U == Unsound(target, whens)
           f == [t \in P |-> targetAmts[t]]
           fu == [t \in U |-> targetAmts[t]]
           ff == [t \in P \ U |-> targetAmts[t]]
<1>1. P \subseteq Tokens /\ U \in SUBSET P /\ Fit(target, whens) = P \ U
  BY DEF Prime, Unsound, Fit
<1>2. IsFiniteSet(P) /\ IsFiniteSet(U) /\ IsFiniteSet(P \ U)
  BY <1>1, PluginAssumption, FS_Subset
<1>3. f \in [P -> Nat] /\ fu \in [U -> Nat] /\ ff \in [P \ U -> Nat]
  BY <1>1 DEF Configured
<1>4. /\ WeightOf(P) = SumFunction(f) /\ Needed(target, whens) = SumFunction(fu)
      /\ WeightOf(Fit(target, whens)) = SumFunction(ff)
  BY <1>1 DEF WeightOf, Needed
<1>5. fu = [t \in U |-> f[t]] /\ ff = [t \in P \ U |-> f[t]]
  BY <1>1
<1>6. \A t \in U : fu[t] > 0
  BY <1>1, PluginAssumption DEF Configured, Prime
<1> HIDE DEF f, fu, ff, P, U
<1>7. f \in [P -> Int] /\ fu \in [U -> Int] /\ ff \in [P \ U -> Int]
  BY <1>3
<1>8. SumFunction(f) \in Nat /\ SumFunction(fu) \in Nat /\ SumFunction(ff) \in Nat
  BY <1>2, <1>3, <1>7, SumType
<1>9. SumFunction(f) = SumFunction(fu) + SumFunction(ff)
  <2>1. Splits(P, U, f, fu, ff)
    BY <1>1, <1>2, <1>5, <1>7 DEF Splits
  <2> QED
    BY <2>1, SumSplits
<1>10. ASSUME NEW t \in U PROVE SumFunction(fu) > 0
  <2>1. fu[t] <= SumFunction(fu)
    BY <1>2, <1>3, SumAtLeast
  <2> QED
    BY <1>3, <1>6, <1>8, <2>1
<1> QED
  BY <1>4, <1>8, <1>9, <1>10 DEF P, U

\* What a token of a target gets, as prime and as backup collateral.
LEMMA NewRefIs ==
  ASSUME Configured, NEW target \in Targets, NEW whens, NEW t \in Tokens,
         IsColl(t), targetName[assets[t]] = target
  PROVE  NewRefAmts(whens)[t] =
           (IF t \in Fit(target, whens) THEN PrimeShare(t) ELSE 0)
             + (IF t \in Standby(target, whens) THEN BackupShare(target, t, whens) ELSE 0)
<1> DEFINE g == targetName[assets[t]]
<1>1. NewRefAmts(whens)[t] =
        PrimeRef(t, whens) + (IF Unsound(g, whens) = {} THEN 0 ELSE BackupRef(g, t, whens))
  BY DEF NewRefAmts
<1>2. PrimeRef(t, whens) = IF t \in Fit(target, whens) THEN PrimeShare(t) ELSE 0
  <2>1. CASE t \in Fit(target, whens)
    <3>1. targetNames[t] = target /\ Good(target, t, whens)
      BY <2>1, FitIsGood DEF Fit, Prime
    <3>2. targetAmts[t] > 0
      BY <3>1, PluginAssumption DEF Configured
    <3> QED
      BY <2>1, <3>1, <3>2 DEF PrimeRef, PrimeShare, PerRef
  <2>2. CASE t \notin Fit(target, whens)
    <3>1. ~Good(targetNames[t], t, whens)
      BY <2>2 DEF Fit, Prime, Unsound, Good
    <3> QED
      BY <2>2, <3>1 DEF PrimeRef
  <2> QED
    BY <2>1, <2>2
<1>3. (IF Unsound(g, whens) = {} THEN 0 ELSE BackupRef(g, t, whens))
        = IF t \in Standby(target, whens) THEN BackupShare(target, t, whens) ELSE 0
  BY DEF BackupRef, Standby, BackupShare, PerRef
<1> QED
  BY <1>1, <1>2, <1>3

\* The tokens that the new basket has of a target.
NewTokens(target, whens) ==
  {t \in Tokens : NewRefAmts(whens)[t] > 0 /\ targetName[assets[t]] = target}

\* The shares are numbers, and none is zero.
LEMMA SharesTyped ==
  ASSUME Configured, NEW target \in Targets, NEW whens, NEW t \in Tokens
  PROVE  /\ t \in Fit(target, whens) => PrimeShare(t) \in Nat \ {0}
         /\ t \in Standby(target, whens) => BackupShare(target, t, whens) \in Nat \ {0}
<1>0. ASSUME NEW n \in Nat \ {0}, NEW d \in Nat \ {0} PROVE CeilDiv(n, d) \in Nat \ {0}
  <2>1. CeilDiv(n, d) \in Nat /\ n <= d * CeilDiv(n, d)
    BY CeilBounds
  <2>2. d * 0 = 0
    OBVIOUS
  <2> QED
    BY <2>1, <2>2
<1>1. \A x, y \in Nat \ {0} : x * y \in Nat \ {0}
  OBVIOUS
<1>2. ASSUME t \in Fit(target, whens) PROVE PrimeShare(t) \in Nat \ {0}
  <2>1. IsColl(t) /\ targetNames[t] = target
    BY <1>2, FitIsGood DEF Good, Prime
  <2>2. targetAmts[t] \in Nat \ {0}
    <3>1. targetNames[t] # None
      BY <2>1, PluginAssumption
    <3> QED
      BY <3>1 DEF Configured
  <2>3. PerRef(t) \in Nat \ {0}
    BY <2>1, CollateralTyped
  <2>4. targetAmts[t] * FIX_ONE \in Nat \ {0}
    BY <1>1, <2>2, ConfigAssumption
  <2> QED
    BY <1>0, <2>3, <2>4 DEF PrimeShare
<1>3. ASSUME t \in Standby(target, whens) PROVE BackupShare(target, t, whens) \in Nat \ {0}
  <2>1. IsColl(t) /\ Unsound(target, whens) # {}
    BY <1>3, FitIsGood DEF Good, Standby
  <2>2. Needed(target, whens) \in Nat \ {0}
    BY <2>1, NeededTyped
  <2>3. PerRef(t) \in Nat \ {0}
    BY <2>1, CollateralTyped
  <2>4. Needed(target, whens) * FIX_ONE \in Nat \ {0}
    BY <1>1, <2>2, ConfigAssumption
  <2>5. IsFiniteSet(Standby(target, whens))
    BY FitIsGood, PluginAssumption, FS_Subset
  <2>6. Cardinality(Standby(target, whens)) \in Nat \ {0}
    BY <1>3, <2>5, FS_CardinalityType, FS_EmptySet
  <2>7. PerRef(t) * Cardinality(Standby(target, whens)) \in Nat \ {0}
    BY <1>1, <2>3, <2>6
  <2> QED
    BY <1>0, <2>4, <2>7 DEF BackupShare
<1> QED
  BY <1>2, <1>3

\* They are its good prime tokens and its backups.
LEMMA NewTokensAre ==
  ASSUME Configured, NEW target \in Targets, NEW whens
  PROVE  NewTokens(target, whens) = Fit(target, whens) \cup Standby(target, whens)
<1>1. ASSUME NEW t \in Fit(target, whens) \cup Standby(target, whens)
      PROVE  t \in NewTokens(target, whens)
  <2>1. t \in Tokens /\ IsColl(t) /\ targetName[assets[t]] = target
    BY FitIsGood DEF Good
  <2> DEFINE a == IF t \in Fit(target, whens) THEN PrimeShare(t) ELSE 0
             b == IF t \in Standby(target, whens) THEN BackupShare(target, t, whens) ELSE 0
  <2>2. a \in Nat /\ b \in Nat /\ (a > 0 \/ b > 0)
    BY <2>1, SharesTyped
  <2>3. NewRefAmts(whens)[t] = a + b
    BY <2>1, NewRefIs
  <2> HIDE DEF a, b
  <2> QED
    BY <2>1, <2>2, <2>3 DEF NewTokens
<1>2. ASSUME NEW t \in NewTokens(target, whens)
      PROVE  t \in Fit(target, whens) \cup Standby(target, whens)
  <2>1. t \in Tokens /\ NewRefAmts(whens)[t] > 0 /\ targetName[assets[t]] = target
    BY DEF NewTokens
  <2>2. IsColl(t)
    BY <2>1 DEF NewRefAmts
  <2>3. t \notin Fit(target, whens) /\ t \notin Standby(target, whens)
          => NewRefAmts(whens)[t] = 0 + 0
    BY <2>1, <2>2, NewRefIs
  <2> QED
    BY <2>1, <2>3
<1> QED
  BY <1>1, <1>2

\* What the shares are worth in the target unit, and the prices.
Prices(S) == [t \in S |-> PerRef(t)]
PrimeWorth(target, whens) == [t \in Fit(target, whens) |-> PerRef(t) * PrimeShare(t)]
BackupWorth(target, whens) ==
  [t \in Standby(target, whens) |-> PerRef(t) * BackupShare(target, t, whens)]
NewWorth(target, whens) ==
  [t \in NewTokens(target, whens) |-> NewRefAmts(whens)[t] * PerRef(t)]

\* The tokens of a target are finitely many, and what they are worth are numbers.
LEMMA WorthTyped ==
  ASSUME Configured, NEW target \in Targets, NEW whens
  PROVE  /\ IsFiniteSet(Fit(target, whens)) /\ IsFiniteSet(Standby(target, whens))
         /\ IsFiniteSet(NewTokens(target, whens))
         /\ Prices(Fit(target, whens)) \in [Fit(target, whens) -> Nat \ {0}]
         /\ Prices(Standby(target, whens)) \in [Standby(target, whens) -> Nat \ {0}]
         /\ Prices(NewTokens(target, whens)) \in [NewTokens(target, whens) -> Nat \ {0}]
         /\ PrimeWorth(target, whens) \in [Fit(target, whens) -> Nat]
         /\ BackupWorth(target, whens) \in [Standby(target, whens) -> Nat]
         /\ NewWorth(target, whens) \in [NewTokens(target, whens) -> Nat]
<1> DEFINE G == Fit(target, whens)
           B == Standby(target, whens)
           K == NewTokens(target, whens)
<1>0. \A x, y \in Nat : x * y \in Nat
  OBVIOUS
<1>1. G \subseteq Tokens /\ B \subseteq Tokens /\ K = G \cup B
  BY FitIsGood, NewTokensAre
<1>2. IsFiniteSet(G) /\ IsFiniteSet(B) /\ IsFiniteSet(K)
  BY <1>1, PluginAssumption, FS_Subset
<1>3. ASSUME NEW t \in K
      PROVE  t \in Tokens /\ IsColl(t) /\ targetName[assets[t]] = target /\ PerRef(t) \in Nat \ {0}
  <2>1. t \in Tokens /\ IsColl(t) /\ targetName[assets[t]] = target
    BY <1>1, <1>3, FitIsGood DEF Good
  <2> QED
    BY <2>1, CollateralTyped
<1>4. /\ \A t \in G : PerRef(t) * PrimeShare(t) \in Nat
      /\ \A t \in B : PerRef(t) * BackupShare(target, t, whens) \in Nat
  BY <1>0, <1>1, <1>3, SharesTyped
<1>5. ASSUME NEW t \in K PROVE NewRefAmts(whens)[t] * PerRef(t) \in Nat
  <2> DEFINE a == IF t \in G THEN PrimeShare(t) ELSE 0
             b == IF t \in B THEN BackupShare(target, t, whens) ELSE 0
  <2>1. a \in Nat /\ b \in Nat
    BY <1>3, SharesTyped
  <2>2. NewRefAmts(whens)[t] = a + b
    BY <1>3, NewRefIs
  <2> HIDE DEF a, b
  <2>3. NewRefAmts(whens)[t] \in Nat
    BY <2>1, <2>2
  <2> QED
    BY <1>0, <1>3, <2>3
<1> QED
  BY <1>1, <1>2, <1>3, <1>4, <1>5 DEF Prices, PrimeWorth, BackupWorth, NewWorth

\* The good prime tokens are worth their target amounts.
LEMMA PrimeIsKept ==
  ASSUME Configured, NEW target \in Targets, NEW whens
  PROVE  /\ FIX_ONE * WeightOf(Fit(target, whens)) <= SumFunction(PrimeWorth(target, whens))
         /\ SumFunction(PrimeWorth(target, whens))
              <= FIX_ONE * WeightOf(Fit(target, whens)) + SumFunction(Prices(Fit(target, whens)))
<1> DEFINE S == Fit(target, whens)
           a == [t \in S |-> targetAmts[t]]
           p == Prices(S)
           h == PrimeWorth(target, whens)
<1>1. S \subseteq Tokens
  BY FitIsGood
<1>2. IsFiniteSet(S) /\ a \in [S -> Nat] /\ p \in [S -> Nat \ {0}] /\ h \in [S -> Nat]
  BY <1>1, WorthTyped DEF Configured
<1>3. \A x \in S : h[x] = p[x] * CeilDiv(a[x] * FIX_ONE, p[x])
  BY DEF PrimeWorth, PrimeShare, Prices
<1>4. WeightOf(S) = SumFunction(a)
  BY DEF WeightOf
<1> HIDE DEF S, a, p, h
<1>5. /\ FIX_ONE * SumFunction(a) <= SumFunction(h)
      /\ SumFunction(h) <= FIX_ONE * SumFunction(a) + SumFunction(p)
  BY <1>2, <1>3, ConfigAssumption, RoundedUp
<1> QED
  BY <1>4, <1>5 DEF S, p, h

\* The backups are worth what the rest of the prime tokens had to contribute.
LEMMA BackupStandsIn ==
  ASSUME Configured, NEW target \in Targets, NEW whens,
         Unsound(target, whens) # {} => BackupsFor(target, whens) # {}
  PROVE  /\ Needed(target, whens) * FIX_ONE <= SumFunction(BackupWorth(target, whens))
         /\ SumFunction(BackupWorth(target, whens))
              <= Needed(target, whens) * FIX_ONE + SumFunction(Prices(Standby(target, whens)))
<1> DEFINE S == Standby(target, whens)
           amount == Needed(target, whens) * FIX_ONE
           p == Prices(S)
           h == BackupWorth(target, whens)
<1>0. \A x, y \in Nat : x * y \in Nat
  OBVIOUS
<1>1. IsFiniteSet(S) /\ p \in [S -> Nat \ {0}] /\ h \in [S -> Nat]
  BY WorthTyped
<1>2. \A x \in S : h[x] = p[x] * CeilDiv(amount, p[x] * Cardinality(S))
  BY DEF BackupWorth, BackupShare, Prices
<1>3. amount \in Nat
  BY <1>0, NeededTyped, ConfigAssumption
<1>4. CASE S # {}
  <2> HIDE DEF S, amount, p, h
  <2>1. /\ amount <= SumFunction(h)
        /\ SumFunction(h) <= amount + SumFunction(p)
    BY <1>1, <1>2, <1>3, <1>4, SharedOut
  <2> QED
    BY <2>1 DEF S, amount, p, h
<1>5. CASE S = {}
  <2>1. Unsound(target, whens) = {}
    BY <1>5 DEF Standby
  <2>2. Needed(target, whens) = SumFunction([t \in {} |-> 0])
    <3>1. [t \in Unsound(target, whens) |-> targetAmts[t]] = [t \in {} |-> 0]
      BY <2>1
    <3> QED
      BY <3>1 DEF Needed, WeightOf
  <2>3. h = [t \in {} |-> 0] /\ p = [t \in {} |-> 0]
    BY <1>5 DEF BackupWorth, Prices
  <2>4. SumFunction([t \in {} |-> 0]) = 0
    BY FS_EmptySet, SumZero
  <2>5. 0 * FIX_ONE = 0
    BY ConfigAssumption
  <2> QED
    BY <2>2, <2>3, <2>4, <2>5
<1> QED
  BY <1>4, <1>5

\* Together they make up what the configuration wants of the target.
LEMMA NewWeights ==
  ASSUME Configured, NEW target \in Targets, NEW whens,
         Unsound(target, whens) # {} => BackupsFor(target, whens) # {}
  PROVE  LET wanted == WeightOf(Prime(target)) * FIX_ONE
             weight == SumFunction(NewWorth(target, whens))
         IN  /\ wanted <= weight
             /\ weight <= wanted + SumFunction([t \in NewTokens(target, whens) |-> 2 * PerRef(t)])
<1> DEFINE G == Fit(target, whens)
           B == Standby(target, whens)
           K == NewTokens(target, whens)
           hg == PrimeWorth(target, whens)
           hb == BackupWorth(target, whens)
           w == NewWorth(target, whens)
           wg == [t \in K |-> IF t \in G THEN hg[t] ELSE 0]
           double == [t \in K |-> 2 * PerRef(t)]
<1>1. /\ G \in SUBSET K /\ B \in SUBSET K
      /\ IsFiniteSet(G) /\ IsFiniteSet(B) /\ IsFiniteSet(K)
      /\ hg \in [G -> Nat] /\ hb \in [B -> Nat] /\ w \in [K -> Nat]
      /\ Prices(G) \in [G -> Nat \ {0}] /\ Prices(B) \in [B -> Nat \ {0}]
      /\ Prices(K) \in [K -> Nat \ {0}]
  BY NewTokensAre, WorthTyped
<1>2. ASSUME NEW t \in K
      PROVE  w[t] = (IF t \in G THEN hg[t] ELSE 0) + (IF t \in B THEN hb[t] ELSE 0)
  <2>1. t \in Tokens /\ IsColl(t) /\ targetName[assets[t]] = target
    BY NewTokensAre, FitIsGood DEF Good
  <2> DEFINE a == IF t \in G THEN PrimeShare(t) ELSE 0
             b == IF t \in B THEN BackupShare(target, t, whens) ELSE 0
             r == PerRef(t)
  <2>2. a \in Nat /\ b \in Nat /\ r \in Nat
    BY <2>1, SharesTyped, CollateralTyped
  <2>3. w[t] = (a + b) * r
    BY <2>1, NewRefIs DEF NewWorth
  <2>4. /\ r * a = IF t \in G THEN hg[t] ELSE 0
        /\ r * b = IF t \in B THEN hb[t] ELSE 0
    <3>1. r * 0 = 0
      BY <2>2
    <3> QED
      BY <3>1 DEF PrimeWorth, BackupWorth
  <2> HIDE DEF a, b, r, G, B, hg, hb, w, K
  <2>5. \A x, y, z \in Nat : (x + y) * z = z * x + z * y
    OBVIOUS
  <2> QED
    BY <2>2, <2>3, <2>4, <2>5
<1>3. Spreads(K, B, wg, w, hb)
  <2>1. wg \in [K -> Int] /\ w \in [K -> Int] /\ hb \in [B -> Int]
    BY <1>1
  <2>2. /\ \A t \in B : w[t] = wg[t] + hb[t]
        /\ \A t \in K \ B : w[t] = wg[t]
    <3> HIDE DEF G, B, K, hg, hb, w
    <3>1. \A t \in K : hg[t] \in Nat \/ t \notin G
      BY <1>1
    <3> QED
      BY <1>1, <1>2, <3>1
  <2> HIDE DEF G, B, K, hg, hb, w, wg
  <2> QED
    BY <1>1, <2>1, <2>2 DEF Spreads
<1>4. SumFunction(wg) = SumFunction(hg)
  <2>1. /\ wg \in [K -> Int] /\ hg \in [G -> Int]
        /\ \A t \in G : wg[t] = hg[t]
        /\ \A t \in K \ G : wg[t] = 0
    BY <1>1
  <2> HIDE DEF G, B, K, hg, hb, w, wg
  <2> QED
    BY <1>1, <2>1, SumOfPart
<1>5. SumFunction(w) = SumFunction(hg) + SumFunction(hb)
  <2> HIDE DEF G, B, K, hg, hb, w, wg
  <2> QED
    BY <1>3, <1>4, SumSpreads
<1>6. /\ SumFunction(Prices(G)) <= SumFunction(Prices(K))
      /\ SumFunction(Prices(B)) <= SumFunction(Prices(K))
  <2> DEFINE pg == Prices(G)
             pb == Prices(B)
             pk == Prices(K)
  <2>1. /\ pg \in [G -> Nat] /\ pb \in [B -> Nat] /\ pk \in [K -> Nat]
        /\ \A t \in G : pg[t] = pk[t]
        /\ \A t \in B : pb[t] = pk[t]
    BY <1>1 DEF Prices
  <2> HIDE DEF G, B, K, pg, pb, pk
  <2>2. SumFunction(pg) <= SumFunction(pk)
    BY <1>1, <2>1, SumOfSubset
  <2>3. SumFunction(pb) <= SumFunction(pk)
    BY <1>1, <2>1, SumOfSubset
  <2> QED
    BY <2>2, <2>3 DEF pg, pb, pk
<1>7. SumFunction(double) = 2 * SumFunction(Prices(K))
  <2> DEFINE pk == Prices(K)
  <2>1. /\ pk \in [K -> Nat] /\ double \in [K -> Nat]
        /\ \A t \in K : double[t] = 2 * pk[t]
    BY <1>1 DEF Prices
  <2> HIDE DEF K, pk, double
  <2> QED
    BY <1>1, <2>1, SumScales DEF pk
<1> DEFINE f == WeightOf(G)
           n == Needed(target, whens)
           sg == SumFunction(Prices(G))
           sb == SumFunction(Prices(B))
           sk == SumFunction(Prices(K))
           wanted == WeightOf(Prime(target)) * FIX_ONE
<1>8. f \in Nat /\ n \in Nat /\ WeightOf(Prime(target)) = f + n
  BY NeededTyped
<1>9. /\ FIX_ONE * f <= SumFunction(hg) /\ SumFunction(hg) <= FIX_ONE * f + sg
      /\ n * FIX_ONE <= SumFunction(hb) /\ SumFunction(hb) <= n * FIX_ONE + sb
  BY PrimeIsKept, BackupStandsIn
<1>10. wanted = FIX_ONE * f + n * FIX_ONE /\ FIX_ONE * f \in Nat /\ n * FIX_ONE \in Nat
  <2>1. \A x, y, z \in Nat : (x + y) * z = z * x + y * z
    OBVIOUS
  <2>2. \A x, y \in Nat : x * y \in Nat
    OBVIOUS
  <2> QED
    BY <1>8, <2>1, <2>2, ConfigAssumption
<1>11. sk \in Int /\ sg \in Int /\ sb \in Int /\ SumFunction(hg) \in Int /\ SumFunction(hb) \in Int
  <2> DEFINE pg == Prices(G)
             pb == Prices(B)
             pk == Prices(K)
  <2>1. /\ pg \in [G -> Int] /\ pb \in [B -> Int] /\ pk \in [K -> Int]
        /\ hg \in [G -> Int] /\ hb \in [B -> Int]
    BY <1>1
  <2> HIDE DEF G, B, K, hg, hb, pg, pb, pk
  <2>2. /\ SumFunction(pg) \in Int /\ SumFunction(pb) \in Int /\ SumFunction(pk) \in Int
        /\ SumFunction(hg) \in Int /\ SumFunction(hb) \in Int
    BY <1>1, <2>1, SumType
  <2> QED
    BY <2>2 DEF pg, pb, pk
<1> HIDE DEF G, B, K, hg, hb, w, double, f, n, sg, sb, sk, wanted
<1>12. wanted <= SumFunction(w) /\ SumFunction(w) <= wanted + SumFunction(double)
  <2> DEFINE a == FIX_ONE * f
             b == n * FIX_ONE
  <2>1. /\ wanted = a + b /\ a \in Nat /\ b \in Nat
        /\ a <= SumFunction(hg) /\ SumFunction(hg) <= a + sg
        /\ b <= SumFunction(hb) /\ SumFunction(hb) <= b + sb
    BY <1>9, <1>10
  <2> HIDE DEF a, b
  <2>2. sg <= sk /\ sb <= sk /\ SumFunction(double) = 2 * sk
    BY <1>6, <1>7 DEF sg, sb, sk
  <2> QED
    BY <1>5, <1>11, <2>1, <2>2
<1> QED
  BY <1>12 DEF wanted, w, double, K

(***************************************************************************)
(* Types                                                                   *)
(***************************************************************************)

\* The inductive invariant of the types adds, to IInv, that the tokens of the prime
\* basket have amounts: without it a new basket might be empty and enabled.
TInv == IInv /\ TypeOK /\ Configured

\* A deadline is never further off than the delay of its plugin.
InTime(when, time, delay) == when = NEVER \/ when \in 0..time + delay

\* markStatus() sets no deadline further off than the delay.
LEMMA MarkedInTime ==
  ASSUME NEW when \in Nat, NEW time \in 0..MaxTime, NEW mark \in Statuses, NEW delay \in Nat,
         InTime(when, time, delay)
  PROVE  InTime(Marked(when, mark, delay, time), time, delay)
<1>1. CASE mark = "SOUND"
  BY <1>1, TimeAssumption DEF Marked, InTime
<1>2. CASE mark = "IFFY"
  BY <1>2, TimeAssumption DEF Marked, InTime
<1>3. CASE mark = "DISABLED"
  BY <1>3, TimeAssumption DEF Marked, InTime
<1> QED
  BY <1>1, <1>2, <1>3 DEF Statuses

DeadlinesInTime == \A p \in Plugins : InTime(whenDefault[p], now, delayUntilDefault[p])

\* No step moves a deadline further off than the delay of its plugin.
LEMMA NextInTime ==
  ASSUME DefaultsOK, DeadlinesInTime, [Next]_vars
  PROVE  DeadlinesInTime'
<1>1. ASSUME NEW p \in Plugins, UNCHANGED now,
             \/ whenDefault'[p] = whenDefault[p]
             \/ \E mark \in Statuses :
                  whenDefault'[p] = Marked(whenDefault[p], mark, delayUntilDefault[p], now)
      PROVE  InTime(whenDefault'[p], now', delayUntilDefault[p])
  <2>1. /\ whenDefault[p] \in Nat /\ delayUntilDefault[p] \in Nat
        /\ InTime(whenDefault[p], now, delayUntilDefault[p])
    BY PluginAssumption DEF DefaultsOK, DeadlinesInTime
  <2> QED
    BY <1>1, <2>1, MarkedInTime DEF DefaultsOK
<1>2. ASSUME NEW feed \in Feeds, whenDefault' = Refreshed(feed), UNCHANGED now
      PROVE  DeadlinesInTime'
  <2>1. ASSUME NEW p \in Plugins
        PROVE  \/ whenDefault'[p] = whenDefault[p]
               \/ \E mark \in Statuses :
                    whenDefault'[p] = Marked(whenDefault[p], mark, delayUntilDefault[p], now)
    <3>1. feed[p] \in Statuses
      BY ConfigAssumption
    <3> QED
      BY <1>2, <3>1 DEF Refreshed
  <2> QED
    BY <1>1, <1>2, <2>1 DEF DeadlinesInTime
<1>3. ASSUME NEW q \in Plugins, NEW feed \in Feeds, RefreshPlugin(q, feed[q])
      PROVE  DeadlinesInTime'
  <2>1. feed[q] \in Statuses
    BY ConfigAssumption
  <2>2. ASSUME NEW p \in Plugins
        PROVE  \/ whenDefault'[p] = whenDefault[p]
               \/ \E mark \in Statuses :
                    whenDefault'[p] = Marked(whenDefault[p], mark, delayUntilDefault[p], now)
    BY <1>3, <2>1 DEF RefreshPlugin, DefaultsOK
  <2> QED
    BY <1>1, <1>3, <2>2 DEF DeadlinesInTime, RefreshPlugin
<1>4. ASSUME UNCHANGED <<whenDefault, now>> PROVE DeadlinesInTime'
  BY <1>4 DEF DeadlinesInTime
<1>5. ASSUME Tick PROVE DeadlinesInTime'
  BY <1>5, PluginAssumption, TimeAssumption DEF Tick, DeadlinesInTime, DefaultsOK, InTime
<1>6. ASSUME Governance \/ (\E status \in PauseStates : SetPausedOrFrozen(status)) \/ UNCHANGED vars
      PROVE  UNCHANGED <<whenDefault, now>>
  BY <1>6 DEF Governance, Register, SwapRegistered, Unregister, SetPrimeBasket,
              SetBackupConfig, SetPausedOrFrozen, vars
<1>7. ASSUME NEW feed \in Feeds,
             Refresh(feed) \/ RefreshBasket(TRUE, feed) \/ RefreshBasket(FALSE, feed)
      PROVE  DeadlinesInTime'
  BY <1>2, <1>7 DEF Refresh, RefreshBasket
<1> QED
  BY <1>3, <1>4, <1>5, <1>6, <1>7 DEF Next

\* What refreshBasket() may make of the basket: it stays and is disabled, or it is one
\* for every target.
LEMMA NewBasketTyped ==
  ASSUME Configured, NEW whens
  PROVE  NewRefAmts(whens) \in [Tokens -> Nat]
<1>1. ASSUME NEW t \in Tokens PROVE NewRefAmts(whens)[t] \in Nat
  <2>1. CASE ~IsColl(t)
    BY <2>1 DEF NewRefAmts
  <2>2. CASE IsColl(t)
    <3> DEFINE target == targetName[assets[t]]
               a == IF t \in Fit(target, whens) THEN PrimeShare(t) ELSE 0
               b == IF t \in Standby(target, whens) THEN BackupShare(target, t, whens) ELSE 0
    <3>1. target \in Targets
      BY <2>2, CollateralTyped
    <3>2. a \in Nat /\ b \in Nat
      BY <3>1, SharesTyped
    <3>3. NewRefAmts(whens)[t] = a + b
      BY <2>2, <3>1, NewRefIs
    <3> HIDE DEF a, b
    <3> QED
      BY <3>2, <3>3
  <2> QED
    BY <2>1, <2>2
<1>2. NewRefAmts(whens) = [t \in Tokens |-> NewRefAmts(whens)[t]]
  BY DEF NewRefAmts
<1> QED
  BY <1>1, <1>2

\* A basket that can be built has a token: some target needs one.
LEMMA NewBasketNotEmpty ==
  ASSUME Configured, NEW whens, ~NoBasket(whens)
  PROVE  \E t \in Tokens : NewRefAmts(whens)[t] > 0
<1>1. PICK target \in Targets : Prime(target) # {}
  BY DEF NoBasket
<1>2. Unsound(target, whens) # {} => BackupsFor(target, whens) # {}
  BY DEF NoBasket
<1>3. Fit(target, whens) \cup Standby(target, whens) # {}
  BY <1>1, <1>2 DEF Fit, Standby, Unsound
<1>4. NewTokens(target, whens) # {}
  BY <1>3, NewTokensAre
<1> QED
  BY <1>4 DEF NewTokens

\* What _switchBasket() writes has the types of its fields.
LEMMA SwitchTypes ==
  ASSUME TInv, NEW whens, SwitchBasket(whens), UNCHANGED <<assets, now>>
  PROVE  /\ refAmts' \in [Tokens -> Nat] /\ nonce' \in 0..MaxNonce
         /\ timestamp' \in 0..now' /\ disabled' \in BOOLEAN
         /\ builtWith' \in [Tokens -> Plugins \cup {None}]
         /\ InBasket' = {} => disabled'
<1>1. builtWith' \in [Tokens -> Plugins \cup {None}]
  BY SwitchBuilds DEF TInv
<1>2. CASE disabled' = TRUE /\ UNCHANGED basket
  BY <1>1, <1>2 DEF TInv, TypeOK, basket
<1>3. CASE /\ ~NoBasket(whens) /\ disabled' = FALSE
           /\ nonce < MaxNonce /\ nonce' = nonce + 1
           /\ timestamp' = now /\ refAmts' = NewRefAmts(whens)
  <2>1. refAmts' \in [Tokens -> Nat]
    BY <1>3, NewBasketTyped DEF TInv
  <2>2. InBasket' # {}
    BY <1>3, NewBasketNotEmpty DEF TInv, InBasket
  <2>3. nonce' \in 0..MaxNonce /\ timestamp' \in 0..now'
    BY <1>3, TimeAssumption DEF TInv, TypeOK
  <2> QED
    BY <1>1, <1>3, <2>1, <2>2, <2>3
<1> QED
  BY <1>2, <1>3 DEF SwitchBasket

\* The handler starts disabled, without a basket.
LEMMA InitTInv == Init => TInv
<1> SUFFICES ASSUME Init PROVE TInv
  OBVIOUS
<1>1. IInv
  BY InitIInv
<1>2. /\ targetAmts \in [Tokens -> Nat] /\ targetNames \in [Tokens -> Targets \cup {None}]
      /\ \A t \in Tokens : targetNames[t] = None
      /\ refAmts \in [Tokens -> Nat] /\ InBasket = {}
  BY DEF Init, InBasket
<1>3. backups \in [Targets -> [max : Nat, erc20s : Seq(Tokens)]]
  <2>1. <<>> \in Seq(Tokens)
    OBVIOUS
  <2> QED
    BY <2>1 DEF Init
<1>4. /\ nonce \in 0..MaxNonce /\ timestamp \in 0..now /\ disabled = TRUE
      /\ pausedOrFrozen \in BOOLEAN
  BY TimeAssumption, ConfigAssumption DEF Init
<1>5. \A p \in Plugins : whenDefault[p] = NEVER
  BY DEF Init
<1> QED
  BY <1>1, <1>2, <1>3, <1>4, <1>5 DEF TInv, IInv, DefaultsOK, TypeOK, Configured

\* What a step does to the fields that only types are said of, when it is none that
\* TInv needs more of.
LEMMA NextTInv == TInv /\ [Next]_vars => TInv'
<1> SUFFICES ASSUME TInv, [Next]_vars PROVE TInv'
  OBVIOUS
<1>1. IInv'
  BY NextIInv DEF TInv
<1>2. DeadlinesInTime'
  <2>1. DeadlinesInTime
    BY DEF TInv, TypeOK, DeadlinesInTime, InTime
  <2> QED
    BY <2>1, NextInTime DEF TInv, IInv
<1> DEFINE ConfigTyped == /\ targetAmts \in [Tokens -> Nat]
                          /\ targetNames \in [Tokens -> Targets \cup {None}]
                          /\ \A t \in Tokens : targetNames[t] # None => targetAmts[t] > 0
                          /\ backups \in [Targets -> [max : Nat, erc20s : Seq(Tokens)]]
           BasketTyped == /\ refAmts \in [Tokens -> Nat] /\ nonce \in 0..MaxNonce
                          /\ timestamp \in 0..now /\ disabled \in BOOLEAN
                          /\ (InBasket = {} => disabled)
<1>3. ASSUME ConfigTyped', BasketTyped', pausedOrFrozen' \in BOOLEAN PROVE TInv'
  <2>1. DefaultsOK'
    BY <1>1 DEF IInv
  <2>2. Configured'
    BY <1>3, <2>1 DEF Configured, DefaultsOK
  <2>3. TypeOK'
    BY <1>2, <1>3, <2>1 DEF TypeOK, DefaultsOK, DeadlinesInTime, InTime
  <2> QED
    BY <1>1, <2>2, <2>3 DEF TInv
<1>4. ConfigTyped /\ BasketTyped /\ pausedOrFrozen \in BOOLEAN /\ now \in 0..MaxTime
  BY DEF TInv, TypeOK, Configured
<1>5. UNCHANGED config => ConfigTyped'
  BY <1>4 DEF config
<1>6. UNCHANGED <<basket, disabled, now>> => BasketTyped'
  BY <1>4 DEF basket, InBasket
<1>7. ASSUME NEW p \in Listings, Register(p) \/ SwapRegistered(p) \/ Unregister(p)
      PROVE  TInv'
  <2>1. UNCHANGED <<config, basket, pausedOrFrozen, now>>
    BY <1>7 DEF Register, SwapRegistered, Unregister
  <2>2. disabled' \in BOOLEAN /\ (disabled => disabled')
    BY <1>4, <1>7 DEF Register, SwapRegistered, Unregister, DisablesWith, HasQuantity, IsColl
  <2>3. BasketTyped'
    BY <1>4, <2>1, <2>2 DEF basket, InBasket
  <2> QED
    BY <1>3, <1>4, <1>5, <2>1, <2>3
<1>8. ASSUME NEW amts \in PrimeBaskets, SetPrimeBasket(amts) PROVE TInv'
  <2>1. amts \in [Tokens -> Nat]
    BY ConfigAssumption
  <2>2. /\ targetAmts' = amts /\ backups' = backups
        /\ targetNames' = [t \in Tokens |-> IF amts[t] > 0 THEN targetName[assets[t]] ELSE None]
        /\ \A t \in Tokens : amts[t] > 0 => IsColl(t)
        /\ UNCHANGED <<basket, disabled, pausedOrFrozen, now>>
    BY <1>8 DEF SetPrimeBasket
  <2>3. ASSUME NEW t \in Tokens
        PROVE  /\ targetNames'[t] \in Targets \cup {None}
               /\ targetNames'[t] # None => targetAmts'[t] > 0
    BY <2>2, CollateralTyped DEF TInv
  <2>4. targetNames' \in [Tokens -> Targets \cup {None}]
    BY <2>2, <2>3
  <2>5. ConfigTyped'
    BY <1>4, <2>1, <2>2, <2>3, <2>4
  <2>6. BasketTyped' /\ pausedOrFrozen' \in BOOLEAN
    BY <1>4, <1>6, <2>2
  <2> QED
    BY <1>3, <2>5, <2>6
<1>9. ASSUME NEW target \in Targets, NEW conf \in BackupConfigs, SetBackupConfig(target, conf)
      PROVE  TInv'
  <2>1. conf \in [max : Nat, erc20s : Seq(Tokens)]
    BY ConfigAssumption
  <2>2. /\ targetAmts' = targetAmts /\ targetNames' = targetNames
        /\ backups' = [backups EXCEPT ![target] = conf]
        /\ UNCHANGED <<basket, disabled, pausedOrFrozen, now>>
    BY <1>9 DEF SetBackupConfig
  <2>3. ConfigTyped'
    BY <1>4, <2>1, <2>2
  <2> QED
    BY <1>3, <1>4, <1>6, <2>2, <2>3
<1>10. ASSUME NEW byOwner \in BOOLEAN, NEW feed \in Feeds, RefreshBasket(byOwner, feed)
       PROVE  TInv'
  <2>1. /\ UNCHANGED <<assets, config, pausedOrFrozen, now>>
        /\ SwitchBasket(Refreshed(feed))
    BY <1>10 DEF RefreshBasket
  <2>2. BasketTyped'
    BY <2>1, SwitchTypes
  <2> QED
    BY <1>3, <1>4, <1>5, <2>1, <2>2
<1>11. ASSUME NEW status \in PauseStates, SetPausedOrFrozen(status) PROVE TInv'
  <2>1. status \in BOOLEAN
    BY ConfigAssumption
  <2> QED
    BY <1>3, <1>5, <1>6, <1>11, <2>1 DEF SetPausedOrFrozen
<1>12. ASSUME UNCHANGED <<config, basket, disabled, now, pausedOrFrozen>> PROVE TInv'
  BY <1>3, <1>4, <1>5, <1>6, <1>12
<1>13. ASSUME Tick PROVE TInv'
  <2>1. BasketTyped'
    BY <1>4, <1>13, TimeAssumption DEF Tick, basket, InBasket
  <2> QED
    BY <1>3, <1>4, <1>5, <1>13, <2>1 DEF Tick
<1>14. ASSUME \/ \E feed \in Feeds : Refresh(feed)
              \/ \E p \in Plugins, feed \in Feeds : RefreshPlugin(p, feed[p])
              \/ UNCHANGED vars
       PROVE  TInv'
  BY <1>12, <1>14 DEF Refresh, RefreshPlugin, vars
<1> HIDE DEF ConfigTyped, BasketTyped
<1> QED
  BY <1>7, <1>8, <1>9, <1>10, <1>11, <1>13, <1>14 DEF Next, Governance

\* In every reachable state all fields have their types, the prime basket has amounts for
\* its tokens, and a basket that was built of nothing is disabled.
THEOREM BasketTypes == Spec => []TInv
  BY InitTInv, NextTInv, PTL DEF Spec

\* Every field keeps its type, a deadline is never further off than the delay of its
\* plugin, and an empty basket is never enabled (_switchBasket(), refresh()).
THEOREM BasketTypeCorrect == Spec => []TypeOK
<1>1. TInv => TypeOK
  BY DEF TInv
<1> QED
  BY <1>1, BasketTypes, PTL

\* A step that builds a new basket gives each target the weight it is configured with.
LEMMA SwitchKeepsWeights ==
  ASSUME TInv, [Next]_vars, nonce' # nonce
  PROVE  /\ \A t \in Tokens :
              refAmts'[t] > 0 =>
                IsColl(t)' /\ StatusAt(whenDefault[assets[t]], now)' # "DISABLED"
         /\ \A target \in Targets :
              LET tokens == {t \in InBasket' : targetName[assets[t]] = target}
                  weight == SumFunction(
                              [t \in tokens |-> refAmts'[t] * targetPerRef[assets[t]]])
                  slack == SumFunction([t \in tokens |-> 2 * targetPerRef[assets[t]]])
                  wanted == WeightOf(Prime(target)) * FIX_ONE
              IN  wanted <= weight /\ weight <= wanted + slack
<1>1. PICK byOwner \in BOOLEAN, feed \in Feeds : RefreshBasket(byOwner, feed)
  BY DEF Next, Governance, Register, SwapRegistered, Unregister, SetPrimeBasket,
         SetBackupConfig, Refresh, RefreshPlugin, SetPausedOrFrozen, Tick, vars, basket
<1> DEFINE whens == Refreshed(feed)
<1>2. /\ UNCHANGED <<assets, now>> /\ whenDefault' = whens
      /\ ~NoBasket(whens) /\ refAmts' = NewRefAmts(whens)
  BY <1>1 DEF RefreshBasket, SwitchBasket, basket
<1>3. Configured
  BY DEF TInv
<1> HIDE DEF whens
<1>4. ASSUME NEW t \in Tokens, refAmts'[t] > 0
      PROVE  IsColl(t)' /\ StatusAt(whenDefault[assets[t]], now)' # "DISABLED"
  <2>1. IsColl(t)
    BY <1>2, <1>4 DEF NewRefAmts
  <2> DEFINE target == targetName[assets[t]]
  <2>2. target \in Targets
    BY <1>3, <2>1, CollateralTyped
  <2>3. t \in Fit(target, whens) \cup Standby(target, whens)
    BY <1>2, <1>3, <1>4, <2>2, NewTokensAre DEF NewTokens
  <2>4. Good(target, t, whens)
    BY <1>3, <2>2, <2>3, FitIsGood
  <2> QED
    BY <1>2, <2>1, <2>4 DEF Good, IsColl
<1>5. ASSUME NEW target \in Targets
      PROVE  LET tokens == {t \in InBasket' : targetName[assets[t]] = target}
                 weight == SumFunction(
                             [t \in tokens |-> refAmts'[t] * targetPerRef[assets[t]]])
                 slack == SumFunction([t \in tokens |-> 2 * targetPerRef[assets[t]]])
                 wanted == WeightOf(Prime(target)) * FIX_ONE
             IN  wanted <= weight /\ weight <= wanted + slack
  <2> DEFINE tokens == {t \in InBasket' : targetName[assets[t]] = target}
  <2>1. tokens = NewTokens(target, whens)
    BY <1>2 DEF InBasket, NewTokens
  <2>2. Unsound(target, whens) # {} => BackupsFor(target, whens) # {}
    BY <1>2 DEF NoBasket
  <2>3. [t \in tokens |-> refAmts'[t] * targetPerRef[assets[t]]] = NewWorth(target, whens)
    BY <1>2, <2>1 DEF NewWorth, PerRef
  <2>4. [t \in tokens |-> 2 * targetPerRef[assets[t]]]
          = [t \in NewTokens(target, whens) |-> 2 * PerRef(t)]
    BY <2>1 DEF PerRef
  <2> QED
    BY <1>3, <2>2, <2>3, <2>4, NewWeights
<1> QED
  BY <1>4, <1>5

\* Every basket that refreshBasket() switches to holds good collateral only, and for each
\* target its weight is the configured one, rounded up by less than one unit of each token
\* as prime and one as backup collateral: for all prices, amounts and backup lists.
THEOREM BasketWeightsKept == Spec => WeightsKept
<1> DEFINE Kept ==
      nonce' # nonce =>
       /\ \A t \in Tokens :
            refAmts'[t] > 0 =>
              IsColl(t)' /\ StatusAt(whenDefault[assets[t]], now)' # "DISABLED"
       /\ \A target \in Targets :
            LET tokens == {t \in InBasket' : targetName[assets[t]] = target}
                weight == SumFunction(
                            [t \in tokens |-> refAmts'[t] * targetPerRef[assets[t]]])
                slack == SumFunction([t \in tokens |-> 2 * targetPerRef[assets[t]]])
                wanted == WeightOf(Prime(target)) * FIX_ONE
            IN  wanted <= weight /\ weight <= wanted + slack
<1>1. TInv /\ [Next]_vars => [Kept]_vars
  BY SwitchKeepsWeights
<1> QED
  BY <1>1, BasketTypes, PTL DEF Spec, WeightsKept
=============================================================================
