----------------------------- MODULE AuthProofs ------------------------------
(***************************************************************************)
(* Proofs about Auth, for any set of accounts, number of charges, limits   *)
(* and durations.  The inductive invariant is the conjunction of the       *)
(* three: a long freezer keeps its role only while charges are left, which *)
(* with TypeOK is why the charges stay in their range.                     *)
(***************************************************************************)
EXTENDS Auth, ArithmeticProofs

IInv == TypeOK /\ LongFreezersCharged /\ FreezeBounded

\* Main starts with charged freezers and without a freeze.
LEMMA InitIInv == Init => IInv
<1> SUFFICES ASSUME Init PROVE IInv
  OBVIOUS
<1> USE DEF Init
<1>1. TypeOK
  <2>1. LONG_FREEZE_CHARGES \in 0..LONG_FREEZE_CHARGES
        /\ 0 \in 0..LONG_FREEZE_CHARGES
    BY ParamAssumption
  <2>2. longFreezes \in [Accounts -> 0..LONG_FREEZE_CHARGES]
    BY <2>1
  <2>3. roles \in [Roles -> SUBSET Accounts]
    OBVIOUS
  <2>4. unfreezeAt \in 0..MAX_UNFREEZE_AT /\ now \in 0..MaxTime
    BY TimeAssumption
  <2> QED
    BY <2>2, <2>3, <2>4 DEF TypeOK
<1>2. LongFreezersCharged
  BY ParamAssumption DEF LongFreezersCharged, Roles
<1>3. FreezeBounded
  BY TimeAssumption DEF FreezeBounded
<1> QED
  BY <1>1, <1>2, <1>3 DEF IInv

\* Granting a role charges a long freezer and freezes nothing.
LEMMA GrantRoleIInv ==
  ASSUME IInv, NEW sender \in Accounts, NEW account \in Accounts,
         NEW role \in Roles, GrantRole(sender, role, account)
  PROVE  IInv'
<1> USE DEF IInv, GrantRole, params
<1>1. LONG_FREEZE_CHARGES \in 1..LONG_FREEZE_CHARGES
  BY ParamAssumption
<1>2. TypeOK'
  BY <1>1 DEF TypeOK, Roles
<1>3. LongFreezersCharged'
  <2>1. CASE role = "LONG_FREEZER"
    BY <2>1, <1>1 DEF TypeOK, LongFreezersCharged, Roles
  <2>2. CASE role # "LONG_FREEZER"
    BY <2>2 DEF TypeOK, LongFreezersCharged, Roles
  <2> QED
    BY <2>1, <2>2
<1>4. FreezeBounded'
  BY DEF FreezeBounded
<1> QED
  BY <1>2, <1>3, <1>4

\* Revoking a role leaves fewer freezers, with the charges they had.
LEMMA RevokeRoleIInv ==
  ASSUME IInv, NEW sender \in Accounts, NEW account \in Accounts,
         NEW role \in Roles, RevokeRole(sender, role, account)
  PROVE  IInv'
<1> USE DEF IInv, RevokeRole, params, freezeVars
<1>1. TypeOK'
  BY DEF TypeOK, Roles
<1>2. LongFreezersCharged'
  <2>1. roles'["LONG_FREEZER"] \subseteq roles["LONG_FREEZER"]
    BY DEF TypeOK, Roles
  <2> QED
    BY <2>1 DEF LongFreezersCharged
<1>3. FreezeBounded'
  BY DEF FreezeBounded
<1> QED
  BY <1>1, <1>2, <1>3

\* A short freeze ends within MAX_SHORT_FREEZE.
LEMMA FreezeShortIInv ==
  ASSUME IInv, NEW sender \in Accounts, FreezeShort(sender)
  PROVE  IInv'
<1> USE DEF IInv, FreezeShort, FreezeUntil, params
<1>1. shortFreeze \in Nat /\ shortFreeze <= MAX_SHORT_FREEZE
      /\ now \in Nat /\ now <= MaxTime
  BY TimeAssumption, ParamAssumption DEF TypeOK
<1>2. /\ unfreezeAt' = now + shortFreeze
      /\ unfreezeAt' <= now + MAX_LONG_FREEZE
      /\ unfreezeAt' \in 0..MAX_UNFREEZE_AT
  BY <1>1, TimeAssumption
<1>3. TypeOK'
  BY <1>2 DEF TypeOK, Roles
<1>4. LongFreezersCharged'
  BY DEF TypeOK, LongFreezersCharged, Roles
<1>5. FreezeBounded'
  BY <1>2 DEF FreezeBounded
<1> QED
  BY <1>3, <1>4, <1>5

\* A long freeze ends within MAX_LONG_FREEZE, and whoever used the last charge
\* is a long freezer no more.
LEMMA FreezeLongIInv ==
  ASSUME IInv, NEW sender \in Accounts, FreezeLong(sender)
  PROVE  IInv'
<1> USE DEF IInv, FreezeLong, FreezeUntil, LongFreezeEnd, LastCharge, params
<1>1. longFreeze \in Nat /\ longFreeze <= MAX_LONG_FREEZE
      /\ now \in Nat /\ now <= MaxTime
  BY TimeAssumption, ParamAssumption DEF TypeOK
<1>2. /\ unfreezeAt' <= now + MAX_LONG_FREEZE
      /\ unfreezeAt' \in 0..MAX_UNFREEZE_AT
  BY <1>1, TimeAssumption
<1>3. /\ longFreezes[sender] \in 1..LONG_FREEZE_CHARGES
      /\ longFreezes[sender] - 1 \in 0..LONG_FREEZE_CHARGES
  BY ParamAssumption DEF TypeOK
<1>4. TypeOK'
  BY <1>2, <1>3 DEF TypeOK, Roles
<1>5. LongFreezersCharged'
  <2> SUFFICES ASSUME NEW a \in roles'["LONG_FREEZER"]
               PROVE  longFreezes'[a] > 0
    BY DEF LongFreezersCharged
  <2>1. a \in Accounts /\ a \in roles["LONG_FREEZER"]
    BY DEF TypeOK, Roles
  <2>2. CASE a # sender
    BY <2>1, <2>2 DEF TypeOK, LongFreezersCharged
  <2>3. CASE a = sender
    <3>1. longFreezes[sender] - 1 # 0
      BY <2>3 DEF TypeOK, Roles
    <3> QED
      BY <2>3, <3>1, <1>3 DEF TypeOK
  <2> QED
    BY <2>2, <2>3
<1>6. FreezeBounded'
  BY <1>2 DEF FreezeBounded
<1> QED
  BY <1>4, <1>5, <1>6

\* Every step preserves the invariant.
LEMMA NextIInv == IInv /\ [Next]_vars => IInv'
<1> SUFFICES ASSUME IInv, [Next]_vars PROVE IInv'
  OBVIOUS
<1> DEFINE RoleUnchanged == UNCHANGED <<roles, longFreezes>>
<1>1. ASSUME RoleUnchanged, UNCHANGED <<params, paused, now>>,
             \/ unfreezeAt' = MAX_UNFREEZE_AT
             \/ unfreezeAt' = now
      PROVE  IInv'
  BY <1>1, TimeAssumption DEF IInv, TypeOK, LongFreezersCharged, FreezeBounded, params
<1>2. ASSUME NEW sender \in Accounts, FreezeForever(sender) \/ Unfreeze(sender)
      PROVE  IInv'
  BY <1>1, <1>2 DEF FreezeForever, FreezeUntil, Unfreeze
<1>3. ASSUME NEW sender \in Accounts, NEW status \in BOOLEAN,
             SetPaused(sender, status)
      PROVE  IInv'
  BY <1>3 DEF IInv, TypeOK, LongFreezersCharged, FreezeBounded, SetPaused,
              freezeVars, params
<1>4. ASSUME NEW sender \in Accounts, NEW duration \in ShortFreezes,
             SetShortFreeze(sender, duration)
      PROVE  IInv'
  BY <1>4 DEF IInv, TypeOK, LongFreezersCharged, FreezeBounded, SetShortFreeze,
              freezeVars
<1>5. ASSUME NEW sender \in Accounts, NEW duration \in LongFreezes,
             SetLongFreeze(sender, duration)
      PROVE  IInv'
  BY <1>5 DEF IInv, TypeOK, LongFreezersCharged, FreezeBounded, SetLongFreeze,
              freezeVars
<1>6. ASSUME Tick PROVE IInv'
  BY <1>6, TimeAssumption
     DEF IInv, TypeOK, LongFreezersCharged, FreezeBounded, Tick, freezeVars, params
<1>7. ASSUME UNCHANGED vars PROVE IInv'
  BY <1>7 DEF IInv, TypeOK, LongFreezersCharged, FreezeBounded, vars,
              freezeVars, params
<1> QED
  BY <1>2, <1>3, <1>4, <1>5, <1>6, <1>7, GrantRoleIInv, RevokeRoleIInv,
     FreezeShortIInv, FreezeLongIInv DEF Next

\* The invariant holds of every behaviour of Main's access control.
THEOREM AuthInvariance == Spec => []IInv
BY InitIInv, NextIInv, PTL DEF Spec

\* Every field keeps its type, the charges of long freezers among them.
THEOREM AuthTypeCorrect == Spec => []TypeOK
BY AuthInvariance, PTL DEF IInv

\* freezeLong() never fails for want of a charge.
THEOREM FreezersCharged == Spec => []LongFreezersCharged
BY AuthInvariance, PTL DEF IInv

\* Unless the owner froze the system for ever, it thaws by itself within the
\* longest freeze that governance may allow.
THEOREM FreezesBounded == Spec => []FreezeBounded
BY AuthInvariance, PTL DEF IInv

-----------------------------------------------------------------------------
(* What is left to freeze *)

TimeLeft == IF Frozen THEN unfreezeAt - now ELSE 0
ShortFreezers == Cardinality(roles["SHORT_FREEZER"])
AllCharges == SumFunction([a \in Accounts |-> Charges(a)])

\* The budget is the sum of its three parts.
LEMMA BudgetIs ==
  /\ FreezeBudget = TimeLeft + shortFreeze * ShortFreezers + longFreeze * AllCharges
  /\ FreezeBudget' = TimeLeft' + shortFreeze' * ShortFreezers' + longFreeze' * AllCharges'
  BY DEF FreezeBudget, TimeLeft, ShortFreezers, AllCharges

BudgetTyped ==
  /\ TimeLeft \in Nat /\ ShortFreezers \in Nat /\ AllCharges \in Nat
  /\ shortFreeze \in Nat /\ longFreeze \in Nat
  /\ [a \in Accounts |-> Charges(a)] \in [Accounts -> Nat]

\* The parts of the budget are numbers.
LEMMA BudgetType == TypeOK => BudgetTyped
<1> SUFFICES ASSUME TypeOK PROVE BudgetTyped
  OBVIOUS
<1> DEFINE f == [a \in Accounts |-> Charges(a)]
<1>1. f \in [Accounts -> Nat]
  <2>1. ASSUME NEW a \in Accounts PROVE Charges(a) \in Nat
    BY ParamAssumption DEF TypeOK, Charges
  <2> QED
    BY <2>1
<1>2. AllCharges \in Nat
  <2>1. f \in [Accounts -> Int]
    BY <1>1
  <2> HIDE DEF f
  <2>2. SumFunction(f) \in Nat
    BY <1>1, <2>1, AccountAssumption, SumType
  <2> QED
    BY <2>2 DEF AllCharges, f
<1>3. ShortFreezers \in Nat
  <2>1. roles["SHORT_FREEZER"] \subseteq Accounts
    BY DEF TypeOK, Roles
  <2>2. IsFiniteSet(roles["SHORT_FREEZER"])
    BY <2>1, AccountAssumption, FS_Subset
  <2> QED
    BY <2>2, FS_CardinalityType DEF ShortFreezers
<1>4. TimeLeft \in Nat
  BY TimeAssumption DEF TypeOK, TimeLeft, Frozen
<1>5. shortFreeze \in Nat /\ longFreeze \in Nat
  BY ParamAssumption, TimeAssumption DEF TypeOK
<1> QED
  BY <1>1, <1>2, <1>3, <1>4, <1>5 DEF BudgetTyped

\* Also after a step.
LEMMA BudgetTypeNext == TypeOK' => BudgetTyped'
BY BudgetType, PTL

\* No part of the budget grows when no role and no charge is added and no time either.
LEMMA FewerFreezers ==
  ASSUME TypeOK, TypeOK', \A role \in Roles : roles'[role] \subseteq roles[role],
         \A a \in Accounts : longFreezes'[a] <= longFreezes[a]
  PROVE  ShortFreezers' <= ShortFreezers /\ AllCharges' <= AllCharges
<1>1. ShortFreezers' <= ShortFreezers
  <2>1. /\ roles'["SHORT_FREEZER"] \subseteq roles["SHORT_FREEZER"]
        /\ roles["SHORT_FREEZER"] \subseteq Accounts
    BY DEF TypeOK, Roles
  <2>2. IsFiniteSet(roles["SHORT_FREEZER"])
    BY <2>1, AccountAssumption, FS_Subset
  <2> QED
    BY <2>1, <2>2, FS_Subset DEF ShortFreezers
<1>2. AllCharges' <= AllCharges
  <2> DEFINE f == [a \in Accounts |-> Charges(a)]
             g == [a \in Accounts |-> Charges(a)']
  <2>1. f \in [Accounts -> Nat] /\ g \in [Accounts -> Nat]
    BY BudgetType, BudgetTypeNext DEF BudgetTyped
  <2>2. f \in [Accounts -> Int] /\ g \in [Accounts -> Int]
    BY <2>1
  <2>3. ASSUME NEW a \in Accounts PROVE g[a] <= f[a]
    <3>1. roles'["LONG_FREEZER"] \subseteq roles["LONG_FREEZER"]
      BY DEF Roles
    <3>2. longFreezes[a] \in Nat /\ longFreezes'[a] \in Nat /\ longFreezes'[a] <= longFreezes[a]
      BY ParamAssumption DEF TypeOK
    <3> QED
      BY <3>1, <3>2 DEF Charges, Has
  <2>4. AllCharges = SumFunction(f) /\ AllCharges' = SumFunction(g)
    BY DEF AllCharges
  <2> HIDE DEF f, g
  <2>5. SumFunction(g) <= SumFunction(f)
    BY <2>2, <2>3, AccountAssumption, SumMono
  <2> QED
    BY <2>4, <2>5
<1> QED
  BY <1>1, <1>2

\* Spending one of n short freezes, or one of m long ones, pays for its length.
LEMMA BudgetSum ==
  ASSUME NEW t \in Nat, NEW t2 \in Nat, NEW s \in Nat, NEW n \in Nat, NEW n2 \in Nat,
         NEW l \in Nat, NEW m \in Nat, NEW m2 \in Nat,
         \/ t2 <= t /\ n2 <= n /\ m2 <= m
         \/ t2 <= s /\ n = n2 + 1 /\ m2 <= m
         \/ t2 <= l /\ n2 <= n /\ m = m2 + 1
  PROVE  t2 + s * n2 + l * m2 <= t + s * n + l * m
<1>1. /\ \A x, y, z \in Nat : x <= y => z * x <= z * y
      /\ \A x, y \in Nat : x * (y + 1) = x * y + x
      /\ \A x, y \in Nat : x * y \in Nat
  BY ProductMono
<1>2. s * n2 \in Nat /\ l * m2 \in Nat /\ s * n \in Nat /\ l * m \in Nat
  BY <1>1
<1>3. n2 <= n => s * n2 <= s * n
  BY <1>1
<1>4. m2 <= m => l * m2 <= l * m
  BY <1>1
<1>5. n = n2 + 1 => s * n = s * n2 + s
  BY <1>1
<1>6. m = m2 + 1 => l * m = l * m2 + l
  BY <1>1
<1> DEFINE a == s * n2  b == l * m2  c == s * n  d == l * m
<1>7. /\ a \in Nat /\ b \in Nat /\ c \in Nat /\ d \in Nat
      /\ n2 <= n => a <= c
      /\ m2 <= m => b <= d
      /\ n = n2 + 1 => c = a + s
      /\ m = m2 + 1 => d = b + l
  BY <1>2, <1>3, <1>4, <1>5, <1>6
<1> HIDE DEF a, b, c, d
<1>8. t2 + a + b <= t + c + d
  BY <1>7
<1> QED
  BY <1>8 DEF a, b, c, d

\* A freeze costs at least the time it lasts.
LEMMA BudgetShrinks ==
  ASSUME TypeOK, TypeOK', UNCHANGED params,
         \/ TimeLeft' <= TimeLeft /\ ShortFreezers' <= ShortFreezers /\ AllCharges' <= AllCharges
         \/ TimeLeft' <= shortFreeze /\ ShortFreezers = ShortFreezers' + 1
              /\ AllCharges' <= AllCharges
         \/ TimeLeft' <= longFreeze /\ ShortFreezers' <= ShortFreezers
              /\ AllCharges = AllCharges' + 1
  PROVE  FreezeBudget' <= FreezeBudget
<1> DEFINE t == TimeLeft  n == ShortFreezers  m == AllCharges
           t2 == TimeLeft'  n2 == ShortFreezers'  m2 == AllCharges'
           s == shortFreeze  l == longFreeze
<1>1. /\ t \in Nat /\ n \in Nat /\ m \in Nat /\ t2 \in Nat /\ n2 \in Nat /\ m2 \in Nat
      /\ s \in Nat /\ l \in Nat
  BY BudgetType, BudgetTypeNext DEF BudgetTyped
<1>2. FreezeBudget = t + s * n + l * m /\ FreezeBudget' = t2 + s * n2 + l * m2
  BY BudgetIs DEF params
<1>3. \/ t2 <= t /\ n2 <= n /\ m2 <= m
      \/ t2 <= s /\ n = n2 + 1 /\ m2 <= m
      \/ t2 <= l /\ n2 <= n /\ m = m2 + 1
  OBVIOUS
<1> HIDE DEF t, n, m, t2, n2, m2, s, l
<1>4. t2 + s * n2 + l * m2 <= t + s * n + l * m
  BY <1>1, <1>3, BudgetSum
<1> QED
  BY <1>2, <1>4

\* freezeShort() pays with the caller's role.
LEMMA FreezeShortSpends ==
  ASSUME TypeOK, TypeOK', NEW sender \in Accounts, FreezeShort(sender)
  PROVE  FreezeBudget' <= FreezeBudget
<1>1. /\ sender \in roles["SHORT_FREEZER"] /\ roles["SHORT_FREEZER"] \subseteq Accounts
      /\ roles' = [roles EXCEPT !["SHORT_FREEZER"] = @ \ {sender}]
      /\ unfreezeAt' = now + shortFreeze /\ UNCHANGED <<longFreezes, params, now>>
  BY DEF FreezeShort, FreezeUntil, Has, TypeOK, Roles
<1>2. TimeLeft' <= shortFreeze
  BY <1>1, ParamAssumption, TimeAssumption DEF TimeLeft, Frozen, TypeOK
<1>3. ShortFreezers = ShortFreezers' + 1
  <2>1. roles'["SHORT_FREEZER"] = roles["SHORT_FREEZER"] \ {sender}
    BY <1>1 DEF TypeOK, Roles
  <2>2. IsFiniteSet(roles["SHORT_FREEZER"])
    BY <1>1, AccountAssumption, FS_Subset
  <2>3. Cardinality(roles'["SHORT_FREEZER"]) = Cardinality(roles["SHORT_FREEZER"]) - 1
        /\ Cardinality(roles["SHORT_FREEZER"]) \in Nat
    BY <1>1, <2>1, <2>2, FS_RemoveElement, FS_CardinalityType
  <2> QED
    BY <2>3 DEF ShortFreezers
<1>4. AllCharges' <= AllCharges
  <2>1. \A role \in Roles : roles'[role] \subseteq roles[role]
    BY <1>1 DEF TypeOK
  <2>2. \A a \in Accounts : longFreezes'[a] <= longFreezes[a]
    BY <1>1, ParamAssumption DEF TypeOK
  <2> QED
    BY <2>1, <2>2, FewerFreezers
<1> QED
  BY <1>1, <1>2, <1>3, <1>4, BudgetShrinks

\* freezeLong() pays with one of the caller's charges.
LEMMA FreezeLongSpends ==
  ASSUME TypeOK, TypeOK', NEW sender \in Accounts, FreezeLong(sender)
  PROVE  FreezeBudget' <= FreezeBudget
<1>1. /\ sender \in roles["LONG_FREEZER"] /\ longFreezes[sender] > 0
      /\ longFreezes' = [longFreezes EXCEPT ![sender] = @ - 1]
      /\ roles' = IF longFreezes[sender] - 1 = 0
                  THEN [roles EXCEPT !["LONG_FREEZER"] = @ \ {sender}] ELSE roles
      /\ unfreezeAt' = now + longFreeze /\ UNCHANGED <<params, now>>
  BY DEF FreezeLong, FreezeUntil, LongFreezeEnd, LastCharge, Has
<1>2. TimeLeft' <= longFreeze
  BY <1>1, ParamAssumption, TimeAssumption DEF TimeLeft, Frozen, TypeOK
<1>3. ShortFreezers' <= ShortFreezers
  <2>1. roles'["SHORT_FREEZER"] = roles["SHORT_FREEZER"]
    BY <1>1 DEF TypeOK, Roles
  <2> QED
    BY <2>1, BudgetType DEF BudgetTyped, ShortFreezers
<1>4. AllCharges = AllCharges' + 1
  <2> DEFINE f == [a \in Accounts |-> Charges(a)]
             g == [a \in Accounts |-> Charges(a)']
  <2>1. f \in [Accounts -> Nat] /\ g \in [Accounts -> Nat]
    BY BudgetType, BudgetTypeNext DEF BudgetTyped
  <2>2. f \in [Accounts -> Int] /\ g \in [Accounts -> Int]
    BY <2>1
  <2>3. longFreezes[sender] \in Nat
    BY ParamAssumption DEF TypeOK
  <2>4. \A a \in Accounts \ {sender} : f[a] = g[a]
    BY <1>1 DEF Charges, Has, TypeOK, Roles
  <2>5. g[sender] - f[sender] = -1
    <3>1. f[sender] = longFreezes[sender]
      BY <1>1 DEF Charges, Has
    <3>2. longFreezes'[sender] = longFreezes[sender] - 1
      BY <1>1 DEF TypeOK
    <3>3. CASE longFreezes[sender] - 1 = 0
      <4>1. sender \notin roles'["LONG_FREEZER"]
        BY <1>1, <3>3 DEF TypeOK, Roles
      <4> QED
        BY <2>3, <3>1, <3>3, <4>1 DEF Charges, Has
    <3>4. CASE longFreezes[sender] - 1 /= 0
      <4>1. sender \in roles'["LONG_FREEZER"]
        BY <1>1, <3>4
      <4> QED
        BY <2>3, <3>1, <3>2, <4>1 DEF Charges, Has
    <3> QED
      BY <3>3, <3>4
  <2>6. AllCharges = SumFunction(f) /\ AllCharges' = SumFunction(g)
    BY DEF AllCharges
  <2> HIDE DEF f, g
  <2>7. SumFunction(g) = SumFunction(f) + (g[sender] - f[sender])
    BY <2>2, <2>4, AccountAssumption, SumChange
  <2> QED
    BY <2>5, <2>6, <2>7, BudgetType DEF BudgetTyped
<1> QED
  BY <1>1, <1>2, <1>3, <1>4, BudgetShrinks

\* Whatever else a step does leaves the budget as it is or lowers it.
LEMMA NextSpends ==
  ASSUME IInv, [Next]_vars, \A role \in Roles : roles'[role] \subseteq roles[role],
         \A a \in Accounts : longFreezes'[a] <= longFreezes[a],
         UNCHANGED params, unfreezeAt' # MAX_UNFREEZE_AT
  PROVE  FreezeBudget' <= FreezeBudget
<1>0. TypeOK /\ TypeOK'
  BY NextIInv DEF IInv
<1>1. ASSUME TimeLeft' <= TimeLeft PROVE FreezeBudget' <= FreezeBudget
  BY <1>0, <1>1, FewerFreezers, BudgetShrinks
<1>2. ASSUME UNCHANGED <<unfreezeAt, now>> PROVE FreezeBudget' <= FreezeBudget
  <2>1. TimeLeft' = TimeLeft /\ TimeLeft \in Int
    BY <1>0, <1>2, BudgetType DEF BudgetTyped, TimeLeft, Frozen
  <2> QED
    BY <1>1, <2>1
<1>3. ASSUME NEW sender \in Accounts, FreezeShort(sender) PROVE FreezeBudget' <= FreezeBudget
  BY <1>0, <1>3, FreezeShortSpends
<1>4. ASSUME NEW sender \in Accounts, FreezeLong(sender) PROVE FreezeBudget' <= FreezeBudget
  BY <1>0, <1>4, FreezeLongSpends
<1>5. ASSUME NEW sender \in Accounts, FreezeForever(sender) PROVE FALSE
  BY <1>5 DEF FreezeForever, FreezeUntil
<1>6. ASSUME NEW sender \in Accounts, Unfreeze(sender) PROVE FreezeBudget' <= FreezeBudget
  <2>1. TimeLeft' = 0
    BY <1>0, <1>6 DEF Unfreeze, TimeLeft, Frozen, TypeOK
  <2> QED
    BY <1>0, <1>1, <2>1, BudgetType DEF BudgetTyped
<1>7. ASSUME Tick PROVE FreezeBudget' <= FreezeBudget
  <2>1. TimeLeft' <= TimeLeft
    BY <1>0, <1>7, TimeAssumption DEF Tick, freezeVars, TimeLeft, Frozen, TypeOK
  <2> QED
    BY <1>1, <2>1
<1>8. CASE \/ \E sender, account \in Accounts, role \in Roles :
                GrantRole(sender, role, account) \/ RevokeRole(sender, role, account)
           \/ \E sender \in Accounts :
                \/ \E status \in BOOLEAN : SetPaused(sender, status)
                \/ \E duration \in ShortFreezes : SetShortFreeze(sender, duration)
                \/ \E duration \in LongFreezes : SetLongFreeze(sender, duration)
           \/ UNCHANGED vars
  BY <1>2, <1>8 DEF GrantRole, RevokeRole, SetPaused, SetShortFreeze, SetLongFreeze, vars,
                    freezeVars
<1> QED
  BY <1>3, <1>4, <1>5, <1>6, <1>7, <1>8 DEF Next

\* Without the owner's granting, recharging or lengthening, the time that all freezers
\* together can keep the system frozen never grows (freezeShort(), freezeLong()).
THEOREM FreezesAreSpent == Spec => FreezesRunOut
<1>1. IInv /\ [Next]_vars =>
        [(/\ \A role \in Roles : roles'[role] \subseteq roles[role]
          /\ \A a \in Accounts : longFreezes'[a] <= longFreezes[a]
          /\ UNCHANGED params /\ unfreezeAt' # MAX_UNFREEZE_AT)
         => FreezeBudget' <= FreezeBudget]_vars
  BY NextSpends
<1> QED
  BY <1>1, AuthInvariance, PTL DEF Spec, FreezesRunOut
=============================================================================
