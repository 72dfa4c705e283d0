---------------------------- MODULE StRSRProofs -----------------------------
(***************************************************************************)
(* Proofs about StRSR, for any set of accounts, scale, rate limit,         *)
(* parameters and bounds.                                                  *)
(*                                                                         *)
(* The inductive invariant is the conjunction of the type invariant and of *)
(* the four invariants about the pools and the draft queues.  They need    *)
(* each other: a payout keeps the rate within bounds because the pool      *)
(* covered its shares before, a seizure leaves the contract solvent        *)
(* because it was, and a rate stays positive because no pool has RSR       *)
(* without shares.                                                         *)
(***************************************************************************)
EXTENDS StRSR, ArithmeticProofs

(***************************************************************************)
(* The inductive invariant                                                 *)
(***************************************************************************)

IInv == TypeOK /\ Solvent /\ RatesCover /\ RatesBounded /\ QueuesOrdered

\* What the stake pool's fields satisfy before and after a payout.
PoolOK(pool) ==
  /\ pool.stakeRSR \in Nat /\ pool.stakeRate \in Nat
  /\ pool.lastPaid \in 0..now /\ pool.rewards \in Nat
  /\ stakeRSR <= pool.stakeRSR
  /\ pool.stakeRSR + draftRSR <= rsrBalance
  /\ totalStakes * FIX_ONE <= pool.stakeRSR * pool.stakeRate
  /\ 0 < pool.stakeRate /\ pool.stakeRate <= MAX_RATE
  /\ totalStakes > 0 => pool.stakeRate <= stakeRate

\* The pool as it is.
LEMMA PoolIsOK == ASSUME IInv PROVE PoolOK(Pool)
  BY DEF IInv, TypeOK, Solvent, RatesCover, RatesBounded, PoolOK, Pool

\* The amounts of a payout are numbers, and it covers whole periods up to now.
LEMMA PayoutTypes ==
  ASSUME IInv, PayoutDue
  PROVE  /\ NumPeriods \in 0..MaxTime
         /\ payoutLastPaid + NumPeriods * rewardPeriod \in 0..now
         /\ PayoutRatio \in 0..FIX_ONE
         /\ Payout \in Nat
<1> USE ScaleAssumption, ParamAssumption, BoundAssumption
<1>1. /\ now \in 0..MaxTime /\ payoutLastPaid \in 0..now
      /\ rewardPeriod \in Nat \ {0} /\ rewardRatio \in 0..FIX_ONE
      /\ rsrRewardsAtLastPayout \in Nat
  BY DEF IInv, TypeOK
<1>2. /\ NumPeriods \in Nat /\ rewardPeriod * NumPeriods <= now - payoutLastPaid
  BY <1>1, FloorBounds DEF NumPeriods
<1>3. NumPeriods <= rewardPeriod * NumPeriods
  BY <1>1, <1>2
<1>4. NumPeriods \in 0..MaxTime
  BY <1>1, <1>2, <1>3
<1>5. payoutLastPaid + NumPeriods * rewardPeriod \in 0..now
  BY <1>1, <1>2
<1>6. PayoutRatio \in 0..FIX_ONE
  <2>1. FIX_ONE - rewardRatio \in 0..FIX_ONE
    BY <1>1
  <2> DEFINE one == FIX_ONE
             x == FIX_ONE - rewardRatio
  <2>2. FixPowU(one, x, NumPeriods) \in 0..one
    <3>1. one \in Nat \ {0} /\ x \in 0..one /\ NumPeriods \in Nat
      BY <1>4, <2>1
    <3> HIDE DEF one, x
    <3> QED
      BY <3>1, PowerOfFraction
  <2> QED
    BY <2>2 DEF PayoutRatio
<1>7. Payout \in Nat
  <2>1. PayoutRatio * rsrRewardsAtLastPayout \in Nat
    BY <1>1, <1>6
  <2> QED
    BY <2>1, FloorBounds DEF Payout
<1> QED
  BY <1>4, <1>5, <1>6, <1>7

\* The pool after a payout that does not revert.
LEMMA PaidOutIsOK == ASSUME IInv, ~PayoutReverts PROVE PoolOK(PaidOut)
<1> USE ScaleAssumption, ParamAssumption, BoundAssumption
<1>1. CASE ~PayoutDue
  BY <1>1, PoolIsOK DEF PaidOut
<1>2. CASE PayoutDue
  <2> DEFINE rsr == stakeRSR + Payout
             rate == IF rsr = 0 \/ totalStakes = 0 THEN FIX_ONE
                     ELSE CeilDiv(totalStakes * FIX_ONE, rsr)
  <2>1. PaidOut = [stakeRSR |-> rsr, stakeRate |-> rate,
                   lastPaid |-> payoutLastPaid + NumPeriods * rewardPeriod,
                   rewards |-> RsrRewards - Payout]
    BY <1>2 DEF PaidOut
  <2>2. /\ totalStakes \in Nat /\ stakeRSR \in Nat /\ draftRSR \in Nat
        /\ stakeRate \in Nat /\ rsrBalance \in Nat
        /\ Payout \in Nat
        /\ payoutLastPaid + NumPeriods * rewardPeriod \in 0..now
    BY <1>2, PayoutTypes DEF IInv, TypeOK
  <2>3. rsr + draftRSR <= rsrBalance /\ RsrRewards - Payout \in Nat
    BY <1>2, <2>2 DEF PayoutReverts, RsrRewards, IInv, Solvent
  <2>4. /\ totalStakes * FIX_ONE <= stakeRSR * stakeRate
        /\ 0 < stakeRate /\ stakeRate <= MAX_RATE
    BY DEF IInv, RatesCover, RatesBounded
  <2>5. /\ rate \in Nat /\ 0 < rate /\ rate <= MAX_RATE
        /\ totalStakes * FIX_ONE <= rsr * rate
        /\ totalStakes > 0 => rate <= stakeRate
    <3>1. CASE totalStakes = 0
      BY <2>2, <3>1
    <3>2. CASE totalStakes > 0
      <4>1. totalStakes * FIX_ONE \in Nat /\ 0 < totalStakes * FIX_ONE
        BY <2>2, <3>2
      <4>2. stakeRSR * stakeRate <= rsr * stakeRate
        BY <2>2, ProductMono
      <4>3. totalStakes * FIX_ONE <= rsr * stakeRate
        BY <2>2, <2>4, <4>1, <4>2
      <4>4. rsr \in Nat \ {0}
        BY <2>2, <4>1, <4>3
      <4>5. rate = CeilDiv(totalStakes * FIX_ONE, rsr)
        BY <3>2, <4>4
      <4> HIDE DEF rsr, rate
      <4>6. rate \in Nat /\ totalStakes * FIX_ONE <= rsr * rate
        BY <4>1, <4>4, <4>5, CeilBounds
      <4>7. rate <= stakeRate
        BY <2>2, <4>1, <4>3, <4>4, <4>5, CeilLeast
      <4>8. 0 < rate
        BY <4>1, <4>4, <4>6
      <4> QED
        BY <2>2, <2>4, <4>6, <4>7, <4>8
    <3> QED
      BY <2>2, <3>1, <3>2
  <2> HIDE DEF rate
  <2> QED
    BY <2>1, <2>2, <2>3, <2>5 DEF PoolOK
<1> QED
  BY <1>1, <1>2

(***************************************************************************)
(* Steps                                                                   *)
(***************************************************************************)

\* init() establishes the inductive invariant.
LEMMA InitInv == ASSUME Init PROVE IInv
<1> USE ScaleAssumption, ParamAssumption, BoundAssumption
<1>1. TypeOK
  BY DEF Init, TypeOK, NoStakes, NoDrafts
<1>2. QueuesOrdered
  BY DEF Init, QueuesOrdered, NoDrafts
<1>3. Solvent /\ RatesCover /\ RatesBounded
  BY DEF Init, Solvent, RatesCover, RatesBounded
<1> QED
  BY <1>1, <1>2, <1>3 DEF IInv

\* payoutRewards() keeps it.
LEMMA PayoutRewardsInv == ASSUME IInv, PayoutRewards PROVE IInv'
<1>1. PoolOK(PaidOut)
  BY PaidOutIsOK DEF PayoutRewards
<1>2. TypeOK'
  BY <1>1 DEF IInv, TypeOK, PayoutRewards, PoolOK, SetPayoutVars, environment,
              draftPool, params
<1>3. QueuesOrdered'
  BY DEF IInv, QueuesOrdered, PayoutRewards, draftPool
<1>4. Solvent' /\ RatesCover' /\ RatesBounded'
  BY <1>1 DEF IInv, TypeOK, Solvent, RatesCover, RatesBounded, PayoutRewards,
              PoolOK, draftPool
<1> QED
  BY <1>2, <1>3, <1>4 DEF IInv

\* stake() and unstake() start from the pool as it is or as a payout leaves it.
LEMMA StakeInv ==
  ASSUME IInv, NEW account \in Accounts, NEW amount \in Nat,
         Stake(account, amount)
  PROVE  IInv'
<1> USE ScaleAssumption, ParamAssumption, BoundAssumption
<1> DEFINE pool == IF pausedOrFrozen THEN Pool ELSE PaidOut
           newStakeRSR == pool.stakeRSR + amount
           newTotalStakes == (pool.stakeRate * newStakeRSR) \div FIX_ONE
<1>1. PoolOK(pool)
  BY PoolIsOK, PaidOutIsOK DEF Stake
<1>2. /\ newTotalStakes >= totalStakes
      /\ stakeRSR' = newStakeRSR /\ stakeRate' = pool.stakeRate
      /\ totalStakes' = newTotalStakes
      /\ stakes' = [stakes EXCEPT ![account] = @ + (newTotalStakes - totalStakes)]
      /\ SetPayoutVars(pool)
      /\ rsrBalance + amount <= MaxRSR /\ rsrBalance' = rsrBalance + amount
      /\ UNCHANGED <<era, draftPool, params, environment>>
  BY DEF Stake
<1> HIDE DEF pool
<1>3. /\ newStakeRSR \in Nat /\ newTotalStakes \in Nat
      /\ newTotalStakes * FIX_ONE <= newStakeRSR * pool.stakeRate
  <2>1. pool.stakeRSR \in Nat /\ pool.stakeRate \in Nat
    BY <1>1 DEF PoolOK
  <2>2. newStakeRSR \in Nat /\ pool.stakeRate * newStakeRSR \in Nat
    BY <2>1
  <2> HIDE DEF newStakeRSR
  <2>3. newTotalStakes \in Nat
        /\ FIX_ONE * newTotalStakes <= pool.stakeRate * newStakeRSR
    BY <2>2, FloorBounds
  <2> QED
    BY <2>1, <2>2, <2>3
<1> HIDE DEF newTotalStakes
<1>4. TypeOK'
  <2>1. stakes' \in [Accounts -> Nat]
    BY <1>2, <1>3 DEF IInv, TypeOK
  <2>2. rsrBalance' \in 0..MaxRSR
    BY <1>2 DEF IInv, TypeOK
  <2>3. payoutLastPaid' \in 0..now /\ rsrRewardsAtLastPayout' \in Nat
    BY <1>1, <1>2 DEF PoolOK, SetPayoutVars
  <2>4. totalStakes' \in Nat /\ stakeRSR' \in Nat /\ stakeRate' \in Nat
    BY <1>1, <1>2, <1>3 DEF PoolOK
  <2> QED
    BY <1>2, <2>1, <2>2, <2>3, <2>4 DEF IInv, TypeOK, environment, draftPool,
       params
<1>5. QueuesOrdered'
  BY <1>2 DEF IInv, QueuesOrdered, draftPool
<1>6. Solvent'
  <2>1. pool.stakeRSR \in Nat /\ pool.stakeRSR + draftRSR <= rsrBalance
    BY <1>1 DEF PoolOK
  <2>2. draftRSR \in Nat /\ rsrBalance \in Nat
    BY DEF IInv, TypeOK
  <2>3. pool.stakeRSR + amount + draftRSR <= rsrBalance + amount
    BY <2>1, <2>2
  <2> QED
    BY <1>2, <2>3 DEF Solvent, draftPool
<1>7. RatesCover'
  BY <1>2, <1>3 DEF IInv, RatesCover, draftPool
<1>8. RatesBounded'
  BY <1>1, <1>2 DEF IInv, RatesBounded, PoolOK, draftPool
<1> QED
  BY <1>4, <1>5, <1>6, <1>7, <1>8 DEF IInv

\* A draft appended to an ordered queue leaves it ordered.
LEMMA PushKeepsOrder ==
  ASSUME IInv, NEW account \in Accounts, NEW rsrAmount \in Nat,
         PushDraft(account, rsrAmount)
  PROVE  /\ draftQueue' \in [Accounts -> Seq(Draft)]
         /\ QueuesOrdered'
<1> USE ScaleAssumption, ParamAssumption, BoundAssumption
<1> DEFINE queue == draftQueue[account]
           newTotal == (draftRate * (draftRSR + rsrAmount)) \div FIX_ONE
           draft == [drafts |-> DraftsUpTo(queue, Len(queue)) + (newTotal - totalDrafts),
                     availableAt |-> AvailableAt(queue)]
<1>1. /\ draftQueue \in [Accounts -> Seq(Draft)]
      /\ queue \in Seq(Draft) /\ now \in Nat /\ unstakingDelay \in Nat
      /\ firstRemainingDraft \in [Accounts -> Nat]
      /\ totalDrafts \in Nat /\ draftRate \in Nat /\ draftRSR \in Nat
  BY DEF IInv, TypeOK
<1>2. /\ newTotal \in Nat /\ newTotal - totalDrafts \in Nat
  <2>1. draftRate * (draftRSR + rsrAmount) \in Nat
    BY <1>1
  <2>2. newTotal \in Nat
    BY <2>1, FloorBounds
  <2> QED
    BY <1>1, <2>2 DEF PushDraft
<1>3. /\ draftQueue' = [draftQueue EXCEPT ![account] = Append(queue, draft)]
      /\ firstRemainingDraft' = firstRemainingDraft
  BY <1>1 DEF PushDraft
<1> HIDE DEF newTotal
<1>4. /\ draft \in Draft
      /\ \A i \in DOMAIN queue : /\ queue[i].drafts <= draft.drafts
                                /\ queue[i].availableAt <= draft.availableAt
  <2>1. CASE queue = <<>>
    BY <1>1, <1>2, <2>1 DEF Draft, DraftsUpTo, AvailableAt
  <2>2. CASE queue # <<>>
    <3>1. Len(queue) \in DOMAIN queue /\ queue[Len(queue)] \in Draft
      BY <1>1, <2>2
    <3>2. \A i \in DOMAIN queue :
            /\ queue[i] \in Draft
            /\ queue[i].drafts <= queue[Len(queue)].drafts
            /\ queue[i].availableAt <= queue[Len(queue)].availableAt
      <4>1. SUFFICES ASSUME NEW i \in DOMAIN queue
                     PROVE  /\ queue[i] \in Draft
                            /\ queue[i].drafts <= queue[Len(queue)].drafts
                            /\ queue[i].availableAt <= queue[Len(queue)].availableAt
        OBVIOUS
      <4>2. i < Len(queue) \/ i = Len(queue)
        BY <1>1
      <4>3. queue[i] \in Draft
        BY <1>1
      <4> QED
        BY <3>1, <4>2, <4>3 DEF IInv, QueuesOrdered, Draft
    <3>3. /\ DraftsUpTo(queue, Len(queue)) = queue[Len(queue)].drafts
          /\ AvailableAt(queue) \in Nat
          /\ queue[Len(queue)].availableAt <= AvailableAt(queue)
      BY <1>1, <2>2, <3>1 DEF DraftsUpTo, AvailableAt, Draft
    <3> QED
      BY <1>2, <3>1, <3>2, <3>3 DEF Draft
  <2> QED
    BY <2>1, <2>2
<1> HIDE DEF draft
<1>5. draftQueue' \in [Accounts -> Seq(Draft)]
  BY <1>1, <1>3, <1>4
<1>6. QueuesOrdered'
  <2>1. SUFFICES ASSUME NEW a \in Accounts
        PROVE  /\ firstRemainingDraft'[a] <= Len(draftQueue'[a])
               /\ \A i, j \in DOMAIN draftQueue'[a] : i < j =>
                    /\ draftQueue'[a][i].drafts <= draftQueue'[a][j].drafts
                    /\ draftQueue'[a][i].availableAt <= draftQueue'[a][j].availableAt
    BY DEF QueuesOrdered
  <2>2. CASE a # account
    BY <1>1, <1>3, <2>2 DEF IInv, QueuesOrdered
  <2>3. CASE a = account
    <3>1. /\ draftQueue'[a] = Append(queue, draft)
          /\ firstRemainingDraft[a] <= Len(queue)
      BY <1>1, <1>3, <2>3 DEF IInv, QueuesOrdered
    <3>2. \A i, j \in DOMAIN queue : i < j =>
            /\ queue[i].drafts <= queue[j].drafts
            /\ queue[i].availableAt <= queue[j].availableAt
      BY DEF IInv, QueuesOrdered
    <3> HIDE DEF queue
    <3>3. /\ Len(Append(queue, draft)) = Len(queue) + 1
          /\ DOMAIN Append(queue, draft) = 1 .. Len(queue) + 1
          /\ DOMAIN queue = 1 .. Len(queue) /\ Len(queue) \in Nat
          /\ \A i \in 1 .. Len(queue) : Append(queue, draft)[i] = queue[i]
          /\ Append(queue, draft)[Len(queue) + 1] = draft
      BY <1>1, <1>4
    <3>4. ASSUME NEW i \in DOMAIN Append(queue, draft),
                 NEW j \in DOMAIN Append(queue, draft), i < j
          PROVE  /\ Append(queue, draft)[i].drafts <= Append(queue, draft)[j].drafts
                 /\ Append(queue, draft)[i].availableAt
                      <= Append(queue, draft)[j].availableAt
      <4>1. CASE j = Len(queue) + 1
        BY <1>4, <3>3, <3>4, <4>1
      <4>2. CASE j # Len(queue) + 1
        BY <3>2, <3>3, <3>4, <4>2
      <4> QED
        BY <4>1, <4>2
    <3> QED
      BY <1>1, <1>3, <2>3, <3>1, <3>3, <3>4
  <2> QED
    BY <2>2, <2>3
<1> QED
  BY <1>5, <1>6

\* What a push does to the draft pool's numbers.
LEMMA PushCovers ==
  ASSUME IInv, NEW account \in Accounts, NEW rsrAmount \in Nat,
         PushDraft(account, rsrAmount)
  PROVE  /\ draftRSR' = draftRSR + rsrAmount /\ draftRate' = draftRate
         /\ totalDrafts' \in Nat
         /\ totalDrafts' * FIX_ONE <= draftRSR' * draftRate'
         /\ draftRSR' <= totalDrafts'
<1> USE ScaleAssumption
<1> DEFINE rsr == draftRSR + rsrAmount
           newTotal == (draftRate * rsr) \div FIX_ONE
<1>1. /\ draftRSR' = rsr /\ totalDrafts' = newTotal /\ draftRate' = draftRate
  BY DEF PushDraft
<1>2. /\ draftRate \in Nat /\ rsr \in Nat /\ FIX_ONE <= draftRate
  BY DEF IInv, TypeOK, RatesBounded
<1> HIDE DEF rsr
<1>3. draftRate * rsr \in Nat /\ FIX_ONE * rsr <= draftRate * rsr
  BY <1>2, ProductMono
<1>4. /\ newTotal \in Nat
      /\ FIX_ONE * newTotal <= draftRate * rsr
      /\ rsr <= newTotal
  BY <1>2, <1>3, FloorBounds, FloorGreatest
<1> HIDE DEF newTotal
<1>5. newTotal * FIX_ONE <= rsr * draftRate
  BY <1>2, <1>4
<1> QED
  BY <1>1, <1>4, <1>5 DEF rsr

\* unstake() keeps it: what the stake pool gives up is what the draft pool gets.
LEMMA UnstakeInv ==
  ASSUME IInv, NEW account \in Accounts, NEW amount \in Nat,
         Unstake(account, amount)
  PROVE  IInv'
<1> USE ScaleAssumption, ParamAssumption, BoundAssumption
<1> DEFINE pool == PaidOut
           newTotalStakes == totalStakes - amount
           newStakeRSR == CeilDiv(FIX_ONE * newTotalStakes, pool.stakeRate)
           rsrAmount == pool.stakeRSR - newStakeRSR
<1>1. PoolOK(pool)
  BY PaidOutIsOK DEF Unstake
<1>2. /\ newTotalStakes >= 0 /\ newStakeRSR <= pool.stakeRSR
      /\ amount <= stakes[account]
      /\ stakes' = [stakes EXCEPT ![account] = @ - amount]
      /\ totalStakes' = newTotalStakes /\ stakeRSR' = newStakeRSR
      /\ stakeRate' = pool.stakeRate
      /\ PushDraft(account, rsrAmount)
      /\ SetPayoutVars(pool)
      /\ UNCHANGED <<era, params, rsrBalance, environment>>
  BY DEF Unstake
<1> HIDE DEF pool
<1>3. /\ newTotalStakes \in Nat /\ newStakeRSR \in Nat /\ rsrAmount \in Nat
      /\ newTotalStakes * FIX_ONE <= newStakeRSR * pool.stakeRate
  <2>1. /\ pool.stakeRSR \in Nat /\ pool.stakeRate \in Nat \ {0}
        /\ newTotalStakes \in Nat
    BY <1>1, <1>2 DEF PoolOK, IInv, TypeOK
  <2> HIDE DEF newTotalStakes
  <2>2. FIX_ONE * newTotalStakes \in Nat
    BY <2>1
  <2>3. newStakeRSR \in Nat
        /\ FIX_ONE * newTotalStakes <= pool.stakeRate * newStakeRSR
    BY <2>1, <2>2, CeilBounds
  <2> QED
    BY <1>2, <2>1, <2>2, <2>3
<1> HIDE DEF newStakeRSR
<1>4. /\ draftQueue' \in [Accounts -> Seq(Draft)] /\ QueuesOrdered'
      /\ draftRSR' = draftRSR + rsrAmount /\ draftRate' = draftRate
      /\ totalDrafts' \in Nat
      /\ totalDrafts' * FIX_ONE <= draftRSR' * draftRate'
      /\ draftRSR' <= totalDrafts'
      /\ UNCHANGED <<draftEra, firstRemainingDraft>>
  <2>1. UNCHANGED <<draftEra, firstRemainingDraft>>
    BY <1>2 DEF PushDraft
  <2> QED
    BY <1>2, <1>3, <2>1, PushKeepsOrder, PushCovers
<1>5. /\ draftRSR \in Nat /\ draftRate \in Nat /\ rsrBalance \in Nat
      /\ stakes \in [Accounts -> Nat]
      /\ FIX_ONE <= draftRate /\ draftRate <= MAX_RATE
  BY DEF IInv, TypeOK, RatesBounded
<1>6. TypeOK'
  <2>1. stakes' \in [Accounts -> Nat]
    BY <1>2, <1>5
  <2>2. payoutLastPaid' \in 0..now /\ rsrRewardsAtLastPayout' \in Nat
    BY <1>1, <1>2 DEF PoolOK, SetPayoutVars
  <2>3. totalStakes' \in Nat /\ stakeRSR' \in Nat /\ stakeRate' \in Nat
    BY <1>1, <1>2, <1>3 DEF PoolOK
  <2>4. draftRSR' \in Nat
    BY <1>3, <1>4, <1>5
  <2> HIDE DEF rsrAmount
  <2> QED
    BY <1>2, <1>4, <2>1, <2>2, <2>3, <2>4 DEF IInv, TypeOK, environment, params
<1>7. Solvent'
  <2>1. pool.stakeRSR \in Nat /\ pool.stakeRSR + draftRSR <= rsrBalance
    BY <1>1 DEF PoolOK
  <2>2. newStakeRSR + (draftRSR + rsrAmount) <= rsrBalance
    BY <1>3, <1>5, <2>1
  <2> QED
    BY <1>2, <1>4, <2>2 DEF Solvent
<1>8. RatesCover'
  BY <1>2, <1>3, <1>4 DEF RatesCover
<1>9. RatesBounded'
  BY <1>1, <1>2, <1>4, <1>5 DEF RatesBounded, PoolOK
<1> QED
  BY <1>4, <1>6, <1>7, <1>8, <1>9 DEF IInv

\* withdraw() keeps it, also when it returns early.
LEMMA WithdrawInv ==
  ASSUME IInv, NEW account \in Accounts, NEW endId \in Nat,
         Withdraw(account, endId)
  PROVE  IInv'
<1> USE ScaleAssumption, ParamAssumption, BoundAssumption
<1> DEFINE queue == draftQueue[account]
           firstId == firstRemainingDraft[account]
           draftAmount == DraftsUpTo(queue, endId) - DraftsUpTo(queue, firstId)
           newTotalDrafts == totalDrafts - draftAmount
           newDraftRSR == CeilDiv(newTotalDrafts * FIX_ONE, draftRate)
           rsrAmount == draftRSR - newDraftRSR
<1>1. /\ firstId < endId /\ endId <= Len(queue)
      /\ firstRemainingDraft' = [firstRemainingDraft EXCEPT ![account] = endId]
      /\ UNCHANGED <<stakePool, draftEra, draftQueue, draftRate, payoutVars,
                     params, environment>>
      /\ newTotalDrafts >= 0 /\ rsrAmount >= 0
      /\ \/ rsrAmount = 0 /\ UNCHANGED <<totalDrafts, draftRSR, rsrBalance>>
         \/ /\ rsrAmount > 0
            /\ totalDrafts' = newTotalDrafts
            /\ draftRSR' = newDraftRSR
            /\ rsrBalance' = rsrBalance - rsrAmount
  BY DEF Withdraw
<1>2. /\ stakeRSR \in Nat
      /\ totalDrafts \in Nat /\ draftRSR \in Nat /\ rsrBalance \in 0..MaxRSR
      /\ firstRemainingDraft \in [Accounts -> Nat]
      /\ draftQueue \in [Accounts -> Seq(Draft)]
      /\ draftRate \in Nat \ {0} /\ FIX_ONE <= draftRate
      /\ stakeRSR + draftRSR <= rsrBalance
  BY DEF IInv, TypeOK, RatesBounded, Solvent
<1>3. draftAmount \in Int
  <2>1. queue \in Seq(Draft) /\ firstId \in Nat
    BY <1>2
  <2> HIDE DEF queue, firstId
  <2>2. /\ endId > 0 => queue[endId] \in Draft
        /\ firstId > 0 => queue[firstId] \in Draft
    BY <1>1, <2>1
  <2> QED
    BY <2>2 DEF DraftsUpTo, Draft
<1> HIDE DEF draftAmount
<1>4. newTotalDrafts \in Nat
  BY <1>1, <1>2, <1>3
<1> HIDE DEF newTotalDrafts
<1>5. /\ newDraftRSR \in Nat
      /\ newTotalDrafts * FIX_ONE <= newDraftRSR * draftRate
      /\ newDraftRSR <= newTotalDrafts
  <2>1. /\ newTotalDrafts * FIX_ONE \in Nat
        /\ newTotalDrafts * FIX_ONE <= draftRate * newTotalDrafts
    BY <1>2, <1>4, ProductMono
  <2>2. /\ newDraftRSR \in Nat
        /\ newTotalDrafts * FIX_ONE <= draftRate * newDraftRSR
    BY <1>2, <2>1, CeilBounds
  <2>3. newDraftRSR <= newTotalDrafts
    BY <1>2, <1>4, <2>1, CeilLeast
  <2> HIDE DEF newDraftRSR
  <2> QED
    BY <1>2, <2>2, <2>3
<1> HIDE DEF newDraftRSR
<1>6. QueuesOrdered'
  BY <1>1, <1>2 DEF IInv, QueuesOrdered
<1>7. CASE rsrAmount = 0 /\ UNCHANGED <<totalDrafts, draftRSR, rsrBalance>>
  <2>1. TypeOK'
    BY <1>1, <1>2, <1>7 DEF IInv, TypeOK, stakePool, payoutVars, params, environment
  <2> QED
    BY <1>1, <1>6, <1>7, <2>1 DEF IInv, Solvent, RatesCover, RatesBounded, stakePool
<1>8. CASE /\ rsrAmount > 0 /\ totalDrafts' = newTotalDrafts
           /\ draftRSR' = newDraftRSR /\ rsrBalance' = rsrBalance - rsrAmount
  <2>1. rsrBalance' \in 0..MaxRSR /\ stakeRSR + newDraftRSR <= rsrBalance'
    BY <1>2, <1>5, <1>8
  <2> HIDE DEF rsrAmount
  <2>2. TypeOK'
    BY <1>1, <1>2, <1>4, <1>5, <1>8, <2>1
       DEF IInv, TypeOK, stakePool, payoutVars, params, environment
  <2>3. Solvent'
    BY <1>1, <1>8, <2>1 DEF Solvent, stakePool
  <2>4. RatesCover' /\ RatesBounded'
    BY <1>1, <1>5, <1>8 DEF IInv, RatesCover, RatesBounded, stakePool
  <2> QED
    BY <1>6, <2>2, <2>3, <2>4 DEF IInv
<1> QED
  BY <1>1, <1>7, <1>8

\* A transfer of stakes keeps it.
LEMMA TransferInv ==
  ASSUME IInv, NEW from \in Accounts, NEW to \in Accounts, NEW amount \in Nat,
         from # to, Transfer(from, to, amount)
  PROVE  IInv'
<1>1. stakes' \in [Accounts -> Nat]
  <2>1. /\ stakes \in [Accounts -> Nat] /\ amount <= stakes[from]
        /\ stakes' = [[stakes EXCEPT ![from] = @ - amount] EXCEPT ![to] = @ + amount]
    BY DEF Transfer, IInv, TypeOK
  <2>2. [stakes EXCEPT ![from] = @ - amount] \in [Accounts -> Nat]
    BY <2>1
  <2> QED
    BY <2>1, <2>2
<1>2. TypeOK'
  BY <1>1 DEF Transfer, IInv, TypeOK, draftPool, payoutVars, params, environment
<1>3. QueuesOrdered'
  BY DEF Transfer, IInv, QueuesOrdered, draftPool
<1>4. Solvent' /\ RatesCover' /\ RatesBounded'
  BY DEF Transfer, IInv, Solvent, RatesCover, RatesBounded, draftPool
<1> QED
  BY <1>2, <1>3, <1>4 DEF IInv

(***************************************************************************)
(* Seizure                                                                 *)
(***************************************************************************)

\* The three shares of a seizure are parts of the stake pool, the draft pool
\* and the rewards, and add up to at least what was asked for.
LEMMA SharesBounds ==
  ASSUME IInv, NEW r \in 1..rsrBalance
  PROVE  /\ stakeRSR \in Nat /\ draftRSR \in Nat /\ RsrRewards \in Nat
         /\ Share(stakeRSR, r) \in 0..stakeRSR
         /\ Share(draftRSR, r) \in 0..draftRSR
         /\ Share(RsrRewards, r) \in 0..RsrRewards
         /\ Share(stakeRSR, r) + Share(draftRSR, r) + Share(RsrRewards, r) >= r
         /\ Share(stakeRSR, r) + Share(draftRSR, r) + Share(RsrRewards, r) <= r + 2
<1> DEFINE b == rsrBalance
           w == RsrRewards
           ts == Share(stakeRSR, r)
           td == Share(draftRSR, r)
           tw == Share(w, r)
<1>1. /\ b \in Nat \ {0} /\ stakeRSR \in Nat /\ draftRSR \in Nat
      /\ r \in Nat /\ 1 <= r /\ r <= b
      /\ w \in Nat /\ b = stakeRSR + draftRSR + w
  BY BoundAssumption DEF IInv, TypeOK, Solvent, RsrRewards
<1> HIDE DEF w
<1>2. /\ stakeRSR * r \in Nat /\ draftRSR * r \in Nat /\ w * r \in Nat
      /\ b * r = stakeRSR * r + draftRSR * r + w * r
  BY <1>1
<1>3. /\ ts \in 0..stakeRSR /\ td \in 0..draftRSR /\ tw \in 0..w
  <2>1. ASSUME NEW rsr \in Nat PROVE Share(rsr, r) \in 0..rsr
    <3>1. CeilDiv(rsr * r, b) \in Nat /\ CeilDiv(rsr * r, b) <= rsr
      BY <1>1, ShareBounds
    <3> QED
      BY <3>1 DEF Share
  <2> QED
    BY <1>1, <2>1
<1>4. /\ stakeRSR * r <= b * ts /\ b * ts < stakeRSR * r + b
      /\ draftRSR * r <= b * td /\ b * td < draftRSR * r + b
      /\ w * r <= b * tw /\ b * tw < w * r + b
  BY <1>1, <1>2, CeilBounds DEF Share
<1> HIDE DEF ts, td, tw
<1>5. /\ b * r <= b * (ts + td + tw)
      /\ b * (ts + td + tw) < b * (r + 3)
  <2>1. b * (ts + td + tw) = b * ts + b * td + b * tw
    BY <1>1, <1>3
  <2>2. b * (r + 3) = b * r + b + b + b
    BY <1>1
  <2>3. b * ts \in Nat /\ b * td \in Nat /\ b * tw \in Nat
    BY <1>1, <1>3
  <2> QED
    BY <1>1, <1>2, <1>4, <2>1, <2>2, <2>3
<1>6. ts + td + tw < r + 3
  BY <1>1, <1>3, <1>5, CancelFactor
<1>7. r <= ts + td + tw
  <2>1. SUFFICES ASSUME ts + td + tw < r PROVE FALSE
    BY <1>1, <1>3
  <2>2. b * (ts + td + tw + 1) <= b * r
    BY <1>1, <1>3, <2>1, ProductMono
  <2> QED
    BY <1>1, <1>3, <1>5, <2>2
<1> QED
  BY <1>1, <1>3, <1>6, <1>7 DEF w, ts, td, tw

\* What a seizure leaves of the stake pool.
LEMMA SeizeStakesInv ==
  ASSUME IInv, NEW r \in 1..rsrBalance, SeizeStakes(r)
  PROVE  /\ era' \in Nat /\ stakes' \in [Accounts -> Nat]
         /\ totalStakes' \in Nat /\ stakeRate' \in Nat
         /\ stakeRSR' \in Nat
         /\ stakeRSR' = (IF WipesStakes(r) THEN 0 ELSE stakeRSR - Share(stakeRSR, r))
         /\ totalStakes' * FIX_ONE <= stakeRSR' * stakeRate'
         /\ 0 < stakeRate' /\ stakeRate' <= MAX_RATE
<1> USE ScaleAssumption
<1>1. /\ era \in Nat /\ stakes \in [Accounts -> Nat]
      /\ totalStakes \in Nat /\ stakeRSR \in Nat /\ StakeRSRLeft(r) \in Nat
  BY SharesBounds DEF IInv, TypeOK, StakeRSRLeft
<1>2. CASE WipesStakes(r)
  BY <1>1, <1>2 DEF SeizeStakes, BeginEra, NoStakes
<1>3. CASE ~WipesStakes(r)
  <2>1. /\ StakeRSRLeft(r) > 0 /\ StakeRateLeft(r) <= MAX_RATE
        /\ StakeRateLeft(r) \in Nat
        /\ totalStakes * FIX_ONE <= StakeRSRLeft(r) * StakeRateLeft(r)
    <3>1. StakeRSRLeft(r) > 0
      BY <1>1, <1>3 DEF WipesStakes
    <3>2. FIX_ONE * totalStakes \in Nat
      BY <1>1
    <3>3. StakeRateLeft(r) = CeilDiv(FIX_ONE * totalStakes, StakeRSRLeft(r))
      BY <3>1 DEF StakeRateLeft
    <3>4. /\ StakeRateLeft(r) \in Nat
          /\ FIX_ONE * totalStakes <= StakeRSRLeft(r) * StakeRateLeft(r)
      <4>1. StakeRSRLeft(r) \in Nat \ {0}
        BY <1>1, <3>1
      <4> QED
        BY <3>2, <3>3, <4>1, CeilBounds
    <3> QED
      BY <1>1, <1>3, <3>1, <3>4 DEF WipesStakes
  <2>2. /\ StakeRateLeft(r) > 0
        /\ stakeRSR' = StakeRSRLeft(r) /\ stakeRate' = StakeRateLeft(r)
        /\ UNCHANGED <<era, stakes, totalStakes>>
    BY <1>3 DEF SeizeStakes
  <2> QED
    BY <1>1, <1>3, <2>1, <2>2 DEF StakeRSRLeft
<1> QED
  BY <1>2, <1>3

\* What a seizure leaves of the draft pool: since no draft is worth more than
\* one RSR, the rate does not fall below one.
LEMMA SeizeDraftsInv ==
  ASSUME IInv, NEW r \in 1..rsrBalance, SeizeDrafts(r)
  PROVE  /\ draftEra' \in Nat /\ draftQueue' \in [Accounts -> Seq(Draft)]
         /\ firstRemainingDraft' \in [Accounts -> Nat]
         /\ totalDrafts' \in Nat /\ draftRate' \in Nat
         /\ draftRSR' \in Nat
         /\ draftRSR' = (IF WipesDrafts(r) THEN 0 ELSE draftRSR - Share(draftRSR, r))
         /\ totalDrafts' * FIX_ONE <= draftRSR' * draftRate'
         /\ FIX_ONE <= draftRate' /\ draftRate' <= MAX_RATE
         /\ draftRSR' <= totalDrafts'
         /\ QueuesOrdered'
<1> USE ScaleAssumption
<1>1. /\ draftEra \in Nat /\ draftQueue \in [Accounts -> Seq(Draft)]
      /\ firstRemainingDraft \in [Accounts -> Nat]
      /\ totalDrafts \in Nat /\ draftRSR \in Nat /\ DraftRSRLeft(r) \in Nat
      /\ DraftRSRLeft(r) <= draftRSR /\ draftRSR <= totalDrafts
  BY SharesBounds DEF IInv, TypeOK, RatesBounded, DraftRSRLeft
<1>2. CASE WipesDrafts(r)
  <2>1. /\ draftEra' = draftEra + 1 /\ draftQueue' = NoDrafts
        /\ firstRemainingDraft' = [a \in Accounts |-> 0]
        /\ totalDrafts' = 0 /\ draftRSR' = 0 /\ draftRate' = FIX_ONE
    BY <1>2 DEF SeizeDrafts, BeginDraftEra
  <2>2. QueuesOrdered' /\ draftQueue' \in [Accounts -> Seq(Draft)]
    BY <2>1 DEF QueuesOrdered, NoDrafts
  <2> QED
    BY <1>1, <1>2, <2>1, <2>2
<1>3. CASE ~WipesDrafts(r)
  <2>1. /\ DraftRSRLeft(r) > 0 /\ DraftRateLeft(r) <= MAX_RATE
        /\ DraftRateLeft(r) \in Nat
        /\ totalDrafts * FIX_ONE <= DraftRSRLeft(r) * DraftRateLeft(r)
    <3>1. DraftRSRLeft(r) > 0
      BY <1>1, <1>3 DEF WipesDrafts
    <3>2. FIX_ONE * totalDrafts \in Nat
      BY <1>1
    <3>3. DraftRateLeft(r) = CeilDiv(FIX_ONE * totalDrafts, DraftRSRLeft(r))
      BY <3>1 DEF DraftRateLeft
    <3>4. /\ DraftRateLeft(r) \in Nat
          /\ FIX_ONE * totalDrafts <= DraftRSRLeft(r) * DraftRateLeft(r)
      <4>1. DraftRSRLeft(r) \in Nat \ {0}
        BY <1>1, <3>1
      <4> QED
        BY <3>2, <3>3, <4>1, CeilBounds
    <3> QED
      BY <1>1, <1>3, <3>1, <3>4 DEF WipesDrafts
  <2>2. /\ draftRSR' = DraftRSRLeft(r) /\ draftRate' = DraftRateLeft(r)
        /\ UNCHANGED <<draftEra, draftQueue, firstRemainingDraft, totalDrafts>>
    BY <1>3 DEF SeizeDrafts
  <2>3. FIX_ONE <= DraftRateLeft(r)
    <3> DEFINE rsr == DraftRSRLeft(r)
               rate == DraftRateLeft(r)
    <3>1. rsr \in Nat \ {0} /\ rate \in Nat /\ rsr <= totalDrafts
      BY <1>1, <2>1
    <3>2. totalDrafts * FIX_ONE <= rsr * rate
      BY <2>1
    <3> HIDE DEF rsr, rate
    <3>3. rsr * FIX_ONE <= totalDrafts * FIX_ONE
      BY <1>1, <3>1, ProductMono
    <3>4. rsr * FIX_ONE < rsr * (rate + 1)
      BY <1>1, <3>1, <3>2, <3>3
    <3>5. FIX_ONE < rate + 1
      BY <3>1, <3>4, CancelFactor
    <3> QED
      BY <3>1, <3>5 DEF rate
  <2>4. QueuesOrdered'
    BY <2>2 DEF IInv, QueuesOrdered
  <2> QED
    BY <1>1, <1>3, <2>1, <2>2, <2>3, <2>4 DEF DraftRSRLeft
<1> QED
  BY <1>2, <1>3

\* A seizure takes at least what is asked for and never more than there is.
LEMMA SeizedBounds ==
  ASSUME IInv, NEW r \in 1..rsrBalance
  PROVE  /\ SeizedRSR(r) \in r..rsrBalance
         /\ ~WipesStakes(r) /\ ~WipesDrafts(r) => SeizedRSR(r) <= r + 2
<1> DEFINE ts == Share(stakeRSR, r)
           td == Share(draftRSR, r)
           tw == Share(RsrRewards, r)
           fromStakes == IF WipesStakes(r) THEN stakeRSR ELSE ts
           fromDrafts == IF WipesDrafts(r) THEN draftRSR ELSE td
<1>1. /\ stakeRSR \in Nat /\ draftRSR \in Nat /\ RsrRewards \in Nat
      /\ ts \in 0..stakeRSR /\ td \in 0..draftRSR /\ tw \in 0..RsrRewards
      /\ ts + td + tw >= r /\ ts + td + tw <= r + 2
      /\ r \in Nat /\ rsrBalance \in Nat
      /\ rsrBalance = stakeRSR + draftRSR + RsrRewards
  BY SharesBounds, BoundAssumption DEF IInv, TypeOK, RsrRewards
<1>2. SeizedRSR(r) = fromStakes + fromDrafts + tw
  BY DEF SeizedRSR
<1> HIDE DEF ts, td, tw
<1>3. /\ fromStakes \in ts..stakeRSR /\ fromDrafts \in td..draftRSR
  BY <1>1
<1>4. ~WipesStakes(r) /\ ~WipesDrafts(r) => fromStakes = ts /\ fromDrafts = td
  OBVIOUS
<1> HIDE DEF fromStakes, fromDrafts
<1> QED
  BY <1>1, <1>2, <1>3, <1>4

\* seizeRSR() keeps it, whichever pools it wipes out.
LEMMA SeizeInv ==
  ASSUME IInv, NEW r \in 1..rsrBalance, SeizeRSR(r)
  PROVE  IInv'
<1> USE ParamAssumption, BoundAssumption
<1> DEFINE ts == Share(stakeRSR, r)
           td == Share(draftRSR, r)
           tw == Share(RsrRewards, r)
<1>1. /\ SeizeStakes(r) /\ SeizeDrafts(r)
      /\ rsrBalance' = rsrBalance - SeizedRSR(r)
      /\ UNCHANGED <<payoutVars, params, environment>>
  BY DEF SeizeRSR
<1>2. /\ stakeRSR \in Nat /\ draftRSR \in Nat /\ RsrRewards \in Nat
      /\ ts \in 0..stakeRSR /\ td \in 0..draftRSR /\ tw \in 0..RsrRewards
      /\ rsrBalance \in 0..MaxRSR
      /\ rsrBalance = stakeRSR + draftRSR + RsrRewards
  BY SharesBounds DEF IInv, TypeOK, RsrRewards
<1>3. /\ SeizedRSR(r) \in Nat /\ SeizedRSR(r) <= rsrBalance
  BY <1>2, SeizedBounds
<1>4. rsrBalance' \in 0..MaxRSR
  BY <1>1, <1>2, <1>3
<1>5. TypeOK'
  BY <1>1, <1>4, SeizeStakesInv, SeizeDraftsInv
     DEF IInv, TypeOK, payoutVars, params, environment
<1>6. Solvent'
  <2>1. /\ stakeRSR' = IF WipesStakes(r) THEN 0 ELSE stakeRSR - ts
        /\ draftRSR' = IF WipesDrafts(r) THEN 0 ELSE draftRSR - td
    BY <1>1, SeizeStakesInv, SeizeDraftsInv
  <2>2. SeizedRSR(r) = (IF WipesStakes(r) THEN stakeRSR ELSE ts)
                         + (IF WipesDrafts(r) THEN draftRSR ELSE td) + tw
    BY DEF SeizedRSR
  <2> HIDE DEF ts, td, tw
  <2>3. stakeRSR' + draftRSR' + SeizedRSR(r) <= rsrBalance
    BY <1>2, <2>1, <2>2
  <2>4. stakeRSR' \in Nat /\ draftRSR' \in Nat
    BY <1>1, SeizeStakesInv, SeizeDraftsInv
  <2> QED
    BY <1>1, <1>2, <1>3, <2>3, <2>4 DEF Solvent
<1>7. RatesCover' /\ RatesBounded' /\ QueuesOrdered'
  BY <1>1, SeizeStakesInv, SeizeDraftsInv DEF RatesCover, RatesBounded
<1> QED
  BY <1>5, <1>6, <1>7 DEF IInv

(***************************************************************************)
(* Theorems                                                                *)
(***************************************************************************)

\* Steps of governance and of the world outside change no pool.
LEMMA OtherInv ==
  ASSUME IInv,
         \/ \E delay \in Delays : SetUnstakingDelay(delay)
         \/ \E period \in Periods : SetRewardPeriod(period)
         \/ \E ratio \in Ratios : SetRewardRatio(ratio)
         \/ \E amount \in 1..MaxRSR : ReceiveRSR(amount)
         \/ \E status \in PauseStates : SetPausedOrFrozen(status)
         \/ \E status \in BasketStates : SetBasketSound(status)
         \/ Tick
         \/ UNCHANGED vars
  PROVE  /\ IInv'
         /\ UNCHANGED <<stakePool, draftPool, payoutVars>>
         /\ rsrBalance <= rsrBalance'
<1> USE ParamAssumption, BoundAssumption
    DEF SetUnstakingDelay, SetRewardPeriod, SetRewardRatio, ReceiveRSR,
        SetPausedOrFrozen, SetBasketSound, Tick, vars
<1>1. UNCHANGED <<stakePool, draftPool, payoutVars>>
  OBVIOUS
<1>2. /\ rsrBalance <= rsrBalance' /\ rsrBalance' \in 0..MaxRSR
      /\ now <= now' /\ now' \in 0..MaxTime
      /\ unstakingDelay' \in Delays /\ rewardPeriod' \in Periods
      /\ rewardRatio' \in Ratios
      /\ pausedOrFrozen' \in BOOLEAN /\ basketSound' \in BOOLEAN
  BY DEF IInv, TypeOK, params, environment
<1>3. TypeOK'
  <2>1. payoutLastPaid' \in 0..now'
    BY <1>1, <1>2 DEF IInv, TypeOK, payoutVars
  <2> QED
    BY <1>1, <1>2, <2>1 DEF IInv, TypeOK, stakePool, draftPool, payoutVars
<1>4. Solvent'
  <2>1. stakeRSR' = stakeRSR /\ draftRSR' = draftRSR
    BY <1>1 DEF stakePool, draftPool
  <2>2. /\ stakeRSR \in Nat /\ draftRSR \in Nat /\ rsrBalance \in Nat
        /\ stakeRSR + draftRSR <= rsrBalance
    BY DEF IInv, TypeOK, Solvent
  <2> QED
    BY <1>2, <2>1, <2>2 DEF Solvent
<1>5. RatesCover' /\ RatesBounded' /\ QueuesOrdered'
  BY <1>1 DEF IInv, RatesCover, RatesBounded, QueuesOrdered, stakePool, draftPool
<1> QED
  BY <1>1, <1>2, <1>3, <1>4, <1>5 DEF IInv

\* Every step keeps the inductive invariant.
LEMMA NextInv == ASSUME IInv, [Next]_vars PROVE IInv'
<1> USE BoundAssumption
<1>1. CASE PayoutRewards
  BY <1>1, PayoutRewardsInv
<1>2. CASE \E a \in Accounts, amount \in 1..MaxRSR : Stake(a, amount)
  BY <1>2, StakeInv
<1>3. CASE \E a \in Accounts : \E amount \in 1..stakes[a] : Unstake(a, amount)
  <2>1. PICK a \in Accounts : \E amount \in 1..stakes[a] : Unstake(a, amount)
    BY <1>3
  <2>2. stakes[a] \in Nat
    BY DEF IInv, TypeOK
  <2> QED
    BY <2>1, <2>2, UnstakeInv
<1>4. CASE \E a \in Accounts : \E endId \in 1..Len(draftQueue[a]) : Withdraw(a, endId)
  <2>1. PICK a \in Accounts : \E endId \in 1..Len(draftQueue[a]) : Withdraw(a, endId)
    BY <1>4
  <2>2. Len(draftQueue[a]) \in Nat
    BY DEF IInv, TypeOK
  <2> QED
    BY <2>1, <2>2, WithdrawInv
<1>5. CASE \E from, to \in Accounts :
             \E amount \in 1..stakes[from] : from # to /\ Transfer(from, to, amount)
  <2>1. PICK from \in Accounts, to \in Accounts :
          \E amount \in 1..stakes[from] : from # to /\ Transfer(from, to, amount)
    BY <1>5
  <2>2. stakes[from] \in Nat
    BY DEF IInv, TypeOK
  <2> QED
    BY <2>1, <2>2, TransferInv
<1>6. CASE \E r \in 1..rsrBalance : SeizeRSR(r)
  BY <1>6, SeizeInv
<1> QED
  BY <1>1, <1>2, <1>3, <1>4, <1>5, <1>6, OtherInv DEF Next

\* The inductive invariant holds of every behaviour.
THEOREM Invariance == Spec => []IInv
<1>1. Init => IInv
  BY InitInv
<1>2. IInv /\ [Next]_vars => IInv'
  BY NextInv
<1> QED
  BY <1>1, <1>2, PTL DEF Spec

\* Every field keeps its type: no checked subtraction leaves a negative number
\* behind, and the last payout is never dated in the future.
THEOREM TypeCorrect == Spec => []TypeOK
  BY Invariance, PTL DEF IInv

\* The RSR of the two pools is always in the contract.
THEOREM PoolsSolvent == Spec => []Solvent
  BY Invariance, PTL DEF IInv

\* Each pool's RSR always covers its shares at the pool's rate.
THEOREM PoolsCovered == Spec => []RatesCover
  BY Invariance, PTL DEF IInv

\* Rates stay positive and within MAX_STAKE_RATE and MAX_DRAFT_RATE, whatever
\* is seized, and no draft is ever worth more than one RSR.
THEOREM RatesInBounds == Spec => []RatesBounded
  BY Invariance, PTL DEF IInv

\* Draft queues stay ordered by drafts and by availability.
THEOREM DraftQueuesOrdered == Spec => []QueuesOrdered
  BY Invariance, PTL DEF IInv

\* Adding RSR to a pool that covers its shares adds shares, if any.
LEMMA FloorOfMore ==
  ASSUME NEW rsr \in Nat, NEW rate \in Nat, NEW total \in Nat,
         NEW more \in Nat, total * FIX_ONE <= rsr * rate
  PROVE  (rate * (rsr + more)) \div FIX_ONE >= total
<1> USE ScaleAssumption
<1>1. rate * (rsr + more) \in Nat /\ rsr * rate <= rate * (rsr + more)
  BY ProductMono
<1>2. FIX_ONE * total <= rate * (rsr + more)
  BY <1>1
<1>3. total <= (rate * (rsr + more)) \div FIX_ONE
  BY <1>1, <1>2, FloorGreatest
<1> QED
  BY <1>1, <1>3, FloorBounds

\* Taking shares from a pool that covers them takes RSR, if any.
LEMMA CeilOfLess ==
  ASSUME NEW rsr \in Nat, NEW rate \in Nat \ {0}, NEW total \in Nat,
         NEW left \in 0..total, total * FIX_ONE <= rsr * rate
  PROVE  /\ CeilDiv(left * FIX_ONE, rate) <= rsr
         /\ CeilDiv(FIX_ONE * left, rate) <= rsr
<1> USE ScaleAssumption
<1>1. left * FIX_ONE \in Nat /\ left * FIX_ONE <= total * FIX_ONE
  BY ProductMono
<1>2. left * FIX_ONE <= rate * rsr /\ FIX_ONE * left = left * FIX_ONE
  BY <1>1
<1> QED
  BY <1>1, <1>2, CeilLeast

\* The checked subtractions of stake(), unstake(), pushDraft() and withdraw()
\* never revert: a consequence of the rates covering the pools.
LEMMA InvNoUnderflow == ASSUME IInv PROVE NoUnderflow
<1> USE ScaleAssumption, BoundAssumption
<1>1. SUFFICES ASSUME ~PayoutReverts
      PROVE  /\ \A amount \in 1..MaxRSR :
                  (PaidOut.stakeRate * (PaidOut.stakeRSR + amount)) \div FIX_ONE
                    >= totalStakes
             /\ \A amount \in 1..totalStakes :
                  CeilDiv(FIX_ONE * (totalStakes - amount), PaidOut.stakeRate)
                    <= PaidOut.stakeRSR
             /\ \A rsrAmount \in 0..stakeRSR :
                  (draftRate * (draftRSR + rsrAmount)) \div FIX_ONE >= totalDrafts
             /\ \A draftAmount \in 0..totalDrafts :
                  CeilDiv((totalDrafts - draftAmount) * FIX_ONE, draftRate) <= draftRSR
  BY DEF NoUnderflow
<1>4. /\ PaidOut.stakeRSR \in Nat /\ PaidOut.stakeRate \in Nat \ {0}
      /\ totalStakes * FIX_ONE <= PaidOut.stakeRSR * PaidOut.stakeRate
  BY <1>1, PaidOutIsOK DEF PoolOK
<1>5. /\ totalStakes \in Nat /\ stakeRSR \in Nat /\ totalDrafts \in Nat
      /\ draftRSR \in Nat /\ draftRate \in Nat \ {0}
      /\ totalDrafts * FIX_ONE <= draftRSR * draftRate
  BY DEF IInv, TypeOK, RatesCover, RatesBounded
<1> DEFINE rate == PaidOut.stakeRate
           rsr == PaidOut.stakeRSR
<1>6. rsr \in Nat /\ rate \in Nat \ {0} /\ totalStakes * FIX_ONE <= rsr * rate
  BY <1>4
<1> HIDE DEF rate, rsr
<1>7. ASSUME NEW amount \in 1..MaxRSR
      PROVE  (rate * (rsr + amount)) \div FIX_ONE >= totalStakes
  BY <1>5, <1>6, FloorOfMore
<1>8. ASSUME NEW amount \in 1..totalStakes
      PROVE  CeilDiv(FIX_ONE * (totalStakes - amount), rate) <= rsr
  <2>1. totalStakes - amount \in 0..totalStakes
    BY <1>5
  <2> QED
    BY <1>5, <1>6, <2>1, CeilOfLess
<1>9. ASSUME NEW rsrAmount \in 0..stakeRSR
      PROVE  (draftRate * (draftRSR + rsrAmount)) \div FIX_ONE >= totalDrafts
  BY <1>5, FloorOfMore
<1>10. ASSUME NEW draftAmount \in 0..totalDrafts
       PROVE  CeilDiv((totalDrafts - draftAmount) * FIX_ONE, draftRate) <= draftRSR
  <2>1. totalDrafts - draftAmount \in 0..totalDrafts
    BY <1>5
  <2> QED
    BY <1>5, <2>1, CeilOfLess
<1> QED
  BY <1>7, <1>8, <1>9, <1>10 DEF rate, rsr

\* stake(), unstake() and pushDraft() never revert for an underflow of their own.
THEOREM NeverUnderflows == Spec => []NoUnderflow
  BY Invariance, InvNoUnderflow, PTL

\* A seizure transfers at least what the backing manager asked for and at most
\* what the contract holds; when it wipes out no pool, at most two qRSR more
\* than was asked for.
THEOREM SeizesExactly == Spec => SeizureExact
<1>1. ASSUME IInv, NEW r \in 1..rsrBalance, SeizeRSR(r)
      PROVE  /\ rsrBalance - rsrBalance' >= r
             /\ ~WipesStakes(r) /\ ~WipesDrafts(r) =>
                  rsrBalance - rsrBalance' <= r + 2
  <2>1. rsrBalance' = rsrBalance - SeizedRSR(r) /\ rsrBalance \in Nat
    BY <1>1, BoundAssumption DEF SeizeRSR, IInv, TypeOK
  <2> QED
    BY <1>1, <2>1, SeizedBounds
<1>2. IInv /\ [Next]_vars =>
        [\A r \in 1..rsrBalance :
           SeizeRSR(r) =>
             /\ rsrBalance - rsrBalance' >= r
             /\ ~WipesStakes(r) /\ ~WipesDrafts(r) =>
                  rsrBalance - rsrBalance' <= r + 2]_vars
  BY <1>1
<1> QED
  BY <1>2, Invariance, PTL DEF SeizureExact, Spec

\* Only a seizure lowers the value of a share of the stake pool.
THEOREM NeverDiluted == Spec => NoDilution
<1>1. ASSUME IInv, Next, totalStakes > 0, stakeRate' > stakeRate
      PROVE  rsrBalance' < rsrBalance
  <2>1. stakeRate \in Nat
    BY <1>1 DEF IInv, TypeOK
  <2>2. CASE PayoutRewards
    BY <1>1, <2>1, <2>2, PaidOutIsOK DEF PayoutRewards, PoolOK
  <2>3. CASE \E a \in Accounts, amount \in 1..MaxRSR : Stake(a, amount)
    BY <1>1, <2>1, <2>3, PaidOutIsOK, PoolIsOK DEF Stake, PoolOK
  <2>4. CASE \E a \in Accounts : \E amount \in 1..stakes[a] : Unstake(a, amount)
    BY <1>1, <2>1, <2>4, PaidOutIsOK DEF Unstake, PoolOK
  <2>5. CASE \E a \in Accounts : \E endId \in 1..Len(draftQueue[a]) : Withdraw(a, endId)
    BY <1>1, <2>1, <2>5 DEF Withdraw, stakePool
  <2>6. CASE \E from, to \in Accounts :
               \E amount \in 1..stakes[from] : from # to /\ Transfer(from, to, amount)
    BY <1>1, <2>1, <2>6 DEF Transfer
  <2>7. CASE \E r \in 1..rsrBalance : SeizeRSR(r)
    <3>1. PICK r \in 1..rsrBalance : SeizeRSR(r)
      BY <2>7
    <3>2. SeizedRSR(r) \in r..rsrBalance /\ rsrBalance' = rsrBalance - SeizedRSR(r)
      BY <1>1, <3>1, SeizedBounds DEF SeizeRSR
    <3>3. rsrBalance \in Nat
      BY <1>1, BoundAssumption DEF IInv, TypeOK
    <3> QED
      BY <3>2, <3>3
  <2> QED
    <3>1. stakeRate' # stakeRate
      BY <1>1, <2>1
    <3> QED
      BY <1>1, <2>2, <2>3, <2>4, <2>5, <2>6, <2>7, <3>1, OtherInv DEF Next, stakePool
<1>2. UNCHANGED vars /\ IInv => ~(stakeRate' > stakeRate)
  BY DEF vars, stakePool, IInv, TypeOK
<1>3. IInv /\ [Next]_vars =>
        [totalStakes > 0 /\ stakeRate' > stakeRate => rsrBalance' < rsrBalance]_vars
  BY <1>1, <1>2
<1> QED
  BY <1>3, Invariance, PTL DEF NoDilution, Spec

\* Whatever withdraw() pays has been in the queue for its unstaking delay: a
\* consequence of the order of the queues, as only the last draft is looked at.
THEOREM OnlyAvailableWithdrawn == Spec => OnlyAvailableDraftsLeave
<1>1. ASSUME IInv, [Next]_vars, draftEra' = draftEra,
             NEW a \in Accounts,
             NEW i \in firstRemainingDraft[a] + 1 .. firstRemainingDraft'[a]
      PROVE  draftQueue[a][i].availableAt <= now
  <2>1. /\ firstRemainingDraft \in [Accounts -> Nat]
        /\ draftQueue \in [Accounts -> Seq(Draft)] /\ now \in Nat
        /\ draftEra \in Nat
    BY <1>1, BoundAssumption DEF IInv, TypeOK
  <2>2. CASE \E b \in Accounts : \E endId \in 1..Len(draftQueue[b]) : Withdraw(b, endId)
    <3>1. PICK b \in Accounts : \E endId \in 1..Len(draftQueue[b]) : Withdraw(b, endId)
      BY <2>2
    <3>2. PICK endId \in 1..Len(draftQueue[b]) : Withdraw(b, endId)
      BY <3>1
    <3>3. /\ firstRemainingDraft' = [firstRemainingDraft EXCEPT ![b] = endId]
          /\ draftQueue[b][endId].availableAt <= now
      BY <3>2 DEF Withdraw, Available
    <3>4. Len(draftQueue[b]) \in Nat /\ endId \in Nat
          /\ DOMAIN draftQueue[b] = 1..Len(draftQueue[b])
      BY <2>1, <3>1
    <3>5. a = b /\ i \in 1..endId
      <4>1. CASE a # b
        BY <1>1, <2>1, <3>3, <4>1
      <4>2. CASE a = b
        BY <1>1, <2>1, <3>3, <3>4, <4>2
      <4> QED
        BY <4>1, <4>2
    <3>6. i \in DOMAIN draftQueue[b] /\ endId \in DOMAIN draftQueue[b]
      BY <3>4, <3>5
    <3>7. draftQueue[b][i].availableAt <= draftQueue[b][endId].availableAt
      <4>1. CASE i = endId
        <5>1. draftQueue[b][endId] \in Draft
          BY <2>1, <3>6
        <5> QED
          BY <4>1, <5>1 DEF Draft
      <4>2. CASE i < endId
        BY <1>1, <3>1, <3>6, <4>2 DEF IInv, QueuesOrdered
      <4>3. i = endId \/ i < endId
        BY <3>4, <3>5
      <4> QED
        BY <4>1, <4>2, <4>3
    <3>8. draftQueue[b][i] \in Draft /\ draftQueue[b][endId] \in Draft
      BY <2>1, <3>6
    <3> QED
      BY <2>1, <3>3, <3>5, <3>7, <3>8 DEF Draft
  <2>3. CASE UNCHANGED firstRemainingDraft
    BY <1>1, <2>1, <2>3
  <2>4. CASE \E r \in 1..rsrBalance : SeizeRSR(r)
    <3>1. UNCHANGED firstRemainingDraft
      BY <1>1, <2>1, <2>4 DEF SeizeRSR, SeizeDrafts, BeginDraftEra
    <3> QED
      BY <2>3, <3>1
  <2>5. CASE PayoutRewards
    BY <2>3, <2>5 DEF PayoutRewards, draftPool
  <2>6. CASE \E b \in Accounts, amount \in 1..MaxRSR : Stake(b, amount)
    BY <2>3, <2>6 DEF Stake, draftPool
  <2>7. CASE \E b \in Accounts : \E amount \in 1..stakes[b] : Unstake(b, amount)
    BY <2>3, <2>7 DEF Unstake, PushDraft
  <2>8. CASE \E from, to \in Accounts :
               \E amount \in 1..stakes[from] : from # to /\ Transfer(from, to, amount)
    BY <2>3, <2>8 DEF Transfer, draftPool
  <2> QED
    BY <1>1, <2>2, <2>3, <2>4, <2>5, <2>6, <2>7, <2>8, OtherInv DEF Next, draftPool
<1>2. IInv /\ [Next]_vars =>
        [\A a \in Accounts :
           draftEra' = draftEra =>
             \A i \in firstRemainingDraft[a] + 1 .. firstRemainingDraft'[a] :
               draftQueue[a][i].availableAt <= now]_vars
  BY <1>1
<1> QED
  BY <1>2, Invariance, PTL DEF OnlyAvailableDraftsLeave, Spec

\* Stakes and drafts are seized uniformly, to within the rounding of one qRSR:
\* what is left of each pool is its share of what there was.
THEOREM SeizesUniformly == Spec => SeizureUniform
<1>1. ASSUME IInv, [Next]_vars, rsrBalance' < rsrBalance, stakeRSR' < stakeRSR,
             era' = era, draftEra' = draftEra
      PROVE  /\ stakeRSR' * draftRSR <= draftRSR' * stakeRSR + stakeRSR
             /\ draftRSR' * stakeRSR <= stakeRSR' * draftRSR + draftRSR
  <2>1. /\ stakeRSR \in Nat /\ draftRSR \in Nat /\ rsrBalance \in Nat
        /\ era \in Nat /\ draftEra \in Nat
    BY <1>1, BoundAssumption DEF IInv, TypeOK
  <2>2. stakeRSR' # stakeRSR /\ ~(rsrBalance <= rsrBalance')
    <3>1. rsrBalance' \in Nat /\ stakeRSR' \in Nat
      BY <1>1, NextInv, BoundAssumption DEF IInv, TypeOK
    <3> QED
      BY <1>1, <2>1, <3>1
  <2>3. PICK r \in 1..rsrBalance : SeizeRSR(r)
    <3>1. CASE PayoutRewards \/ \E from, to \in Accounts :
                 \E amount \in 1..stakes[from] : from # to /\ Transfer(from, to, amount)
      BY <2>1, <2>2, <3>1 DEF PayoutRewards, Transfer
    <3>2. CASE \E a \in Accounts, amount \in 1..MaxRSR : Stake(a, amount)
      <4>1. PICK amount \in 1..MaxRSR : rsrBalance' = rsrBalance + amount
        BY <3>2 DEF Stake
      <4> QED
        BY <2>1, <2>2, <4>1, BoundAssumption
    <3>3. CASE \E a \in Accounts : \E amount \in 1..stakes[a] : Unstake(a, amount)
      BY <2>1, <2>2, <3>3 DEF Unstake
    <3>4. CASE \E a \in Accounts : \E endId \in 1..Len(draftQueue[a]) : Withdraw(a, endId)
      BY <2>2, <3>4 DEF Withdraw, stakePool
    <3> QED
      BY <1>1, <2>2, <3>1, <3>2, <3>3, <3>4, OtherInv DEF Next
  <2>4. /\ stakeRSR' = stakeRSR - Share(stakeRSR, r)
        /\ draftRSR' = draftRSR - Share(draftRSR, r)
    BY <1>1, <2>1, <2>3 DEF SeizeRSR, SeizeStakes, SeizeDrafts, BeginEra,
                            BeginDraftEra, StakeRSRLeft, DraftRSRLeft
  <2> DEFINE x == Share(stakeRSR, r)
             y == Share(draftRSR, r)
  <2>5. /\ r \in Nat /\ rsrBalance \in Nat \ {0}
        /\ r <= rsrBalance
    BY <2>1
  <2>6. x \in Nat /\ y \in Nat
    BY <2>1, <2>5, ShareBounds DEF Share
  <2>7. stakeRSR * y <= draftRSR * x + stakeRSR
    BY <2>1, <2>5, SharesUniform DEF Share
  <2>8. draftRSR * x <= stakeRSR * y + draftRSR
    BY <2>1, <2>5, SharesUniform DEF Share
  <2> HIDE DEF x, y
  <2>9. /\ (stakeRSR - x) * draftRSR = stakeRSR * draftRSR - draftRSR * x
        /\ (draftRSR - y) * stakeRSR = stakeRSR * draftRSR - stakeRSR * y
        /\ stakeRSR * draftRSR \in Nat /\ draftRSR * x \in Nat /\ stakeRSR * y \in Nat
    BY <2>1, <2>6
  <2>10. /\ (stakeRSR - x) * draftRSR <= (draftRSR - y) * stakeRSR + stakeRSR
         /\ (draftRSR - y) * stakeRSR <= (stakeRSR - x) * draftRSR + draftRSR
    BY <2>1, <2>7, <2>8, <2>9
  <2> QED
    BY <2>4, <2>10 DEF x, y
<1>2. IInv /\ [Next]_vars =>
        [rsrBalance' < rsrBalance /\ stakeRSR' < stakeRSR
           /\ era' = era /\ draftEra' = draftEra =>
           /\ stakeRSR' * draftRSR <= draftRSR' * stakeRSR + stakeRSR
           /\ draftRSR' * stakeRSR <= stakeRSR' * draftRSR + draftRSR]_vars
  BY <1>1
<1> QED
  BY <1>2, Invariance, PTL DEF SeizureUniform, Spec

(***************************************************************************)
(* The ledgers: balances and drafts against their totals                   *)
(***************************************************************************)

\* Sums of balances: numbers, and what a change of one balance does to them.
LEMMA BalancesSum ==
  ASSUME NEW f \in [Accounts -> Nat], NEW g \in [Accounts -> Nat],
         NEW a \in Accounts, \A x \in Accounts \ {a} : f[x] = g[x]
  PROVE  /\ SumFunction(f) \in Nat /\ SumFunction(g) \in Nat
         /\ f[a] <= SumFunction(f)
         /\ SumFunction(g) = SumFunction(f) + (g[a] - f[a])
<1>1. f \in [Accounts -> Int] /\ g \in [Accounts -> Int]
  OBVIOUS
<1>2. SumFunction(g) = SumFunction(f) + (g[a] - f[a])
  BY <1>1, AccountsAssumption, SumChange
<1>3. SumFunction(f) \in Nat /\ SumFunction(g) \in Nat
  BY <1>1, AccountsAssumption, SumType
<1> QED
  BY <1>2, <1>3, AccountsAssumption, SumAtLeast

\* stake() and unstake() change an account's balance and the total alike, a
\* transfer leaves the sum as it is, and a new era resets both.
LEMMA StakesAddUpKept ==
  ASSUME IInv, StakesAddUp, [Next]_vars
  PROVE  StakesAddUp'
<1> USE DEF StakesAddUp
<1>1. stakes \in [Accounts -> Nat] /\ totalStakes \in Nat
      /\ stakes' \in [Accounts -> Nat] /\ totalStakes' \in Nat
  <2>1. IInv'
    BY NextInv
  <2> QED
    BY <2>1 DEF IInv, TypeOK
<1>2. CASE UNCHANGED <<stakes, totalStakes>>
  BY <1>2
<1>3. ASSUME NEW a \in Accounts, NEW amount \in 1..MaxRSR, Stake(a, amount)
      PROVE  StakesAddUp'
  <2>1. stakes' = [stakes EXCEPT ![a] = @ + (totalStakes' - totalStakes)]
    BY <1>3 DEF Stake
  <2>2. SumFunction(stakes') = SumFunction(stakes) + (stakes'[a] - stakes[a])
    BY <1>1, <2>1, BalancesSum
  <2>3. stakes'[a] = stakes[a] + (totalStakes' - totalStakes)
    BY <1>1, <2>1
  <2> QED
    BY <1>1, <2>2, <2>3
<1>4. ASSUME NEW a \in Accounts, NEW amount \in 1..stakes[a], Unstake(a, amount)
      PROVE  StakesAddUp'
  <2>1. /\ stakes' = [stakes EXCEPT ![a] = @ - amount]
        /\ totalStakes' = totalStakes - amount
    BY <1>4 DEF Unstake
  <2>2. SumFunction(stakes') = SumFunction(stakes) + (stakes'[a] - stakes[a])
    BY <1>1, <2>1, BalancesSum
  <2>3. stakes'[a] = stakes[a] - amount /\ stakes[a] \in Nat
    BY <1>1, <2>1
  <2> QED
    BY <1>1, <2>1, <2>2, <2>3
<1>5. ASSUME NEW from \in Accounts, NEW to \in Accounts, from # to,
             NEW amount \in 1..stakes[from], Transfer(from, to, amount)
      PROVE  StakesAddUp'
  <2>1. /\ stakes' = [[stakes EXCEPT ![from] = @ - amount] EXCEPT ![to] = @ + amount]
        /\ totalStakes' = totalStakes
    BY <1>5 DEF Transfer
  <2>2. /\ stakes[from] \in Nat /\ stakes[to] \in Nat /\ amount \in Int
        /\ stakes'[from] = stakes[from] - amount
        /\ stakes'[to] = stakes[to] + amount
        /\ \A x \in Accounts \ {from, to} : stakes[x] = stakes'[x]
    BY <1>1, <1>5, <2>1
  <2>3. stakes \in [Accounts -> Int] /\ stakes' \in [Accounts -> Int]
    BY <1>1
  <2>4. SumFunction(stakes') = SumFunction(stakes)
          + (stakes'[from] - stakes[from]) + (stakes'[to] - stakes[to])
    BY <1>5, <2>2, <2>3, AccountsAssumption, SumChangeTwo
  <2> QED
    BY <1>1, <2>1, <2>2, <2>4
<1>6. ASSUME NEW r \in 1..rsrBalance, SeizeRSR(r)
      PROVE  StakesAddUp'
  <2>1. CASE BeginEra
    BY <2>1, AccountsAssumption, SumZero DEF BeginEra, NoStakes
  <2>2. CASE ~BeginEra
    BY <1>6, <2>2, <1>2 DEF SeizeRSR, SeizeStakes
  <2> QED
    BY <2>1, <2>2
<1>7. CASE PayoutRewards
  BY <1>2, <1>7 DEF PayoutRewards
<1>8. CASE \E a \in Accounts : \E endId \in 1..Len(draftQueue[a]) : Withdraw(a, endId)
  BY <1>2, <1>8 DEF Withdraw, stakePool
<1> QED
  BY <1>2, <1>3, <1>4, <1>5, <1>6, <1>7, <1>8, OtherInv DEF Next, stakePool, vars

\* [total-stakes]: balances add up to totalStakes, across eras.
THEOREM BalancesAddUp == Spec => []StakesAddUp
<1>1. Init => StakesAddUp
  BY AccountsAssumption, SumZero DEF Init, NoStakes, StakesAddUp
<1>2. IInv /\ StakesAddUp /\ [Next]_vars => StakesAddUp'
  BY StakesAddUpKept
<1> QED
  BY <1>1, <1>2, Invariance, PTL DEF Spec

\* The drafts that are due to each account.
DraftsDue == [a \in Accounts |-> DraftSum(a)]

\* Along an ordered queue, the cumulative drafts are numbers that increase.
LEMMA DraftsIncrease ==
  ASSUME IInv, NEW a \in Accounts,
         NEW i \in 0..Len(draftQueue[a]), NEW j \in i..Len(draftQueue[a])
  PROVE  /\ DraftsUpTo(draftQueue[a], i) \in Nat
         /\ DraftsUpTo(draftQueue[a], j) \in Nat
         /\ DraftsUpTo(draftQueue[a], i) <= DraftsUpTo(draftQueue[a], j)
<1> DEFINE queue == draftQueue[a]
<1>1. queue \in Seq(Draft) /\ Len(queue) \in Nat
  BY DEF IInv, TypeOK
<1>2. ASSUME NEW k \in 1..Len(queue)
      PROVE  queue[k].drafts \in Nat /\ k \in DOMAIN queue
  <2>1. k \in DOMAIN queue /\ queue[k] \in Draft
    BY <1>1
  <2> QED
    BY <2>1 DEF Draft
<1>3. \A k, l \in 1..Len(queue) : k < l => queue[k].drafts <= queue[l].drafts
  BY <1>2 DEF IInv, QueuesOrdered
<1>4. i \in Nat /\ j \in Nat /\ i <= j /\ j <= Len(queue)
  BY <1>1
<1> HIDE DEF queue
<1>5. CASE i = 0
  BY <1>2, <1>4, <1>5 DEF DraftsUpTo, queue
<1>6. CASE i # 0
  <2>1. i \in 1..Len(queue) /\ j \in 1..Len(queue)
    BY <1>1, <1>4, <1>6
  <2> QED
    BY <1>2, <1>3, <1>4, <2>1 DEF DraftsUpTo, queue
<1> QED
  BY <1>5, <1>6

\* What is due to an account is a number: its queue is read within bounds.
DraftsDueTyped == DraftsDue \in [Accounts -> Nat]

LEMMA DraftsDueType == IInv => DraftsDueTyped
<1> SUFFICES ASSUME IInv PROVE DraftsDue \in [Accounts -> Nat]
  BY DEF DraftsDueTyped
<1>1. ASSUME NEW a \in Accounts PROVE DraftSum(a) \in Nat
  <2>1. /\ Len(draftQueue[a]) \in Nat /\ firstRemainingDraft[a] \in Nat
        /\ firstRemainingDraft[a] <= Len(draftQueue[a])
    BY DEF IInv, TypeOK, QueuesOrdered
  <2>2. /\ firstRemainingDraft[a] \in 0..Len(draftQueue[a])
        /\ Len(draftQueue[a]) \in firstRemainingDraft[a]..Len(draftQueue[a])
    BY <2>1
  <2> QED
    BY <2>2, DraftsIncrease DEF DraftSum
<1> QED
  BY <1>1 DEF DraftsDue

\* unstake() adds to what is due to the account what it adds to totalDrafts.
LEMMA PushAddsUp ==
  ASSUME IInv, NEW account \in Accounts, NEW rsrAmount, PushDraft(account, rsrAmount),
         totalDrafts' \in Nat
  PROVE  /\ DraftsDue'[account] = DraftsDue[account] + (totalDrafts' - totalDrafts)
         /\ \A a \in Accounts \ {account} : DraftsDue'[a] = DraftsDue[a]
<1> DEFINE queue == draftQueue[account]
           first == firstRemainingDraft[account]
<1>1. /\ draftQueue \in [Accounts -> Seq(Draft)] /\ queue \in Seq(Draft)
      /\ Len(queue) \in Nat /\ first \in Nat /\ first <= Len(queue)
      /\ totalDrafts \in Nat
  BY DEF IInv, TypeOK, QueuesOrdered
<1>2. PICK draft :
        /\ draft.drafts = DraftsUpTo(queue, Len(queue)) + (totalDrafts' - totalDrafts)
        /\ draftQueue' = [draftQueue EXCEPT ![account] = Append(@, draft)]
        /\ UNCHANGED firstRemainingDraft
  BY DEF PushDraft
<1>3. draftQueue'[account] = Append(queue, draft)
  BY <1>1, <1>2
<1>4. /\ Len(Append(queue, draft)) = Len(queue) + 1
      /\ Append(queue, draft)[Len(queue) + 1] = draft
      /\ \A k \in 1..Len(queue) : Append(queue, draft)[k] = queue[k]
  BY <1>1
<1>5. DraftsUpTo(Append(queue, draft), Len(queue) + 1) = draft.drafts
  BY <1>1, <1>4 DEF DraftsUpTo
<1>6. DraftsUpTo(Append(queue, draft), first) = DraftsUpTo(queue, first)
  BY <1>1, <1>4 DEF DraftsUpTo
<1>7. DraftsUpTo(queue, Len(queue)) \in Nat /\ DraftsUpTo(queue, first) \in Nat
  <2>1. first \in 0..Len(queue) /\ Len(queue) \in first..Len(queue)
    BY <1>1
  <2> QED
    BY <2>1, DraftsIncrease
<1>8. DraftSum(account)' = DraftsUpTo(Append(queue, draft), Len(queue) + 1)
                            - DraftsUpTo(Append(queue, draft), first)
  BY <1>2, <1>3, <1>4 DEF DraftSum
<1>9. DraftSum(account) = DraftsUpTo(queue, Len(queue)) - DraftsUpTo(queue, first)
  BY DEF DraftSum
<1>10. DraftSum(account)' = DraftSum(account) + (totalDrafts' - totalDrafts)
  <2> HIDE DEF queue, first
  <2> QED
    BY <1>1, <1>2, <1>5, <1>6, <1>7, <1>8, <1>9
<1>11. ASSUME NEW a \in Accounts, a # account PROVE DraftSum(a)' = DraftSum(a)
  BY <1>1, <1>2, <1>11 DEF DraftSum
<1> QED
  BY <1>10, <1>11 DEF DraftsDue

\* A withdrawal takes from what is due to the account at least what it takes
\* from totalDrafts.
LEMMA WithdrawAddsUp ==
  ASSUME IInv, NEW account \in Accounts, NEW endId \in 1..Len(draftQueue[account]),
         Withdraw(account, endId)
  PROVE  /\ DraftsDue'[account] - DraftsDue[account] <= totalDrafts' - totalDrafts
         /\ \A a \in Accounts \ {account} : DraftsDue'[a] = DraftsDue[a]
<1> DEFINE queue == draftQueue[account]
           first == firstRemainingDraft[account]
           amount == DraftsUpTo(queue, endId) - DraftsUpTo(queue, first)
<1>1. /\ firstRemainingDraft \in [Accounts -> Nat]
      /\ Len(queue) \in Nat /\ first \in Nat /\ endId \in Nat
      /\ endId <= Len(queue) /\ first < endId /\ totalDrafts \in Nat
  BY DEF IInv, TypeOK, Withdraw
<1>2. /\ firstRemainingDraft' = [firstRemainingDraft EXCEPT ![account] = endId]
      /\ UNCHANGED draftQueue
      /\ totalDrafts' = totalDrafts \/ totalDrafts' = totalDrafts - amount
  BY DEF Withdraw
<1>3. /\ DraftsUpTo(queue, first) \in Nat /\ DraftsUpTo(queue, endId) \in Nat
      /\ DraftsUpTo(queue, first) <= DraftsUpTo(queue, endId)
  <2>1. first \in 0..Len(queue) /\ endId \in first..Len(queue)
    BY <1>1
  <2> QED
    BY <2>1, DraftsIncrease
<1>4. DraftsUpTo(queue, Len(queue)) \in Nat
  <2>1. endId \in 0..Len(queue) /\ Len(queue) \in endId..Len(queue)
    BY <1>1
  <2> QED
    BY <2>1, DraftsIncrease
<1>5. /\ DraftSum(account) = DraftsUpTo(queue, Len(queue)) - DraftsUpTo(queue, first)
      /\ DraftSum(account)' = DraftsUpTo(queue, Len(queue)) - DraftsUpTo(queue, endId)
  BY <1>1, <1>2 DEF DraftSum
<1>6. ASSUME NEW a \in Accounts, a # account PROVE DraftSum(a)' = DraftSum(a)
  BY <1>1, <1>2, <1>6 DEF DraftSum
<1>7. DraftSum(account)' - DraftSum(account) <= totalDrafts' - totalDrafts
  <2> HIDE DEF queue, first
  <2> QED
    BY <1>1, <1>2, <1>3, <1>4, <1>5
<1> QED
  BY <1>6, <1>7 DEF DraftsDue

\* unstake() and withdraw() keep the sum of what is due within totalDrafts, and
\* a new draft era resets both.
LEMMA DraftsCoveredKept ==
  ASSUME IInv, DraftsCovered, DraftsDueTyped, DraftsDueTyped', [Next]_vars
  PROVE  DraftsCovered'
<1> USE DEF DraftsCovered
<1>1. /\ IInv' /\ DraftsDue \in [Accounts -> Nat] /\ DraftsDue' \in [Accounts -> Nat]
      /\ totalDrafts \in Nat /\ totalDrafts' \in Nat
  <2>1. IInv'
    BY NextInv
  <2> QED
    BY <2>1 DEF IInv, TypeOK, DraftsDueTyped
<1>2. CASE UNCHANGED <<draftQueue, firstRemainingDraft, totalDrafts>>
  <2>1. DraftsDue' = DraftsDue
    BY <1>2 DEF DraftsDue, DraftSum
  <2> QED
    BY <1>2, <2>1 DEF DraftsDue
<1>3. ASSUME NEW a \in Accounts,
             DraftsDue'[a] - DraftsDue[a] <= totalDrafts' - totalDrafts,
             \A x \in Accounts \ {a} : DraftsDue'[x] = DraftsDue[x]
      PROVE  DraftsCovered'
  <2>1. /\ SumFunction(DraftsDue) \in Nat /\ SumFunction(DraftsDue') \in Nat
        /\ SumFunction(DraftsDue') = SumFunction(DraftsDue)
                                      + (DraftsDue'[a] - DraftsDue[a])
    BY <1>1, <1>3, BalancesSum
  <2>2. DraftsDue[a] \in Nat /\ DraftsDue'[a] \in Nat
    BY <1>1
  <2>3. SumFunction(DraftsDue) <= totalDrafts
    BY DEF DraftsDue
  <2>4. SumFunction(DraftsDue') <= totalDrafts'
    BY <1>1, <1>3, <2>1, <2>2, <2>3
  <2> QED
    BY <2>4 DEF DraftsDue
<1>4. CASE \E a \in Accounts : \E amount \in 1..stakes[a] : Unstake(a, amount)
  <2>1. PICK a \in Accounts : \E rsrAmount : PushDraft(a, rsrAmount)
    BY <1>4 DEF Unstake
  <2>2. PICK rsrAmount : PushDraft(a, rsrAmount)
    BY <2>1
  <2>3. /\ DraftsDue'[a] = DraftsDue[a] + (totalDrafts' - totalDrafts)
        /\ \A x \in Accounts \ {a} : DraftsDue'[x] = DraftsDue[x]
    BY <1>1, <2>2, PushAddsUp
  <2>4. DraftsDue[a] \in Nat
    BY <1>1
  <2> QED
    BY <1>1, <1>3, <2>3, <2>4
<1>5. CASE \E a \in Accounts : \E endId \in 1..Len(draftQueue[a]) : Withdraw(a, endId)
  BY <1>3, <1>5, WithdrawAddsUp
<1>6. ASSUME NEW r \in 1..rsrBalance, SeizeRSR(r)
      PROVE  DraftsCovered'
  <2>1. CASE BeginDraftEra
    <3>1. \A a \in Accounts : draftQueue'[a] = <<>> /\ firstRemainingDraft'[a] = 0
      BY <2>1 DEF BeginDraftEra, NoDrafts
    <3>2. \A a \in Accounts : DraftSum(a)' = 0
      BY <3>1 DEF DraftSum, DraftsUpTo
    <3>3. DraftsDue' = [a \in Accounts |-> 0]
      BY <3>2 DEF DraftsDue
    <3>4. SumFunction(DraftsDue') = 0
      BY <3>3, AccountsAssumption, SumZero
    <3> QED
      BY <1>1, <3>4 DEF DraftsDue
  <2>2. CASE ~BeginDraftEra
    BY <1>6, <2>2, <1>2 DEF SeizeRSR, SeizeDrafts
  <2> QED
    BY <2>1, <2>2
<1>7. CASE \/ PayoutRewards
           \/ \E a \in Accounts, amount \in 1..MaxRSR : Stake(a, amount)
           \/ \E from, to \in Accounts :
                \E amount \in 1..stakes[from] : from # to /\ Transfer(from, to, amount)
  BY <1>2, <1>7 DEF PayoutRewards, Stake, Transfer, draftPool
<1> QED
  BY <1>2, <1>4, <1>5, <1>6, <1>7, OtherInv DEF Next, draftPool, vars

\* The drafts due to all accounts never exceed totalDrafts: withdraw() cannot
\* underflow it, whatever drafts of no value were left in it.
THEOREM DraftsAreCovered == Spec => []DraftsCovered
<1>1. ASSUME Init PROVE DraftsCovered
  <2>1. \A a \in Accounts : DraftSum(a) = 0
    BY <1>1 DEF Init, NoDrafts, DraftSum, DraftsUpTo
  <2>2. SumFunction([a \in Accounts |-> DraftSum(a)]) = 0
    BY <2>1, AccountsAssumption, SumZero
  <2> QED
    BY <1>1, <2>2 DEF Init, DraftsCovered
<1>2. /\ IInv /\ DraftsCovered /\ DraftsDueTyped /\ DraftsDueTyped'
      /\ [Next]_vars
      => DraftsCovered'
  BY DraftsCoveredKept
<1> QED
  BY <1>1, <1>2, DraftsDueType, Invariance, PTL DEF Spec
=============================================================================
