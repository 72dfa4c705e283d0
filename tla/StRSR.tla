------------------------------- MODULE StRSR --------------------------------
(***************************************************************************)
(* The staking pool of the protocol, contracts/p1/StRSR.sol.               *)
(*                                                                         *)
(* Accounts stake RSR and receive stRSR, a share of stakeRSR.  Unstaking   *)
(* moves RSR from the stake pool to the draft pool and appends a draft, a  *)
(* share of draftRSR that its account may withdraw after unstakingDelay.   *)
(* RSR that the contract holds and that neither pool accounts for is       *)
(* reward, handed to the stake pool period by period.  The backing manager *)
(* may seize RSR, from both pools and from the rewards, to recapitalise    *)
(* the RToken.                                                             *)
(*                                                                         *)
(* A variable has the name of the field it models.  Of the mappings that   *)
(* the contract keys by era only the current era's entry is kept, the way  *)
(* the contract's own analysis does ("let bal be the map stakes[era]"):    *)
(* eras only grow, so no older entry is ever read again.                   *)
(***************************************************************************)
EXTENDS FixedPoint, Sequences, FiniteSetsExt, Functions

CONSTANTS
  Accounts,      \* holders of stRSR
  FIX_ONE,       \* the D18 number 1 (1e18 in the code)
  MAX_RATE,      \* MAX_STAKE_RATE = MAX_DRAFT_RATE (1e27 in the code)
  Delays,        \* values governance gives to unstakingDelay
  Periods,       \* values governance gives to rewardPeriod
  Ratios,        \* values governance gives to rewardRatio
  InitRSR,       \* amounts of RSR the contract may hold before init()
  PauseStates,   \* values of main.pausedOrFrozen(), BOOLEAN unless a run is
  BasketStates,  \* not about them; the same for the state of the basket
  MaxRSR,        \* bound: RSR the contract holds
  MaxTime,       \* bound: block.timestamp
  MaxEra,        \* bound: era and draftEra
  MaxDrafts      \* bound: length of an account's draft queue

\* Addresses have 160 bits.
ASSUME AccountsAssumption == IsFiniteSet(Accounts)
ASSUME ScaleAssumption ==
  /\ FIX_ONE \in Nat \ {0}
  /\ MAX_RATE \in Nat /\ FIX_ONE <= MAX_RATE
ASSUME ParamAssumption ==
  /\ Delays \subseteq Nat \ {0}
  /\ Periods \subseteq Nat \ {0}
  /\ Ratios \subseteq 0..FIX_ONE
  /\ InitRSR \subseteq 0..MaxRSR
  /\ PauseStates \subseteq BOOLEAN /\ BasketStates \subseteq BOOLEAN
ASSUME BoundAssumption ==
  MaxRSR \in Nat /\ MaxTime \in Nat /\ MaxEra \in Nat /\ MaxDrafts \in Nat

VARIABLES
  era, stakes, totalStakes, stakeRSR, stakeRate,
  draftEra, draftQueue, firstRemainingDraft, totalDrafts, draftRSR, draftRate,
  payoutLastPaid, rsrRewardsAtLastPayout,
  unstakingDelay, rewardPeriod, rewardRatio,
  rsrBalance,        \* rsr.balanceOf(address(this))
  now,               \* block.timestamp
  pausedOrFrozen,    \* main.pausedOrFrozen()
  basketSound        \* fullyCollateralized() and status() == SOUND

stakePool == <<era, stakes, totalStakes, stakeRSR, stakeRate>>
draftPool == <<draftEra, draftQueue, firstRemainingDraft, totalDrafts,
               draftRSR, draftRate>>
payoutVars == <<payoutLastPaid, rsrRewardsAtLastPayout>>
params == <<unstakingDelay, rewardPeriod, rewardRatio>>
environment == <<now, pausedOrFrozen, basketSound>>
vars == <<stakePool, draftPool, payoutVars, params, rsrBalance, environment>>

Draft == [drafts : Nat, availableAt : Nat]

-----------------------------------------------------------------------------
(* Views *)

\* rsrRewards(): reverts when negative.
RsrRewards == rsrBalance - stakeRSR - draftRSR

\* Drafts an account has queued up to and including its id-th, in this era.
DraftsUpTo(queue, id) == IF id > 0 THEN queue[id].drafts ELSE 0

\* draftSum(r) of the contract's analysis: drafts still due to an account.
DraftSum(a) == DraftsUpTo(draftQueue[a], Len(draftQueue[a]))
                 - DraftsUpTo(draftQueue[a], firstRemainingDraft[a])

-----------------------------------------------------------------------------
(* Initial state: init() *)

NoStakes == [a \in Accounts |-> 0]
NoDrafts == [a \in Accounts |-> <<>>]

Init ==
  /\ era = 1 /\ stakes = NoStakes /\ totalStakes = 0
  /\ stakeRSR = 0 /\ stakeRate = FIX_ONE
  /\ draftEra = 1 /\ draftQueue = NoDrafts
  /\ firstRemainingDraft = [a \in Accounts |-> 0]
  /\ totalDrafts = 0 /\ draftRSR = 0 /\ draftRate = FIX_ONE
  /\ now = 0 /\ payoutLastPaid = now
  /\ rsrBalance \in InitRSR /\ rsrRewardsAtLastPayout = rsrBalance
  /\ unstakingDelay \in Delays /\ rewardPeriod \in Periods
  /\ rewardPeriod * 2 <= unstakingDelay
  /\ rewardRatio \in Ratios
  /\ pausedOrFrozen \in PauseStates /\ basketSound \in BasketStates

-----------------------------------------------------------------------------
(* _payoutRewards() *)

PayoutDue == now >= payoutLastPaid + rewardPeriod
NumPeriods == (now - payoutLastPaid) \div rewardPeriod
PayoutRatio == FIX_ONE - FixPowU(FIX_ONE, FIX_ONE - rewardRatio, NumPeriods)
Payout == (PayoutRatio * rsrRewardsAtLastPayout) \div FIX_ONE

\* Mutation: the subtraction in rsrRewards() is unchecked.
PayoutRevertsUnchecked == FALSE

\* Assigning rsrRewards() underflows when the payout exceeds the rewards.
PayoutReverts == PayoutDue /\ Payout > RsrRewards

\* The fields _payoutRewards() writes, as they are and as it leaves them.
Pool == [stakeRSR |-> stakeRSR, stakeRate |-> stakeRate,
         lastPaid |-> payoutLastPaid, rewards |-> rsrRewardsAtLastPayout]
PaidOut ==
  IF ~PayoutDue THEN Pool
  ELSE LET newStakeRSR == stakeRSR + Payout
       IN  [stakeRSR |-> newStakeRSR,
            stakeRate |-> IF newStakeRSR = 0 \/ totalStakes = 0 THEN FIX_ONE
                          ELSE CeilDiv(totalStakes * FIX_ONE, newStakeRSR),
            lastPaid |-> payoutLastPaid + NumPeriods * rewardPeriod,
            rewards |-> RsrRewards - Payout]

SetPayoutVars(pool) ==
  /\ payoutLastPaid' = pool.lastPaid
  /\ rsrRewardsAtLastPayout' = pool.rewards

\* payoutRewards()
PayoutRewards ==
  /\ ~pausedOrFrozen /\ ~PayoutReverts
  /\ stakeRSR' = PaidOut.stakeRSR /\ stakeRate' = PaidOut.stakeRate
  /\ SetPayoutVars(PaidOut)
  /\ UNCHANGED <<era, stakes, totalStakes, draftPool, params, rsrBalance,
                 environment>>

-----------------------------------------------------------------------------
(* Staking and unstaking *)

\* stake(): goes on while paused or frozen, without paying rewards.
Stake(account, amount) ==
  /\ amount > 0 /\ rsrBalance + amount <= MaxRSR
  /\ pausedOrFrozen \/ ~PayoutReverts
  /\ LET pool == IF pausedOrFrozen THEN Pool ELSE PaidOut
         newStakeRSR == pool.stakeRSR + amount
         newTotalStakes == (pool.stakeRate * newStakeRSR) \div FIX_ONE
     IN  /\ newTotalStakes >= totalStakes
         /\ stakeRSR' = newStakeRSR
         /\ stakeRate' = pool.stakeRate
         /\ totalStakes' = newTotalStakes
         /\ stakes' = [stakes EXCEPT
                         ![account] = @ + (newTotalStakes - totalStakes)]
         /\ SetPayoutVars(pool)
  /\ rsrBalance' = rsrBalance + amount
  /\ UNCHANGED <<era, draftPool, params, environment>>

\* Mutation: a draft ignores when the drafts before it are available.
AvailableAfterDelay(queue) == now + unstakingDelay

\* pushDraft(): the new draft is available no earlier than the ones before it.
AvailableAt(queue) ==
  LET last == IF queue = <<>> THEN 0 ELSE queue[Len(queue)].availableAt
  IN  IF last > now + unstakingDelay THEN last ELSE now + unstakingDelay

PushDraft(account, rsrAmount) ==
  LET newTotalDrafts == (draftRate * (draftRSR + rsrAmount)) \div FIX_ONE
      queue == draftQueue[account]
      draft == [drafts |-> DraftsUpTo(queue, Len(queue))
                             + (newTotalDrafts - totalDrafts),
                availableAt |-> AvailableAt(queue)]
  IN  /\ newTotalDrafts >= totalDrafts
      /\ draftRSR' = draftRSR + rsrAmount
      /\ totalDrafts' = newTotalDrafts
      /\ draftQueue' = [draftQueue EXCEPT ![account] = Append(@, draft)]
      /\ UNCHANGED <<draftEra, firstRemainingDraft, draftRate>>

\* unstake(): stakes are burnt and the RSR they stood for becomes a draft.
Unstake(account, amount) ==
  /\ ~pausedOrFrozen /\ ~PayoutReverts
  /\ amount > 0 /\ amount <= stakes[account]
  /\ Len(draftQueue[account]) < MaxDrafts
  /\ LET newTotalStakes == totalStakes - amount
         newStakeRSR == CeilDiv(FIX_ONE * newTotalStakes, PaidOut.stakeRate)
     IN  /\ newTotalStakes >= 0 /\ newStakeRSR <= PaidOut.stakeRSR
         /\ stakes' = [stakes EXCEPT ![account] = @ - amount]
         /\ totalStakes' = newTotalStakes
         /\ stakeRSR' = newStakeRSR
         /\ stakeRate' = PaidOut.stakeRate
         /\ PushDraft(account, PaidOut.stakeRSR - newStakeRSR)
  /\ SetPayoutVars(PaidOut)
  /\ UNCHANGED <<era, params, rsrBalance, environment>>

\* Mutation: a draft has to be past its time.
AvailableLate(draft) == draft.availableAt < now

\* withdraw() reads the clock at the end of the drafts it pays.
Available(draft) == draft.availableAt <= now

\* withdraw(): pays every draft up to endId; when that comes to no RSR at all
\* it returns after the queue has advanced and before the totals change.
Withdraw(account, endId) ==
  /\ ~pausedOrFrozen /\ basketSound
  /\ firstRemainingDraft[account] < endId
  /\ endId <= Len(draftQueue[account])
  /\ Available(draftQueue[account][endId])
  /\ firstRemainingDraft' = [firstRemainingDraft EXCEPT ![account] = endId]
  /\ LET draftAmount == DraftsUpTo(draftQueue[account], endId)
           - DraftsUpTo(draftQueue[account], firstRemainingDraft[account])
         newTotalDrafts == totalDrafts - draftAmount
         newDraftRSR == CeilDiv(newTotalDrafts * FIX_ONE, draftRate)
         rsrAmount == draftRSR - newDraftRSR
     IN  /\ newTotalDrafts >= 0 /\ rsrAmount >= 0
         /\ \/ /\ rsrAmount = 0
               /\ UNCHANGED <<totalDrafts, draftRSR, rsrBalance>>
            \/ /\ rsrAmount > 0
               /\ totalDrafts' = newTotalDrafts
               /\ draftRSR' = newDraftRSR
               /\ rsrBalance' = rsrBalance - rsrAmount
  /\ UNCHANGED <<stakePool, draftEra, draftQueue, draftRate, payoutVars,
                 params, environment>>

\* _transfer(): stakes move, no RSR does.
Transfer(from, to, amount) ==
  /\ amount <= stakes[from]
  /\ stakes' = [[stakes EXCEPT ![from] = @ - amount] EXCEPT ![to] = @ + amount]
  /\ UNCHANGED <<era, totalStakes, stakeRSR, stakeRate, draftPool, payoutVars,
                 params, rsrBalance, environment>>

-----------------------------------------------------------------------------
(* seizeRSR() *)

\* Mutation: a share is rounded down.
ShareRoundedDown(rsr, r) == (rsr * r) \div rsrBalance

\* The part of an amount of RSR that goes when r of all the RSR is seized.
Share(rsr, r) == CeilDiv(rsr * r, rsrBalance)

\* Mutations: the seized RSR stays on a pool's books.
StakeRSRKept(r) == stakeRSR
DraftRSRKept(r) == draftRSR

StakeRSRLeft(r) == stakeRSR - Share(stakeRSR, r)
StakeRateLeft(r) ==
  IF StakeRSRLeft(r) > 0 THEN CeilDiv(FIX_ONE * totalStakes, StakeRSRLeft(r))
  ELSE stakeRate
WipesStakes(r) == StakeRSRLeft(r) = 0 \/ StakeRateLeft(r) > MAX_RATE

DraftRSRLeft(r) == draftRSR - Share(draftRSR, r)
DraftRateLeft(r) ==
  IF DraftRSRLeft(r) > 0 THEN CeilDiv(FIX_ONE * totalDrafts, DraftRSRLeft(r))
  ELSE draftRate
\* Mutation: MAX_DRAFT_RATE is not looked at.
WipesDraftsAtZeroOnly(r) == DraftRSRLeft(r) = 0

WipesDrafts(r) == DraftRSRLeft(r) = 0 \/ DraftRateLeft(r) > MAX_RATE

\* seizedRSR: what is transferred when r is asked for.
SeizedRSR(r) ==
  (IF WipesStakes(r) THEN stakeRSR ELSE Share(stakeRSR, r))
    + (IF WipesDrafts(r) THEN draftRSR ELSE Share(draftRSR, r))
    + Share(RsrRewards, r)

\* Mutation: a new era keeps the balances of the old one.
BeginEraKeepingBalances ==
  /\ era < MaxEra
  /\ era' = era + 1
  /\ totalStakes' = 0 /\ stakeRSR' = 0 /\ stakeRate' = FIX_ONE
  /\ UNCHANGED stakes

\* beginEra(): all balances are reset.
BeginEra ==
  /\ era < MaxEra
  /\ era' = era + 1
  /\ stakes' = NoStakes
  /\ totalStakes' = 0 /\ stakeRSR' = 0 /\ stakeRate' = FIX_ONE

SeizeStakes(r) ==
  IF WipesStakes(r) THEN BeginEra
  ELSE /\ StakeRateLeft(r) > 0       \* exchangeRate() divides by it
       /\ stakeRSR' = StakeRSRLeft(r)
       /\ stakeRate' = StakeRateLeft(r)
       /\ UNCHANGED <<era, stakes, totalStakes>>

\* Mutation: a new draft era keeps the queues of the old one.
BeginDraftEraKeepingQueues ==
  /\ draftEra < MaxEra
  /\ draftEra' = draftEra + 1
  /\ totalDrafts' = 0 /\ draftRSR' = 0 /\ draftRate' = FIX_ONE
  /\ UNCHANGED <<draftQueue, firstRemainingDraft>>

\* beginDraftEra(): all unstakings are reset.
BeginDraftEra ==
  /\ draftEra < MaxEra
  /\ draftEra' = draftEra + 1
  /\ draftQueue' = NoDrafts
  /\ firstRemainingDraft' = [a \in Accounts |-> 0]
  /\ totalDrafts' = 0 /\ draftRSR' = 0 /\ draftRate' = FIX_ONE

SeizeDrafts(r) ==
  IF WipesDrafts(r) THEN BeginDraftEra
  ELSE /\ draftRSR' = DraftRSRLeft(r)
       /\ draftRate' = DraftRateLeft(r)
       /\ UNCHANGED <<draftEra, draftQueue, firstRemainingDraft, totalDrafts>>

SeizeRSR(r) ==
  /\ ~pausedOrFrozen
  /\ r > 0 /\ r <= rsrBalance
  /\ SeizeStakes(r)
  /\ SeizeDrafts(r)
  /\ rsrBalance' = rsrBalance - SeizedRSR(r)
  /\ UNCHANGED <<payoutVars, params, environment>>

-----------------------------------------------------------------------------
(* Governance *)

\* setUnstakingDelay()
SetUnstakingDelay(delay) ==
  /\ delay # unstakingDelay /\ rewardPeriod * 2 <= delay
  /\ unstakingDelay' = delay
  /\ UNCHANGED <<stakePool, draftPool, payoutVars, rewardPeriod, rewardRatio,
                 rsrBalance, environment>>

\* setRewardPeriod()
SetRewardPeriod(period) ==
  /\ period # rewardPeriod /\ period * 2 <= unstakingDelay
  /\ rewardPeriod' = period
  /\ UNCHANGED <<stakePool, draftPool, payoutVars, unstakingDelay,
                 rewardRatio, rsrBalance, environment>>

\* setRewardRatio()
SetRewardRatio(ratio) ==
  /\ ratio # rewardRatio
  /\ rewardRatio' = ratio
  /\ UNCHANGED <<stakePool, draftPool, payoutVars, unstakingDelay,
                 rewardPeriod, rsrBalance, environment>>

-----------------------------------------------------------------------------
(* The rest of the world *)

\* RSR arrives by a plain transfer: revenue from the Distributor, or a gift.
ReceiveRSR(amount) ==
  /\ rsrBalance + amount <= MaxRSR
  /\ rsrBalance' = rsrBalance + amount
  /\ UNCHANGED <<stakePool, draftPool, payoutVars, params, environment>>

\* Main is paused, frozen or released.
SetPausedOrFrozen(status) ==
  /\ pausedOrFrozen # status
  /\ pausedOrFrozen' = status
  /\ UNCHANGED <<stakePool, draftPool, payoutVars, params, rsrBalance, now,
                 basketSound>>

\* The RToken's basket defaults, loses or regains full collateralization.
SetBasketSound(status) ==
  /\ basketSound # status
  /\ basketSound' = status
  /\ UNCHANGED <<stakePool, draftPool, payoutVars, params, rsrBalance, now,
                 pausedOrFrozen>>

\* Time passes.
Tick ==
  /\ now < MaxTime
  /\ now' = now + 1
  /\ UNCHANGED <<stakePool, draftPool, payoutVars, params, rsrBalance,
                 pausedOrFrozen, basketSound>>

-----------------------------------------------------------------------------

Next ==
  \/ PayoutRewards
  \/ \E a \in Accounts, amount \in 1..MaxRSR : Stake(a, amount)
  \/ \E a \in Accounts : \E amount \in 1..stakes[a] : Unstake(a, amount)
  \/ \E a \in Accounts : \E endId \in 1..Len(draftQueue[a]) : Withdraw(a, endId)
  \/ \E from, to \in Accounts :
       \E amount \in 1..stakes[from] : from # to /\ Transfer(from, to, amount)
  \/ \E r \in 1..rsrBalance : SeizeRSR(r)
  \/ \E delay \in Delays : SetUnstakingDelay(delay)
  \/ \E period \in Periods : SetRewardPeriod(period)
  \/ \E ratio \in Ratios : SetRewardRatio(ratio)
  \/ \E amount \in 1..MaxRSR : ReceiveRSR(amount)
  \/ \E status \in PauseStates : SetPausedOrFrozen(status)
  \/ \E status \in BasketStates : SetBasketSound(status)
  \/ Tick

Spec == Init /\ [][Next]_vars

\* Time passes, and whoever awaits a withdrawal keeps calling withdraw(),
\* which is open to anyone, for all the drafts that are available: the call
\* succeeds if the system is time and again released and sound.
Fairness ==
  /\ WF_vars(Tick)
  /\ \A a \in Accounts :
       SF_vars(\E endId \in 1..Len(draftQueue[a]) : Withdraw(a, endId))

LiveSpec == Spec /\ Fairness

-----------------------------------------------------------------------------
(* Correctness *)

TypeOK ==
  /\ era \in Nat /\ draftEra \in Nat
  /\ stakes \in [Accounts -> Nat] /\ totalStakes \in Nat
  /\ stakeRSR \in Nat /\ stakeRate \in Nat
  /\ draftQueue \in [Accounts -> Seq(Draft)]
  /\ firstRemainingDraft \in [Accounts -> Nat]
  /\ totalDrafts \in Nat /\ draftRSR \in Nat /\ draftRate \in Nat
  /\ payoutLastPaid \in 0..now /\ rsrRewardsAtLastPayout \in Nat
  /\ unstakingDelay \in Delays /\ rewardPeriod \in Periods
  /\ rewardRatio \in Ratios
  /\ rsrBalance \in 0..MaxRSR /\ now \in 0..MaxTime
  /\ pausedOrFrozen \in BOOLEAN /\ basketSound \in BOOLEAN

\* Both pools are backed by RSR the contract really holds, so that
\* rsrRewards() never underflows in a payout, a seizure or a view.
Solvent == stakeRSR + draftRSR <= rsrBalance

\* Each pool's RSR covers its shares at the pool's rate: the second halves of
\* [stake-rate] and [draft-rate], which unstake(), pushDraft() and withdraw()
\* rely on when they subtract the rounded new total from the old one.
RatesCover ==
  /\ totalStakes * FIX_ONE <= stakeRSR * stakeRate
  /\ totalDrafts * FIX_ONE <= draftRSR * draftRate

\* [max-stake-rate] and [max-draft-rate]: neither rate is zero, though
\* seizeRSR() recomputes both from pools it may just have emptied.  Drafts
\* earn nothing, so one draft is never worth more than one RSR, and no draft
\* RSR is without an owner.
RatesBounded ==
  /\ 0 < stakeRate /\ stakeRate <= MAX_RATE
  /\ FIX_ONE <= draftRate /\ draftRate <= MAX_RATE
  /\ draftRSR <= totalDrafts

\* No checked subtraction of stake(), unstake() or pushDraft() ever reverts:
\* rounding leaves each total on the right side of the one it is taken from.
NoUnderflow ==
  ~PayoutReverts =>
    /\ \A amount \in 1..MaxRSR :
         (PaidOut.stakeRate * (PaidOut.stakeRSR + amount)) \div FIX_ONE
           >= totalStakes
    /\ \A amount \in 1..totalStakes :
         CeilDiv(FIX_ONE * (totalStakes - amount), PaidOut.stakeRate)
           <= PaidOut.stakeRSR
    /\ \A rsrAmount \in 0..stakeRSR :
         (draftRate * (draftRSR + rsrAmount)) \div FIX_ONE >= totalDrafts
    /\ \A draftAmount \in 0..totalDrafts :
         CeilDiv((totalDrafts - draftAmount) * FIX_ONE, draftRate) <= draftRSR

\* [total-stakes]: balances add up to the total, in whatever era.
StakesAddUp == totalStakes = SumFunction(stakes)

\* The drafts still due to all accounts never exceed totalDrafts, so that
\* withdraw() cannot underflow it.  [total-drafts] claims equality: see
\* DraftsAddUp.
DraftsCovered == SumFunction([a \in Accounts |-> DraftSum(a)]) <= totalDrafts

\* An account's draft queue is ordered both by cumulative drafts and by time of
\* availability, across changes of unstakingDelay, and is read within bounds.
QueuesOrdered ==
  \A a \in Accounts :
    /\ firstRemainingDraft[a] <= Len(draftQueue[a])
    /\ \A i, j \in DOMAIN draftQueue[a] : i < j =>
         /\ draftQueue[a][i].drafts <= draftQueue[a][j].drafts
         /\ draftQueue[a][i].availableAt <= draftQueue[a][j].availableAt

\* Every draft that a withdrawal pays is available, not only the last one,
\* whose time is the only one withdraw() looks at.
OnlyAvailableDraftsLeave ==
  [][\A a \in Accounts :
       draftEra' = draftEra =>
         \A i \in firstRemainingDraft[a] + 1 .. firstRemainingDraft'[a] :
           draftQueue[a][i].availableAt <= now]_vars

\* Stakers' shares lose value in a seizure only: no stake, unstaking,
\* withdrawal, payout or rounding of one account dilutes the others.
NoDilution ==
  [][totalStakes > 0 /\ stakeRate' > stakeRate => rsrBalance' < rsrBalance]_vars

\* "Must seize at least rsrAmount": a seizure yields what was asked for, never
\* more than the contract holds and, when no pool is wiped out, at most the
\* two qRSR more that rounding up three shares can bring.
SeizureExact ==
  [][\A r \in 1..rsrBalance :
       SeizeRSR(r) =>
         /\ rsrBalance - rsrBalance' >= r
         /\ ~WipesStakes(r) /\ ~WipesDrafts(r) =>
              rsrBalance - rsrBalance' <= r + 2]_vars

\* "When RSR is seized it is seized uniformly" from stakes and from drafts:
\* unless a pool is wiped out, the pools keep their proportion to within the
\* rounding of one qRSR each.
SeizureUniform ==
  [][rsrBalance' < rsrBalance /\ stakeRSR' < stakeRSR
       /\ era' = era /\ draftEra' = draftEra =>
       /\ stakeRSR' * draftRSR <= draftRSR' * stakeRSR + stakeRSR
       /\ draftRSR' * stakeRSR <= stakeRSR' * draftRSR + draftRSR]_vars

\* A draft leaves its queue, or is wiped out with all others, once its time has
\* come, as long as the system is released and the basket sound time and again.
DraftsGetOut ==
  []<>(~pausedOrFrozen /\ basketSound) =>
    \A a \in Accounts, i \in 1..MaxDrafts, e \in 1..MaxEra :
      (/\ draftEra = e /\ i \in firstRemainingDraft[a] + 1 .. Len(draftQueue[a])
       /\ draftQueue[a][i].availableAt <= MaxTime)
        ~> (draftEra # e \/ firstRemainingDraft[a] >= i)

-----------------------------------------------------------------------------
(* What the contract's comments say of it and the code does not do *)

\* "rsrRewards'() = rsrRewards() - payout (implicit in the code, but true)": a
\* payout is a part of the rewards there are.  A seizure in between lowers the
\* rewards and not rsrRewardsAtLastPayout.
PayoutsPossible == ~PayoutReverts

\* [total-drafts]: totalDrafts == sum(draftSum(draft[acct]) for acct in draft).
\* A withdrawal that comes to no RSR leaves the queue and stays in the total.
DraftsAddUp == SumFunction([a \in Accounts |-> DraftSum(a)]) = totalDrafts

\* [stake-rate]: if totalStakes == 0, then stakeRSR == 0.  A payout while nobody
\* stakes gives the pool RSR without shares; seizeRSR() then computes a stake
\* rate of zero and reverts as exchangeRate() divides by it.
NoStakesNoRSR == totalStakes = 0 => stakeRSR = 0
=============================================================================
