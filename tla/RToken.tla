------------------------------- MODULE RToken -------------------------------
(***************************************************************************)
(* Issuance and redemption of the RToken, contracts/p1/RToken.sol.         *)
(*                                                                         *)
(* An issuance that does not fit into what is left of the block's issuance *)
(* rate waits in its account's queue.  An item of a queue is a fencepost:  *)
(* it accumulates all that was issued up to it, and an issuance is the     *)
(* difference of two items.  The pending ones are those after left, up to  *)
(* the last item.                                                          *)
(*                                                                         *)
(* A variable has the name of the field it models.  Left out of a queue    *)
(* are the slots of its array at and beyond right, which are overwritten   *)
(* before they are read (right is the number of items), and its tokens,    *)
(* which are those of the basket with its nonce.  Who holds RToken is left *)
(* to the ERC20 library, and one transaction is one step: a token's        *)
(* transfer does not call back.                                            *)
(***************************************************************************)
EXTENDS FixedPoint, RedemptionBattery, Sequences, FiniteSetsExt

CONSTANTS
  Accounts,        \* issuers
  Tokens,          \* registered collateral tokens
  BasketTokens,    \* BasketTokens[n]: the tokens of the basket with nonce n
  Quantities,      \* D18 units of a token that a basket unit may hold
  MIN_BLOCK_ISSUANCE_LIMIT,
  MIN_BU_RATE,     \* bounds of the D18 rate of baskets to RToken,
  MAX_BU_RATE,     \* 1e9 and 1e27 in the code
  IssuanceRates,   \* values governance gives to issuanceRate,
  RateFloors,      \* to battery.redemptionRateFloor,
  ScalingRates,    \* and to battery.scalingRedemptionRate
  Modes,           \* modes of main that a run is about
  BasketStatuses,  \* the same for statuses of the basket
  IssueAmounts,    \* amounts of RToken that are issued,
  RedeemAmounts,   \* redeemed,
  MintAmounts,     \* minted by the backing manager,
  Melts,           \* and melted by the furnace (0 is in it)
  TradedBalances,  \* balances that trades of the backing manager end in
  WindowStarts,    \* blocks at which windows of RedemptionThrottled start
  MaxSupply,       \* bound: supply of RToken
  MaxBalance,      \* bound: balances of a collateral token
  MaxRewards,      \* bound: rewards of a token not yet swept
  MaxQueue,        \* bound: items in a queue
  MaxNonce,        \* bound: nonce of the basket
  MaxBlock,        \* bound: block.number
  MaxWhen          \* bound: D18 block number of the last issuance

ASSUME ScaleAssumption ==
  /\ FIX_ONE \in Nat \ {0} /\ BLOCKS_PER_HOUR \in Nat \ {0}
  /\ MIN_BLOCK_ISSUANCE_LIMIT \in Nat \ {0}
  /\ MIN_BU_RATE \in Nat /\ MAX_BU_RATE \in Nat
\* Addresses have 160 bits, and governance's rates 192.
ASSUME FiniteAssumption == IsFiniteSet(Accounts) /\ IsFiniteSet(RateFloors)
ASSUME BasketAssumption ==
  /\ BasketTokens \in [1..MaxNonce -> SUBSET Tokens]
  /\ Quantities \subseteq Nat \ {0}
ASSUME ParamAssumption ==
  /\ IssuanceRates \subseteq 1..FIX_ONE
  /\ RateFloors \subseteq Nat /\ ScalingRates \subseteq 0..FIX_ONE
  /\ Modes \subseteq {"running", "paused", "frozen"}
  /\ BasketStatuses \subseteq {"SOUND", "IFFY", "DISABLED"}
ASSUME InputAssumption ==
  /\ IssueAmounts \subseteq Nat \ {0} /\ RedeemAmounts \subseteq Nat \ {0}
  /\ MintAmounts \subseteq Nat \ {0} /\ Melts \subseteq Nat
  /\ TradedBalances \subseteq Nat /\ WindowStarts \subseteq Nat
ASSUME BoundAssumption ==
  /\ MaxSupply \in Nat /\ MaxBalance \in Nat /\ MaxRewards \in Nat
  /\ MaxQueue \in Nat
  /\ MaxNonce \in Nat \ {0} /\ MaxBlock \in Nat \ {0} /\ MaxWhen \in Nat

VARIABLES
  totalSupply, basketsNeeded,
  issueQueues, liabilities, allVestAt,
  lastIssRate, lastIssRateBlock, issuanceRate, battery,
  escrow,            \* escrow[t]: t.balanceOf(address(this))
  backing,           \* backing[t]: t.balanceOf(address(backingManager))
  nonce,             \* basketHandler.nonce()
  quantity,          \* basketHandler.quantity(t)
  status,            \* basketHandler.status()
  mode,              \* what main.paused() and main.frozen() say
  blockNumber,       \* block.number
  issuedInBlock,     \* history: RToken issued in this block without waiting
  windowStart,       \* history: a block, and the RToken redeemed since it
                     \* against the battery
  redeemedInWindow

supplyVars == <<totalSupply, basketsNeeded>>
queueVars == <<issueQueues, liabilities, escrow>>
rateVars == <<allVestAt, lastIssRate, lastIssRateBlock>>
environment == <<nonce, quantity, status, mode, blockNumber>>
redemptionVars == <<battery, windowStart, redeemedInWindow>>
vars == <<supplyVars, queueVars, rateVars, issuanceRate, backing, environment,
          issuedInBlock, redemptionVars>>

PerToken == [Tokens -> Nat]
IssueItem == [when : Nat, amtRToken : Nat, amtBaskets : Nat, deposits : PerToken]

\* Balances of collateral after a transfer.
Plus(balances, amounts) == [t \in Tokens |-> balances[t] + amounts[t]]
Minus(balances, amounts) == [t \in Tokens |-> balances[t] - amounts[t]]
WithinBound(balances) == \A t \in Tokens : balances[t] <= MaxBalance

-----------------------------------------------------------------------------
(* Initial state: init() *)

EmptyQueue == [basketNonce |-> 0, left |-> 0, items |-> <<>>]
NoTokens == [t \in Tokens |-> 0]

Init ==
  /\ totalSupply = 0 /\ basketsNeeded = 0
  /\ issueQueues = [a \in Accounts |-> EmptyQueue]
  /\ liabilities = NoTokens /\ escrow = NoTokens /\ backing = NoTokens
  /\ allVestAt = 0 /\ lastIssRate = 0 /\ lastIssRateBlock = 0
  /\ issuanceRate \in IssuanceRates
  /\ battery \in [redemptionRateFloor : RateFloors,
                  scalingRedemptionRate : ScalingRates,
                  lastBlock : {0}, lastCharge : {0}]
  /\ nonce = 1 /\ quantity \in [Tokens -> Quantities]
  /\ status = "SOUND" /\ mode = "running" /\ blockNumber = 1
  /\ issuedInBlock = 0 /\ windowStart \in WindowStarts /\ redeemedInWindow = 0

-----------------------------------------------------------------------------
(* Exchange rate and basket *)

\* requireValidBUExchangeRate()
ValidRate(supply, baskets) ==
  supply > 0 => /\ (FIX_ONE * baskets) \div supply >= MIN_BU_RATE
                /\ CeilDiv(FIX_ONE * baskets, supply) <= MAX_BU_RATE

\* furnace.melt() as issue() and redeem() call it: how much it melts is the
\* furnace's business, that it leaves a valid rate the RToken's.
CanMelt(melted) ==
  melted > 0 => /\ mode = "running" /\ melted <= totalSupply
                /\ ValidRate(totalSupply - melted, basketsNeeded)

\* basketHandler.quote(baskets, CEIL) and quote(baskets, FLOOR)
QuoteUp(baskets) ==
  [t \in Tokens |-> IF t \in BasketTokens[nonce]
                    THEN CeilDiv(baskets * quantity[t], FIX_ONE) ELSE 0]
QuoteDown(baskets) ==
  [t \in Tokens |-> IF t \in BasketTokens[nonce]
                    THEN (baskets * quantity[t]) \div FIX_ONE ELSE 0]

-----------------------------------------------------------------------------
(* Queues *)

ZeroItem == [when |-> 0, amtRToken |-> 0, amtBaskets |-> 0,
             deposits |-> NoTokens]
Right(queue) == Len(queue.items)
Item(queue, n) == IF n = 0 THEN ZeroItem ELSE queue.items[n]
LastItem(queue) == Item(queue, Right(queue))

\* Mutation: the fencepost before the span is forgotten.
SpanFromZero(queue, left, right) == Item(queue, right)

\* What was issued after the left-th item, up to the right-th.
Span(queue, left, right) ==
  LET from == Item(queue, left)
      to == Item(queue, right)
  IN  [when |-> to.when,
       amtRToken |-> to.amtRToken - from.amtRToken,
       amtBaskets |-> to.amtBaskets - from.amtBaskets,
       deposits |-> Minus(to.deposits, from.deposits)]

\* Mutation: the queue is not reset when its last pending item goes.
WithoutSpanNotReset(queue, left, right) ==
  IF left >= right THEN queue
  ELSE IF left = queue.left THEN [queue EXCEPT !.left = right]
       ELSE [queue EXCEPT !.items = SubSeq(@, 1, left)]

\* The queue without a span at its beginning or its end.
WithoutSpan(queue, left, right) ==
  IF left >= right THEN queue
  ELSE IF left = queue.left
       THEN IF right = Right(queue)
            THEN [queue EXCEPT !.left = 0, !.items = <<>>]
            ELSE [queue EXCEPT !.left = right]
       ELSE [queue EXCEPT !.items = SubSeq(@, 1, left)]

Pending(queue) == Span(queue, queue.left, Right(queue))
Emptied(queue) == WithoutSpan(queue, queue.left, Right(queue))

\* Bought against a basket that is no longer the current one.
StaleAlways(queue) == FALSE   \* Mutation: queues outlive their basket.
Stale(queue) == queue.basketNonce # nonce

\* refundSpan()
RefundSpan(account, left, right) ==
  LET queue == issueQueues[account]
      deposits == IF left >= right THEN NoTokens
                  ELSE Span(queue, left, right).deposits
  IN  /\ issueQueues' = [issueQueues EXCEPT ![account] =
                           WithoutSpan(queue, left, right)]
      /\ liabilities' = Minus(liabilities, deposits)
      /\ escrow' = Minus(escrow, deposits)

-----------------------------------------------------------------------------
(* Issuance *)

\* whenFinished(): the rate of this block, and when amount will be issued.
IssRate(supply) ==
  LET scaled == (issuanceRate * supply) \div FIX_ONE
  IN  IF lastIssRateBlock >= blockNumber THEN lastIssRate
      ELSE IF scaled < MIN_BLOCK_ISSUANCE_LIMIT
           THEN MIN_BLOCK_ISSUANCE_LIMIT ELSE scaled

\* Mutation: the time an issuance takes is rounded down.
WhenFinishedRoundedDown(amount, rate) ==
  LET nowStart == FIX_ONE * (blockNumber - 1)
      before == IF nowStart > allVestAt THEN nowStart ELSE allVestAt
  IN  before + (FIX_ONE * amount) \div rate

WhenFinished(amount, rate) ==
  LET nowStart == FIX_ONE * (blockNumber - 1)
      before == IF nowStart > allVestAt THEN nowStart ELSE allVestAt
  IN  before + CeilDiv(FIX_ONE * amount, rate)

SetRateVars(rate, finished) ==
  /\ lastIssRate' = rate /\ lastIssRateBlock' = blockNumber
  /\ allVestAt' = finished

\* issue(): what waits for an older basket is refunded, the furnace melts, and
\* the issuance is completed at once or put into the queue.
Issue(account, amount, melted) ==
  LET old == issueQueues[account]
      refund == IF Stale(old) THEN Pending(old).deposits ELSE NoTokens
      queue == IF Stale(old) THEN Emptied(old) ELSE old
      supply == totalSupply - melted
      baskets == IF supply > 0 THEN (basketsNeeded * amount) \div supply
                 ELSE amount
      deposits == QuoteUp(baskets)
      rate == IssRate(supply)
      finished == WhenFinished(amount, rate)
      quick == finished <= FIX_ONE * blockNumber /\ queue.left = Right(queue)
      last == LastItem(queue)
      item == [when |-> finished,
               amtRToken |-> last.amtRToken + amount,
               amtBaskets |-> last.amtBaskets + baskets,
               deposits |-> Plus(last.deposits, deposits)]
  IN  /\ mode = "running" /\ status = "SOUND" /\ CanMelt(melted)
      /\ finished <= MaxWhen
      /\ SetRateVars(rate, finished)
      /\ \/ /\ quick /\ supply + amount <= MaxSupply
            /\ totalSupply' = supply + amount
            /\ basketsNeeded' = basketsNeeded + baskets
            /\ backing' = Plus(backing, deposits) /\ WithinBound(backing')
            /\ issueQueues' = [issueQueues EXCEPT ![account] = queue]
            /\ liabilities' = Minus(liabilities, refund)
            /\ escrow' = Minus(escrow, refund)
            /\ issuedInBlock' = issuedInBlock + amount
         \/ /\ ~quick /\ Right(queue) < MaxQueue
            /\ totalSupply' = supply
            /\ issueQueues' = [issueQueues EXCEPT ![account] =
                 [basketNonce |-> nonce, left |-> queue.left,
                  items |-> Append(queue.items, item)]]
            /\ liabilities' = Plus(Minus(liabilities, refund), deposits)
            /\ escrow' = Plus(Minus(escrow, refund), deposits)
            /\ WithinBound(escrow')
            /\ UNCHANGED <<basketsNeeded, backing, issuedInBlock>>
      /\ UNCHANGED <<issuanceRate, environment, redemptionVars>>

Ready(queue, endId) == Item(queue, endId).when <= FIX_ONE * blockNumber

\* vestUpTo()
VestUpTo(account, endId) ==
  LET queue == issueQueues[account]
      vested == Span(queue, queue.left, endId)
  IN  /\ queue.left < endId /\ endId <= Right(queue) /\ Ready(queue, endId)
      /\ totalSupply + vested.amtRToken <= MaxSupply
      /\ totalSupply' = totalSupply + vested.amtRToken
      /\ basketsNeeded' = basketsNeeded + vested.amtBaskets
      /\ issueQueues' = [issueQueues EXCEPT ![account] =
                           WithoutSpan(queue, queue.left, endId)]
      /\ liabilities' = Minus(liabilities, vested.deposits)
      /\ escrow' = Minus(escrow, vested.deposits)
      /\ backing' = Plus(backing, vested.deposits) /\ WithinBound(backing')

\* vest(): refunds the queue instead when it is stale.
Vest(account, endId) ==
  LET queue == issueQueues[account]
  IN  /\ mode = "running" /\ status = "SOUND"
      /\ \/ /\ Stale(queue)
            /\ RefundSpan(account, queue.left, Right(queue))
            /\ UNCHANGED <<supplyVars, backing>>
         \/ ~Stale(queue) /\ VestUpTo(account, endId)
      /\ UNCHANGED <<rateVars, issuanceRate, environment, issuedInBlock,
                     redemptionVars>>

\* cancel(): also while paused.
Cancel(account, endId, earliest) ==
  LET queue == issueQueues[account]
  IN  /\ mode # "frozen" /\ queue.left <= endId /\ endId <= Right(queue)
      /\ IF earliest THEN RefundSpan(account, queue.left, endId)
                     ELSE RefundSpan(account, endId, Right(queue))
      /\ UNCHANGED <<supplyVars, rateVars, issuanceRate, backing, environment,
                     issuedInBlock, redemptionVars>>

-----------------------------------------------------------------------------
(* Redemption *)

\* Mutation: an undercapitalised protocol pays out in full.
RedeemedInFull(amount, supply, baskets) == QuoteDown(baskets)

\* Collateral paid for amount of RToken: for its baskets, and at most its share
\* of what the backing manager holds.
Redeemed(amount, supply, baskets) ==
  LET prorate == (FIX_ONE * amount) \div supply
      quoted == QuoteDown(baskets)
      least(x, y) == IF x < y THEN x ELSE y
  IN  [t \in Tokens |-> least((prorate * backing[t]) \div FIX_ONE, quoted[t])]

BasketsRedeemed(amount, supply) == (basketsNeeded * amount) \div supply

\* redeem(): also while paused, and while the basket is IFFY.
Redeem(amount, melted) ==
  LET supply == totalSupply - melted
      baskets == BasketsRedeemed(amount, supply)
      paid == Redeemed(amount, supply, baskets)
  IN  /\ mode # "frozen" /\ status # "DISABLED"
      /\ CanMelt(melted) /\ amount <= supply
      /\ CanDischarge(battery, supply, amount, blockNumber)
      /\ \E t \in Tokens : paid[t] > 0
      /\ battery' = Discharged(battery, supply, amount, blockNumber)
      /\ basketsNeeded' = basketsNeeded - baskets
      /\ totalSupply' = supply - amount
      /\ backing' = Minus(backing, paid)
      /\ redeemedInWindow' =
           IF Enabled(battery) /\ blockNumber >= windowStart
           THEN redeemedInWindow + amount ELSE redeemedInWindow
      /\ UNCHANGED <<queueVars, rateVars, issuanceRate, environment,
                     issuedInBlock, windowStart>>

-----------------------------------------------------------------------------
(* Rewards, and the calls of the backing manager and of the furnace *)

\* claimRewards(): tokens arrive at the contract, as a donation does.
ReceiveTokens(t) ==
  /\ escrow[t] - liabilities[t] < MaxRewards
  /\ escrow' = [escrow EXCEPT ![t] = @ + 1]
  /\ UNCHANGED <<supplyVars, issueQueues, liabilities, rateVars, issuanceRate,
                 backing, environment, issuedInBlock, redemptionVars>>

\* Mutation: what is owed to issuers is swept with the rewards.
RewardsAndLiabilities == escrow

\* What sweepRewards() takes: all that is not owed to issuers.
Rewards == Minus(escrow, liabilities)

\* sweepRewards()
SweepRewards ==
  /\ mode = "running"
  /\ escrow' = Minus(escrow, Rewards)
  /\ backing' = Plus(backing, Rewards) /\ WithinBound(backing')
  /\ UNCHANGED <<supplyVars, issueQueues, liabilities, rateVars, issuanceRate,
                 environment, issuedInBlock, redemptionVars>>

SetSupply(supply, baskets) ==
  /\ totalSupply' = supply /\ basketsNeeded' = baskets
  /\ ValidRate(supply, baskets)
  /\ UNCHANGED <<queueVars, rateVars, issuanceRate, backing, environment,
                 issuedInBlock, redemptionVars>>

\* mint(), called by the backing manager.
Mint(amount) ==
  /\ mode = "running" /\ totalSupply + amount <= MaxSupply
  /\ SetSupply(totalSupply + amount, basketsNeeded)

\* melt(), called by whoever has RToken.
Melt(amount) ==
  /\ mode = "running" /\ amount <= totalSupply
  /\ SetSupply(totalSupply - amount, basketsNeeded)

\* basketHandler.basketsHeldBy(backingManager)
BasketsHeld ==
  IF BasketTokens[nonce] = {} \/ status = "DISABLED" THEN 0
  ELSE Min({(backing[t] * FIX_ONE) \div quantity[t] : t \in BasketTokens[nonce]})

\* setBasketsNeeded(): both calls of the backing manager pass the baskets held.
SetBasketsNeeded ==
  /\ mode = "running" /\ BasketsHeld <= MaxSupply
  /\ SetSupply(totalSupply, BasketsHeld)

-----------------------------------------------------------------------------
(* Governance *)

UnchangedByGovernance ==
  UNCHANGED <<supplyVars, queueVars, rateVars, backing, environment,
              issuedInBlock, windowStart, redeemedInWindow>>

SetIssuanceRate(val) ==
  issuanceRate' = val /\ UNCHANGED battery /\ UnchangedByGovernance
SetScalingRedemptionRate(val) ==
  /\ battery' = [battery EXCEPT !.scalingRedemptionRate = val]
  /\ UNCHANGED issuanceRate /\ UnchangedByGovernance
SetRedemptionRateFloor(val) ==
  /\ battery' = [battery EXCEPT !.redemptionRateFloor = val]
  /\ UNCHANGED issuanceRate /\ UnchangedByGovernance

-----------------------------------------------------------------------------
(* Environment *)

UnchangedByEnvironment ==
  UNCHANGED <<supplyVars, queueVars, rateVars, issuanceRate, redemptionVars>>

\* basketHandler.refreshBasket() switches the basket.
SwitchBasket ==
  /\ nonce < MaxNonce /\ nonce' = nonce + 1
  /\ UNCHANGED <<quantity, status, mode, blockNumber, backing, issuedInBlock>>
  /\ UnchangedByEnvironment

\* Collateral changes status; main is paused, frozen or thawed.
SetStatus(s) ==
  /\ status' = s
  /\ UNCHANGED <<nonce, quantity, mode, blockNumber, backing, issuedInBlock>>
  /\ UnchangedByEnvironment
SetMode(m) ==
  /\ mode' = m
  /\ UNCHANGED <<nonce, quantity, status, blockNumber, backing, issuedInBlock>>
  /\ UnchangedByEnvironment

\* A collateral token appreciates: a basket unit needs less of it.
Appreciate(t) ==
  /\ \E q \in Quantities : q < quantity[t] /\ quantity' = [quantity EXCEPT ![t] = q]
  /\ UNCHANGED <<nonce, status, mode, blockNumber, backing, issuedInBlock>>
  /\ UnchangedByEnvironment

\* The backing manager buys or sells, or receives, collateral.
Trade(t) ==
  /\ \E balance \in TradedBalances : backing' = [backing EXCEPT ![t] = balance]
  /\ UNCHANGED <<environment, issuedInBlock>>
  /\ UnchangedByEnvironment

NextBlock ==
  /\ blockNumber < MaxBlock /\ blockNumber' = blockNumber + 1
  /\ issuedInBlock' = 0
  /\ UNCHANGED <<nonce, quantity, status, mode, backing>>
  /\ UnchangedByEnvironment

-----------------------------------------------------------------------------

Next ==
  \/ \E a \in Accounts, amount \in IssueAmounts, melted \in Melts :
       Issue(a, amount, melted)
  \/ \E a \in Accounts, endId \in 0..MaxQueue :
       \/ Vest(a, endId)
       \/ Cancel(a, endId, TRUE)
       \/ Cancel(a, endId, FALSE)
  \/ \E amount \in RedeemAmounts, melted \in Melts : Redeem(amount, melted)
  \/ SweepRewards
  \/ \E amount \in MintAmounts : Mint(amount)
  \/ \E amount \in Melts : Melt(amount)
  \/ SetBasketsNeeded
  \/ \E val \in IssuanceRates : SetIssuanceRate(val)
  \/ \E val \in ScalingRates : SetScalingRedemptionRate(val)
  \/ \E val \in RateFloors : SetRedemptionRateFloor(val)
  \/ SwitchBasket
  \/ \E s \in BasketStatuses : SetStatus(s)
  \/ \E m \in Modes : SetMode(m)
  \/ \E t \in Tokens : ReceiveTokens(t) \/ Appreciate(t) \/ Trade(t)
  \/ NextBlock

Spec == Init /\ [][Next]_vars

-----------------------------------------------------------------------------
(* Properties *)

\* RToken.sol:133-138: queues are emptied to (0, 0), and along a queue the
\* items' times increase and never run past allVestAt, so that the accumulated
\* amounts may be subtracted.  (Lines 121-125 ask for baskets and deposits that
\* increase strictly: an issuance too small for a unit of them adds none.)
QueuesWellFormed ==
  \A a \in Accounts :
    LET queue == issueQueues[a]
    IN  /\ queue.left <= Right(queue)
        /\ queue.left = Right(queue) => queue.left = 0
        /\ \A i \in 1..Right(queue) :
             LET before == Item(queue, i - 1)
                 item == Item(queue, i)
             IN  /\ before.when < item.when /\ item.when <= allVestAt
                 /\ before.amtRToken < item.amtRToken
                 /\ before.amtBaskets <= item.amtBaskets
                 /\ \A t \in Tokens : before.deposits[t] <= item.deposits[t]

\* Every field keeps its type, and the queues are well-formed.
TypeOK ==
  /\ totalSupply \in Nat /\ basketsNeeded \in Nat
  /\ issueQueues \in [Accounts -> [basketNonce : 0..MaxNonce, left : Nat,
                                   items : Seq(IssueItem)]]
  /\ liabilities \in PerToken /\ escrow \in PerToken /\ backing \in PerToken
  /\ allVestAt \in Nat /\ lastIssRate \in Nat /\ lastIssRateBlock \in 0..MaxBlock
  /\ issuanceRate \in IssuanceRates
  /\ battery \in [redemptionRateFloor : RateFloors,
                  scalingRedemptionRate : ScalingRates,
                  lastBlock : 0..MaxBlock, lastCharge : Nat]
  /\ nonce \in 1..MaxNonce /\ quantity \in [Tokens -> Quantities]
  /\ status \in {"SOUND"} \cup BasketStatuses
  /\ mode \in {"running"} \cup Modes
  /\ blockNumber \in 1..MaxBlock /\ issuedInBlock \in Nat
  /\ windowStart \in WindowStarts /\ redeemedInWindow \in Nat
  /\ QueuesWellFormed

\* liabilities, which sweepRewards() holds back, is for each token exactly what
\* the pending issuances of all accounts deposited, and the contract has it:
\* every issuer can be refunded, whatever basket the deposits were made for.
LiabilitiesExact ==
  \A t \in Tokens :
    /\ liabilities[t] =
         SumFunction([a \in Accounts |-> Pending(issueQueues[a]).deposits[t]])
    /\ liabilities[t] <= escrow[t]

\* RToken.sol:71: the rate cached at the block's first issuance limits all that
\* is issued in that block without waiting, however the issuances are split.
IssuanceThrottled ==
  issuedInBlock > 0 => /\ lastIssRateBlock = blockNumber
                       /\ issuedInBlock <= lastIssRate

\* Over every window of blocks, redemptions take at most a full battery and
\* what it recharges, whatever is minted, issued and melted in between.
MostPerHour ==
  Max(RateFloors \cup {(MaxSupply * rate) \div FIX_ONE : rate \in ScalingRates})
RedemptionThrottled ==
  blockNumber >= windowStart =>
    redeemedInWindow <=
      MostPerHour + (MostPerHour * (blockNumber - windowStart)) \div BLOCKS_PER_HOUR

\* The backing manager has the collateral for basketsNeeded.
Collateralized ==
  \A t \in BasketTokens[nonce] :
    backing[t] * FIX_ONE >= basketsNeeded * quantity[t]

\* Issuing, vesting, redeeming, minting and melting round in the protocol's
\* favour: none of them makes a collateralized RToken undercollateralized.
StaysCollateralized ==
  [][UNCHANGED supplyVars \/ (Collateralized => Collateralized')]_vars

\* RToken.sol:410: a redemption, also of an undercollateralized RToken, leaves
\* the other holders at least their share of the basket units and of every
\* token of the backing manager.
FairRedemption ==
  [][\A amount \in RedeemAmounts, melted \in Melts : Redeem(amount, melted) =>
       /\ basketsNeeded' * totalSupply >= basketsNeeded * totalSupply'
       /\ \A t \in Tokens : backing'[t] * totalSupply >= backing[t] * totalSupply'
    ]_vars

\* The pending issuances of a queue, one by one.
TicketsOf(queue) ==
  [k \in 1..(Right(queue) - queue.left) |->
     LET issuance == Span(queue, queue.left + k - 1, queue.left + k)
     IN  [amount |-> issuance.amtRToken, baskets |-> issuance.amtBaskets,
          deposits |-> issuance.deposits, basketNonce |-> queue.basketNonce,
          blockAvailableAt |-> issuance.when]]
PendingTickets == [a \in Accounts |-> TicketsOf(issueQueues[a])]

\* The queues of accumulated amounts implement p0's lists of single issuances.
Tickets == INSTANCE IssuanceTickets
             WITH tickets <- PendingTickets, Amounts <- IssueAmounts \cup RedeemAmounts
ImplementsTickets == Tickets!Spec
=============================================================================
