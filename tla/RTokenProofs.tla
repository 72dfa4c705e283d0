---------------------------- MODULE RTokenProofs ----------------------------
(***************************************************************************)
(* Proofs about RToken, for all accounts, tokens, baskets and rates: that  *)
(* the queues stay well-formed and their liabilities exact, that issuance  *)
(* and redemption stay within their throttles, and that no operation of    *)
(* the RToken gives away collateral.                                       *)
(***************************************************************************)
EXTENDS RToken, ArithmeticProofs

(***************************************************************************)
(* The inductive invariant                                                 *)
(***************************************************************************)

Queue == [basketNonce : 0..MaxNonce, left : Nat, items : Seq(IssueItem)]

\* What an item accumulates beyond an earlier one of its queue.
Before(x, y) ==
  /\ x.when < y.when /\ x.amtRToken < y.amtRToken
  /\ x.amtBaskets <= y.amtBaskets
  /\ \A t \in Tokens : x.deposits[t] <= y.deposits[t]

\* QueuesWellFormed says this of neighbours; spans need it of any two items.
WellFormed(queue, until) ==
  /\ queue \in Queue
  /\ queue.left <= Right(queue)
  /\ queue.left = Right(queue) => queue.left = 0
  /\ \A i \in 1..Right(queue) : queue.items[i].when <= until
  /\ \A i, j \in 0..Right(queue) :
       i < j => Before(Item(queue, i), Item(queue, j))

\* Deposits that pay for basket units with units[t] of a token each.
Pays(deposits, baskets, n, units) ==
  \A t \in BasketTokens[n] : baskets * units[t] <= FIX_ONE * deposits[t]

\* What was deposited pays for the basket units accumulated, as long as the
\* queue's basket is the one with nonce n.
PaidFor(queue, n, units) ==
  queue.basketNonce = n =>
    \A i, j \in 0..Right(queue) : i < j =>
      LET from == Item(queue, i)
          to == Item(queue, j)
      IN  Pays(Minus(to.deposits, from.deposits),
               to.amtBaskets - from.amtBaskets, n, units)

QueuesInv ==
  \A a \in Accounts : /\ WellFormed(issueQueues[a], allVestAt)
                      /\ issueQueues[a].basketNonce <= nonce
                      /\ PaidFor(issueQueues[a], nonce, quantity)

\* What is not about queues.
FieldsInv ==
  /\ totalSupply \in Nat /\ totalSupply <= MaxSupply /\ basketsNeeded \in Nat
  /\ issueQueues \in [Accounts -> Queue]
  /\ liabilities \in PerToken /\ escrow \in PerToken /\ backing \in PerToken
  /\ allVestAt \in Nat
  /\ issuanceRate \in IssuanceRates
  /\ nonce \in 1..MaxNonce /\ quantity \in [Tokens -> Quantities]
  /\ status \in {"SOUND"} \cup BasketStatuses
  /\ mode \in {"running"} \cup Modes
  /\ blockNumber \in 1..MaxBlock

\* The rate of a block is cached at its first issuance and never zero, and
\* what was issued in the block without waiting has used up its time.
BlockStart == FIX_ONE * (blockNumber - 1)
RateInv ==
  /\ lastIssRate \in Nat /\ lastIssRateBlock \in 0..MaxBlock
  /\ lastIssRateBlock <= blockNumber
  /\ lastIssRateBlock > 0 => lastIssRate >= MIN_BLOCK_ISSUANCE_LIMIT
  /\ issuedInBlock \in Nat
  /\ issuedInBlock > 0 =>
       /\ lastIssRateBlock = blockNumber
       /\ issuedInBlock <= lastIssRate
       /\ BlockStart <= allVestAt
       /\ FIX_ONE * issuedInBlock <= lastIssRate * (allVestAt - BlockStart)

\* What was redeemed since the window's start and what the battery still holds
\* come from one full battery and the recharge since then.
BatteryInv ==
  /\ battery \in [redemptionRateFloor : RateFloors,
                  scalingRedemptionRate : ScalingRates,
                  lastBlock : 0..MaxBlock, lastCharge : Nat]
  /\ battery.lastBlock <= blockNumber
  /\ windowStart \in WindowStarts /\ redeemedInWindow \in Nat
  /\ redeemedInWindow > 0 =>
       /\ windowStart <= battery.lastBlock
       /\ BLOCKS_PER_HOUR * (redeemedInWindow + battery.lastCharge)
            <= BLOCKS_PER_HOUR * MostPerHour
                 + MostPerHour * (battery.lastBlock - windowStart)

IInv == FieldsInv /\ QueuesInv /\ LiabilitiesExact /\ RateInv /\ BatteryInv

(***************************************************************************)
(* Queues                                                                  *)
(***************************************************************************)

\* The items of a queue, and the one before the first, are items.
LEMMA ItemType ==
  ASSUME NEW queue \in Queue, NEW i \in 0..Right(queue)
  PROVE  Item(queue, i) \in IssueItem
<1>1. ZeroItem \in IssueItem
  BY DEF ZeroItem, NoTokens, IssueItem, PerToken
<1>2. CASE i = 0
  BY <1>1, <1>2 DEF Item
<1>3. CASE i # 0
  BY <1>3 DEF Item, Queue, Right
<1> QED
  BY <1>2, <1>3

\* Amounts may be subtracted along a queue: a span has numbers of everything.
LEMMA SpanType ==
  ASSUME NEW queue, NEW until \in Nat, WellFormed(queue, until),
         NEW i \in 0..Right(queue), NEW j \in 0..Right(queue), i <= j
  PROVE  /\ Span(queue, i, j).when \in Nat
         /\ Span(queue, i, j).amtRToken \in Nat
         /\ Span(queue, i, j).amtBaskets \in Nat
         /\ Span(queue, i, j).deposits \in PerToken
<1>1. Item(queue, i) \in IssueItem /\ Item(queue, j) \in IssueItem
  BY ItemType DEF WellFormed
<1>2. Right(queue) \in Nat
  BY DEF WellFormed, Queue, Right
<1>3. i # j => Before(Item(queue, i), Item(queue, j))
  BY <1>2 DEF WellFormed
<1> DEFINE x == Item(queue, i)
           y == Item(queue, j)
<1>4. /\ x.amtRToken <= y.amtRToken /\ x.amtBaskets <= y.amtBaskets
      /\ \A t \in Tokens : x.deposits[t] <= y.deposits[t]
  <2>1. CASE i = j
    BY <1>1, <2>1 DEF IssueItem, PerToken
  <2>2. CASE i # j
    BY <1>1, <1>3, <2>2 DEF IssueItem, PerToken, Before
  <2> QED
    BY <2>1, <2>2
<1> HIDE DEF x, y
<1>5. x \in IssueItem /\ y \in IssueItem
  BY <1>1 DEF x, y
<1>6. /\ Span(queue, i, j).when = y.when
      /\ Span(queue, i, j).amtRToken = y.amtRToken - x.amtRToken
      /\ Span(queue, i, j).amtBaskets = y.amtBaskets - x.amtBaskets
      /\ Span(queue, i, j).deposits = [t \in Tokens |-> y.deposits[t] - x.deposits[t]]
  BY DEF Span, Minus, x, y
<1> HIDE DEF Span
<1> QED
  BY <1>4, <1>5, <1>6 DEF IssueItem, PerToken

\* The deposits of a span, token by token.
LEMMA SpanDeposits ==
  ASSUME NEW queue, NEW i, NEW j, NEW t \in Tokens
  PROVE  Span(queue, i, j).deposits[t]
           = Item(queue, j).deposits[t] - Item(queue, i).deposits[t]
BY DEF Span, Minus

\* An empty queue is well-formed and owes nothing.
LEMMA EmptyWell ==
  ASSUME NEW queue \in Queue, queue.left = 0, queue.items = <<>>,
         NEW until \in Nat, NEW n, NEW units
  PROVE  /\ WellFormed(queue, until) /\ PaidFor(queue, n, units)
         /\ Right(queue) = 0
         /\ \A t \in Tokens : Pending(queue).deposits[t] = 0
<1>1. Right(queue) = 0
  BY DEF Right
<1>2. \A t \in Tokens : Pending(queue).deposits[t] = 0
  BY <1>1, SpanDeposits DEF Pending, Item, ZeroItem, NoTokens
<1>3. WellFormed(queue, until) /\ PaidFor(queue, n, units)
  BY <1>1 DEF WellFormed, PaidFor
<1> QED
  BY <1>1, <1>2, <1>3

\* So is a queue that is emptied.
LEMMA EmptiedType ==
  ASSUME NEW queue \in Queue, NEW new, new = [queue EXCEPT !.left = 0, !.items = <<>>]
  PROVE  /\ new \in Queue /\ new.left = 0 /\ new.items = <<>>
         /\ new.basketNonce = queue.basketNonce
<1>1. <<>> \in Seq(IssueItem)
  OBVIOUS
<1> QED
  BY <1>1 DEF Queue

\* What is left of a queue without a span at its beginning or its end keeps the
\* queue's invariants and owes as much less as the span deposited.
LEMMA SpanLeaves ==
  ASSUME NEW queue, NEW until \in Nat, WellFormed(queue, until),
         NEW left \in 0..Right(queue), NEW right \in 0..Right(queue),
         left <= right,
         left = queue.left \/ (queue.left <= left /\ right = Right(queue)),
         NEW new, new = WithoutSpan(queue, left, right)
  PROVE  /\ WellFormed(new, until)
         /\ new.basketNonce = queue.basketNonce
         /\ \A n, units : PaidFor(queue, n, units) => PaidFor(new, n, units)
         /\ \A t \in Tokens : Pending(new).deposits[t]
              = Pending(queue).deposits[t] - Span(queue, left, right).deposits[t]
<1>1. /\ queue \in Queue /\ queue.left \in Nat /\ queue.left <= Right(queue)
      /\ Right(queue) \in Nat /\ queue.items \in Seq(IssueItem)
      /\ Len(queue.items) = Right(queue)
  BY DEF WellFormed, Queue, Right
<1>2. \A i \in 0..Right(queue) : Item(queue, i) \in IssueItem
  BY <1>1, ItemType
<1>3. \A i \in 0..Right(queue), t \in Tokens : Item(queue, i).deposits[t] \in Int
  BY <1>2 DEF IssueItem, PerToken
<1>4. \A t \in Tokens :
        /\ Pending(queue).deposits[t]
             = Item(queue, Right(queue)).deposits[t] - Item(queue, queue.left).deposits[t]
        /\ Span(queue, left, right).deposits[t]
             = Item(queue, right).deposits[t] - Item(queue, left).deposits[t]
  BY SpanDeposits DEF Pending
<1>5. CASE left = right
  <2>1. new = queue
    BY <1>5 DEF WithoutSpan
  <2> QED
    BY <1>1, <1>3, <1>4, <1>5, <2>1
<1>6. CASE left < right /\ left = queue.left /\ right = Right(queue)
  <2>1. new = [queue EXCEPT !.left = 0, !.items = <<>>]
    BY <1>6 DEF WithoutSpan
  <2>a. /\ new \in Queue /\ new.left = 0 /\ new.items = <<>>
        /\ new.basketNonce = queue.basketNonce
    BY <1>1, <2>1, EmptiedType
  <2>2. \A t \in Tokens : Pending(new).deposits[t] = 0
    BY <2>a, EmptyWell
  <2>3. WellFormed(new, until) /\ new.basketNonce = queue.basketNonce
    BY <2>a, EmptyWell
  <2>4. \A n, units : PaidFor(new, n, units)
    BY <2>a, EmptyWell
  <2> QED
    BY <1>1, <1>3, <1>4, <1>6, <2>2, <2>3, <2>4
<1>7. CASE left < right /\ left = queue.left /\ right # Right(queue)
  <2>1. new = [queue EXCEPT !.left = right]
    BY <1>7 DEF WithoutSpan
  <2>2. /\ new.left = right /\ new.items = queue.items /\ new \in Queue
        /\ new.basketNonce = queue.basketNonce
    BY <1>1, <2>1 DEF Queue
  <2>3. Right(new) = Right(queue) /\ \A i : Item(new, i) = Item(queue, i)
    BY <2>2 DEF Right, Item
  <2>4. \A t \in Tokens : Pending(new).deposits[t]
          = Item(queue, Right(queue)).deposits[t] - Item(queue, right).deposits[t]
    BY <2>2, <2>3, SpanDeposits DEF Pending
  <2>5. WellFormed(new, until)
    BY <1>1, <1>7, <2>2, <2>3 DEF WellFormed
  <2>6. \A n, units : PaidFor(queue, n, units) => PaidFor(new, n, units)
    BY <2>2, <2>3 DEF PaidFor
  <2> QED
    BY <1>1, <1>3, <1>4, <1>7, <2>2, <2>4, <2>5, <2>6
<1>8. CASE left < right /\ left # queue.left
  <2>1. new = [queue EXCEPT !.items = SubSeq(@, 1, left)]
    BY <1>8 DEF WithoutSpan
  <2>2. queue.left < left /\ right = Right(queue) /\ left \in 1..Right(queue)
    BY <1>1, <1>8
  <2>3. /\ SubSeq(queue.items, 1, left) \in Seq(IssueItem)
        /\ Len(SubSeq(queue.items, 1, left)) = left
        /\ \A i \in 1..left : SubSeq(queue.items, 1, left)[i] = queue.items[i]
    BY <1>1, <2>2
  <2>4. /\ new.left = queue.left /\ new \in Queue
        /\ new.basketNonce = queue.basketNonce
        /\ new.items = SubSeq(queue.items, 1, left)
    BY <1>1, <2>1, <2>3 DEF Queue
  <2>5. Right(new) = left
    BY <2>3, <2>4 DEF Right
  <2>6. \A i \in 0..left : Item(new, i) = Item(queue, i)
    BY <2>3, <2>4 DEF Item
  <2>7. \A t \in Tokens : Pending(new).deposits[t]
          = Item(queue, left).deposits[t] - Item(queue, queue.left).deposits[t]
    BY <1>1, <2>2, <2>4, <2>5, <2>6, SpanDeposits DEF Pending
  <2>8. WellFormed(new, until)
    <3>1. \A i \in 1..left : new.items[i].when <= until
      BY <2>2, <2>3, <2>4 DEF WellFormed
    <3>2. \A i, j \in 0..left : i < j => Before(Item(new, i), Item(new, j))
      BY <2>2, <2>6 DEF WellFormed
    <3> QED
      BY <1>1, <2>2, <2>4, <2>5, <3>1, <3>2 DEF WellFormed
  <2>9. \A n, units : PaidFor(queue, n, units) => PaidFor(new, n, units)
    BY <1>1, <2>2, <2>4, <2>5, <2>6 DEF PaidFor
  <2> QED
    BY <1>1, <1>3, <1>4, <1>8, <2>2, <2>4, <2>7, <2>8, <2>9
<1> QED
  BY <1>1, <1>5, <1>6, <1>7, <1>8

\* Two payments together pay for the baskets of both.
LEMMA PaymentsAdd ==
  ASSUME NEW u \in Int, NEW f \in Int, NEW b \in Int, NEW c \in Int,
         NEW d \in Int, NEW e \in Int, b * u <= f * d, c * u <= f * e
  PROVE  (b + c) * u <= f * (d + e)
<1>1. (b + c) * u = b * u + c * u /\ f * (d + e) = f * d + f * e
  OBVIOUS
<1>2. b * u \in Int /\ c * u \in Int /\ f * d \in Int /\ f * e \in Int
  OBVIOUS
<1> QED
  BY <1>1, <1>2

\* A queue with an issuance appended that ends after all before it, and whose
\* deposits pay for its basket units.
LEMMA PushLeaves ==
  ASSUME NEW queue, NEW until \in Nat, WellFormed(queue, until),
         NEW n \in 1..MaxNonce, queue.basketNonce = n \/ Right(queue) = 0,
         NEW item \in IssueItem, until < item.when, Before(LastItem(queue), item),
         NEW new \in Queue, new.basketNonce = n, new.left = queue.left,
         new.items = Append(queue.items, item),
         NEW units \in [Tokens -> Nat], BasketTokens[n] \subseteq Tokens,
         Pays(Minus(item.deposits, LastItem(queue).deposits),
              item.amtBaskets - LastItem(queue).amtBaskets, n, units),
         PaidFor(queue, n, units)
  PROVE  /\ WellFormed(new, item.when)
         /\ PaidFor(new, n, units)
         /\ \A t \in Tokens : Pending(new).deposits[t]
              = Pending(queue).deposits[t]
                  + (item.deposits[t] - LastItem(queue).deposits[t])
<1> DEFINE r == Right(queue)
           last == LastItem(queue)
<1>1. /\ queue \in Queue /\ queue.left \in Nat /\ queue.left <= r
      /\ r \in Nat /\ queue.items \in Seq(IssueItem) /\ Len(queue.items) = r
      /\ queue.left = r => queue.left = 0
  BY DEF WellFormed, Queue, Right
<1>2. \A i \in 0..r : Item(queue, i) \in IssueItem
  BY <1>1, ItemType
<1>3. last = Item(queue, r) /\ last \in IssueItem
  BY <1>1, <1>2 DEF LastItem
<1>4. Before(last, item)
  OBVIOUS
<1> HIDE DEF last, r
<1>5. new.items \in Seq(IssueItem) /\ Len(new.items) = r + 1
  BY <1>1
<1>6. Right(new) = r + 1
  BY <1>5 DEF Right
<1>7. /\ \A i \in 0..r : Item(new, i) = Item(queue, i)
      /\ Item(new, r + 1) = item
  BY <1>1, <1>5 DEF Item
<1>8. \A i \in 0..r : i < r => Before(Item(queue, i), last)
  BY <1>1, <1>3 DEF WellFormed, r
<1>10. \A i \in 0..r : Before(Item(queue, i), item)
  <2>1. SUFFICES ASSUME NEW i \in 0..r PROVE Before(Item(queue, i), item)
    OBVIOUS
  <2> DEFINE x == Item(queue, i)
  <2>2. x \in IssueItem
    BY <1>2
  <2>3. CASE i = r
    BY <1>3, <1>4, <2>3
  <2>4. CASE i # r
    <3>1. Before(x, last)
      BY <1>1, <1>8, <2>4
    <3> HIDE DEF x
    <3>2. x.when < item.when /\ x.amtRToken < item.amtRToken /\ x.amtBaskets <= item.amtBaskets
      BY <1>3, <1>4, <2>2, <3>1 DEF Before, IssueItem
    <3>3. ASSUME NEW t \in Tokens PROVE x.deposits[t] <= item.deposits[t]
      <4>1. x.deposits[t] \in Nat /\ last.deposits[t] \in Nat /\ item.deposits[t] \in Nat
        BY <1>3, <2>2 DEF IssueItem, PerToken
      <4> QED
        BY <1>4, <3>1, <4>1 DEF Before
    <3>4. Before(x, item)
      BY <3>2, <3>3 DEF Before
    <3> QED
      BY <3>4 DEF x
  <2> QED
    BY <2>3, <2>4
<1>11. WellFormed(new, item.when)
  <2>0. item.when \in Nat
    BY DEF IssueItem
  <2>1. \A i \in 1..(r + 1) : new.items[i].when <= item.when
    <3>1. SUFFICES ASSUME NEW i \in 1..(r + 1) PROVE new.items[i].when <= item.when
      OBVIOUS
    <3>2. CASE i = r + 1
      <4>1. new.items[i] = item
        BY <1>1, <1>5, <3>2
      <4> QED
        BY <2>0, <4>1
    <3>3. CASE i # r + 1
      <4>1. i \in 1..r /\ new.items[i] = queue.items[i]
        BY <1>1, <1>5, <3>3
      <4>2. queue.items[i].when <= until /\ queue.items[i] \in IssueItem
        BY <1>1, <4>1 DEF WellFormed, r
      <4>3. queue.items[i].when \in Nat
        BY <4>2 DEF IssueItem
      <4> QED
        BY <2>0, <4>1, <4>2, <4>3
    <3> QED
      BY <3>2, <3>3
  <2>2. \A i, j \in 0..(r + 1) : i < j => Before(Item(new, i), Item(new, j))
    <3>1. SUFFICES ASSUME NEW i \in 0..(r + 1), NEW j \in 0..(r + 1), i < j
                   PROVE  Before(Item(new, i), Item(new, j))
      OBVIOUS
    <3>2. CASE j = r + 1
      BY <1>1, <1>7, <1>10, <3>1, <3>2
    <3>3. CASE j # r + 1
      <4>1. i \in 0..r /\ j \in 0..r
        BY <1>1, <3>1, <3>3
      <4>2. Before(Item(queue, i), Item(queue, j))
        BY <3>1, <4>1 DEF WellFormed, r
      <4> QED
        BY <1>7, <4>1, <4>2
    <3> QED
      BY <3>2, <3>3
  <2>3. new.left <= r + 1 /\ new.left # r + 1
    BY <1>1, <1>5
  <2> QED
    BY <1>5, <1>6, <2>1, <2>2, <2>3 DEF WellFormed
<1>12. ASSUME NEW t \in Tokens
       PROVE  Pending(new).deposits[t]
                = Pending(queue).deposits[t] + (item.deposits[t] - last.deposits[t])
  <2>2. Pending(new).deposits[t]
          = item.deposits[t] - Item(queue, queue.left).deposits[t]
    BY <1>1, <1>5, <1>6, <1>7, SpanDeposits DEF Pending
  <2>3. Pending(queue).deposits[t]
          = last.deposits[t] - Item(queue, queue.left).deposits[t]
    BY <1>3, SpanDeposits DEF Pending, r
  <2>4. /\ Item(queue, queue.left).deposits[t] \in Nat
        /\ last.deposits[t] \in Nat /\ item.deposits[t] \in Nat
    BY <1>1, <1>2, <1>3 DEF IssueItem, PerToken
  <2> QED
    BY <2>2, <2>3, <2>4
<1>13. PaidFor(new, n, units)
  <2>1. SUFFICES ASSUME NEW i \in 0..(r + 1), NEW j \in 0..(r + 1), i < j
                 PROVE  Pays(Minus(Item(new, j).deposits, Item(new, i).deposits),
                             Item(new, j).amtBaskets - Item(new, i).amtBaskets,
                             n, units)
    BY <1>6 DEF PaidFor
  <2>2. CASE j # r + 1
    <3>1. i \in 0..r /\ j \in 0..r /\ r # 0
      BY <1>1, <2>1, <2>2
    <3>2. Pays(Minus(Item(queue, j).deposits, Item(queue, i).deposits),
               Item(queue, j).amtBaskets - Item(queue, i).amtBaskets, n, units)
      BY <2>1, <3>1 DEF PaidFor, r
    <3> QED
      BY <1>7, <3>1, <3>2
  <2>3. CASE j = r + 1
    <3>1. i \in 0..r /\ Item(new, i) = Item(queue, i) /\ Item(new, j) = item
      BY <1>1, <1>7, <2>1, <2>3
    <3> DEFINE x == Item(queue, i)
    <3>2. x \in IssueItem
      BY <1>2, <3>1
    <3>3. i # r => Pays(Minus(last.deposits, x.deposits),
                        last.amtBaskets - x.amtBaskets, n, units)
      BY <1>1, <1>3, <3>1 DEF PaidFor, r
    <3>4. i = r => x = last
      BY <1>3
    <3> HIDE DEF x
    <3>5. ASSUME NEW t \in BasketTokens[n]
          PROVE  (item.amtBaskets - x.amtBaskets) * units[t]
                   <= FIX_ONE * (item.deposits[t] - x.deposits[t])
      <4> DEFINE b == last.amtBaskets - x.amtBaskets
                 d == last.deposits[t] - x.deposits[t]
                 c == item.amtBaskets - last.amtBaskets
                 e == item.deposits[t] - last.deposits[t]
                 u == units[t]
      <4>1. /\ x.amtBaskets \in Nat /\ last.amtBaskets \in Nat /\ item.amtBaskets \in Nat
            /\ x.deposits[t] \in Nat /\ last.deposits[t] \in Nat /\ item.deposits[t] \in Nat
        BY <1>3, <3>2 DEF IssueItem, PerToken
      <4>2. /\ b \in Int /\ d \in Int /\ c \in Int /\ e \in Int
            /\ u \in Int /\ FIX_ONE \in Int
        <5>1. b \in Int /\ c \in Int
          BY <4>1
        <5>4. d \in Int /\ e \in Int
          BY <4>1
        <5>2. t \in Tokens
          OBVIOUS
        <5>3. u \in Int
          BY <5>2
        <5> QED
          BY <5>1, <5>3, <5>4, ScaleAssumption
      <4>3. c * u <= FIX_ONE * e
        BY DEF Pays, Minus, last
      <4>4. i # r => b * u <= FIX_ONE * d
        BY <3>3 DEF Pays, Minus
      <4>5. i = r => b = 0 /\ d = 0
        BY <3>4, <4>1
      <4>6. /\ item.amtBaskets - x.amtBaskets = b + c
            /\ item.deposits[t] - x.deposits[t] = d + e
        <5>1. \A p, q, s \in Int : p - s = (q - s) + (p - q)
          OBVIOUS
        <5>2. \A p \in Nat : p \in Int
          OBVIOUS
        <5>3. item.amtBaskets - x.amtBaskets = b + c
          BY <4>1, <5>1, <5>2, Zenon
        <5> QED
          BY <4>1, <5>1, <5>2, <5>3, Zenon
      <4> HIDE DEF b, c, d, e, u
      <4>7. b * u <= FIX_ONE * d
        <5>1. i = r => b * u <= FIX_ONE * d
          BY <4>2, <4>5
        <5> QED
          BY <4>4, <5>1
      <4>8. (b + c) * u <= FIX_ONE * (d + e)
        BY <4>2, <4>3, <4>7, PaymentsAdd
      <4> QED
        BY <4>6, <4>8 DEF u
    <3>6. Pays(Minus(item.deposits, x.deposits),
               item.amtBaskets - x.amtBaskets, n, units)
      BY <3>5 DEF Pays, Minus
    <3> QED
      BY <3>1, <3>6 DEF x
  <2> QED
    BY <2>2, <2>3
<1> QED
  BY <1>11, <1>12, <1>13 DEF last

(***************************************************************************)
(* Steps of a queue                                                        *)
(***************************************************************************)

\* The invariant as it reads for one queue.
LEMMA QueueInv ==
  ASSUME FieldsInv, QueuesInv, NEW a \in Accounts
  PROVE  /\ WellFormed(issueQueues[a], allVestAt)
         /\ issueQueues[a] \in Queue
         /\ issueQueues[a].left \in 0..Right(issueQueues[a])
         /\ Right(issueQueues[a]) \in 0..Right(issueQueues[a])
         /\ issueQueues[a].left <= Right(issueQueues[a])
         /\ Pending(issueQueues[a]).deposits \in PerToken
<1>1. /\ WellFormed(issueQueues[a], allVestAt) /\ issueQueues[a] \in Queue
      /\ allVestAt \in Nat
  BY DEF FieldsInv, QueuesInv
<1>2. /\ issueQueues[a].left \in 0..Right(issueQueues[a])
      /\ Right(issueQueues[a]) \in 0..Right(issueQueues[a])
      /\ issueQueues[a].left <= Right(issueQueues[a])
  BY <1>1 DEF WellFormed, Queue, Right
<1>3. Pending(issueQueues[a]).deposits \in PerToken
  BY <1>1, <1>2, SpanType DEF Pending
<1> QED
  BY <1>1, <1>2, <1>3

\* One account's queue changes, and with it what the contract owes and has.
LEMMA LiabilitiesMove ==
  ASSUME FieldsInv, QueuesInv, LiabilitiesExact,
         NEW a \in Accounts, NEW queue, NEW until \in Nat, WellFormed(queue, until),
         issueQueues' = [issueQueues EXCEPT ![a] = queue],
         liabilities' = [t \in Tokens |-> liabilities[t]
           + (Pending(queue).deposits[t] - Pending(issueQueues[a]).deposits[t])],
         escrow' = [t \in Tokens |-> escrow[t]
           + (Pending(queue).deposits[t] - Pending(issueQueues[a]).deposits[t])]
  PROVE  LiabilitiesExact' /\ liabilities' \in PerToken /\ escrow' \in PerToken
<1>1. \A x \in Accounts : Pending(issueQueues[x]).deposits \in PerToken
  BY QueueInv
<1>2. Pending(queue).deposits \in PerToken
  <2>1. queue.left \in 0..Right(queue) /\ Right(queue) \in 0..Right(queue)
        /\ queue.left <= Right(queue)
    BY DEF WellFormed, Queue, Right
  <2> QED
    BY <2>1, SpanType DEF Pending
<1>3. /\ issueQueues'[a] = queue
      /\ \A x \in Accounts \ {a} : issueQueues'[x] = issueQueues[x]
  BY DEF FieldsInv
<1>4. ASSUME NEW t \in Tokens
      PROVE  /\ liabilities'[t] \in Nat /\ escrow'[t] \in Nat
             /\ liabilities'[t] = SumFunction([x \in Accounts |->
                                    Pending(issueQueues'[x]).deposits[t]])
             /\ liabilities'[t] <= escrow'[t]
  <2> DEFINE f == [x \in Accounts |-> Pending(issueQueues[x]).deposits[t]]
             g == [x \in Accounts |-> Pending(issueQueues'[x]).deposits[t]]
  <2>1. f \in [Accounts -> Nat] /\ f \in [Accounts -> Int]
    BY <1>1 DEF PerToken
  <2>2. g \in [Accounts -> Nat] /\ g \in [Accounts -> Int]
    BY <1>1, <1>2, <1>3 DEF PerToken
  <2>3. /\ \A x \in Accounts \ {a} : f[x] = g[x]
        /\ g[a] = Pending(queue).deposits[t]
        /\ f[a] = Pending(issueQueues[a]).deposits[t]
    BY <1>3
  <2>4. liabilities[t] = SumFunction(f) /\ liabilities[t] <= escrow[t]
    BY DEF LiabilitiesExact
  <2>5. /\ liabilities[t] \in Nat /\ escrow[t] \in Nat
    BY DEF FieldsInv, PerToken
  <2>6. /\ liabilities'[t] = liabilities[t] + (g[a] - f[a])
        /\ escrow'[t] = escrow[t] + (g[a] - f[a])
    BY <2>3
  <2> HIDE DEF f, g
  <2>7. SumFunction(g) = SumFunction(f) + (g[a] - f[a]) /\ SumFunction(g) \in Nat
    BY <2>1, <2>2, <2>3, FiniteAssumption, SumChange, SumType
  <2>8. g[a] - f[a] \in Int
    BY <2>1, <2>2
  <2>9. liabilities'[t] = SumFunction(g)
    BY <2>4, <2>6, <2>7
  <2> QED
    BY <2>4, <2>5, <2>6, <2>7, <2>8, <2>9 DEF g
<1>5. liabilities' \in PerToken /\ escrow' \in PerToken
  BY <1>4 DEF PerToken
<1>6. LiabilitiesExact'
  BY <1>4 DEF LiabilitiesExact
<1> QED
  BY <1>5, <1>6

\* One account's queue changes to a well-formed and paid one.
LEMMA QueueMoves ==
  ASSUME FieldsInv, QueuesInv, NEW a \in Accounts, NEW queue,
         allVestAt' \in Nat, allVestAt <= allVestAt', WellFormed(queue, allVestAt'),
         queue.basketNonce <= nonce, PaidFor(queue, nonce, quantity),
         issueQueues' = [issueQueues EXCEPT ![a] = queue],
         UNCHANGED <<nonce, quantity>>
  PROVE  QueuesInv' /\ issueQueues' \in [Accounts -> Queue]
<1>1. issueQueues'[a] = queue
  BY DEF FieldsInv
<1>2. ASSUME NEW x \in Accounts, x # a
      PROVE  /\ WellFormed(issueQueues'[x], allVestAt')
             /\ issueQueues'[x].basketNonce <= nonce
             /\ PaidFor(issueQueues'[x], nonce, quantity)
  <2>1. issueQueues'[x] = issueQueues[x]
    BY <1>2 DEF FieldsInv
  <2> DEFINE q == issueQueues[x]
  <2>2. WellFormed(q, allVestAt)
    BY DEF QueuesInv
  <2>3. \A i \in 1..Right(q) : q.items[i].when <= allVestAt'
    <3>1. \A i \in 1..Right(q) : q.items[i].when \in Nat /\ q.items[i].when <= allVestAt
      <4> HIDE DEF q
      <4>1. q.items \in Seq(IssueItem) /\ Len(q.items) = Right(q)
        BY <2>2 DEF WellFormed, Queue, Right
      <4>2. \A i \in 1..Right(q) : q.items[i] \in IssueItem
        BY <4>1
      <4>3. \A i \in 1..Right(q) : q.items[i].when \in Nat
        BY <4>2 DEF IssueItem
      <4> QED
        BY <2>2, <4>3 DEF WellFormed
    <3> HIDE DEF q
    <3> QED
      BY <3>1 DEF FieldsInv
  <2>4. WellFormed(q, allVestAt')
    BY <2>2, <2>3 DEF WellFormed
  <2> QED
    BY <2>1, <2>4 DEF QueuesInv
<1>3. QueuesInv'
  BY <1>1, <1>2 DEF QueuesInv
<1>4. issueQueues' \in [Accounts -> Queue]
  BY DEF FieldsInv, WellFormed
<1> QED
  BY <1>3, <1>4

\* issue() begins with a refund of what waits for an older basket.
Refreshed(queue) == IF Stale(queue) THEN Emptied(queue) ELSE queue
Refunded(queue) == IF Stale(queue) THEN Pending(queue).deposits ELSE NoTokens

\* After the refund the queue is the current basket's or empty.
LEMMA RefreshLeaves ==
  ASSUME FieldsInv, QueuesInv, NEW a \in Accounts,
         NEW queue, queue = Refreshed(issueQueues[a])
  PROVE  /\ WellFormed(queue, allVestAt)
         /\ queue.basketNonce <= nonce
         /\ PaidFor(queue, nonce, quantity)
         /\ queue.basketNonce = nonce \/ Right(queue) = 0
         /\ Refunded(issueQueues[a]) \in PerToken
         /\ \A t \in Tokens : Pending(queue).deposits[t]
              = Pending(issueQueues[a]).deposits[t] - Refunded(issueQueues[a])[t]
<1> DEFINE old == issueQueues[a]
<1>1. /\ WellFormed(old, allVestAt) /\ old \in Queue
      /\ old.left \in 0..Right(old) /\ Right(old) \in 0..Right(old)
      /\ old.left <= Right(old)
      /\ Pending(old).deposits \in PerToken
      /\ allVestAt \in Nat
  BY QueueInv DEF FieldsInv
<1>2. /\ old.basketNonce <= nonce /\ PaidFor(old, nonce, quantity)
  BY DEF QueuesInv
<1> HIDE DEF old
<1>3. CASE Stale(old)
  <2>1. queue = WithoutSpan(old, old.left, Right(old))
    BY <1>3 DEF Refreshed, Emptied, old
  <2>2. Refunded(old) = Pending(old).deposits
    BY <1>3 DEF Refunded
  <2>3. /\ WellFormed(queue, allVestAt) /\ queue.basketNonce = old.basketNonce
        /\ \A n, units : PaidFor(old, n, units) => PaidFor(queue, n, units)
        /\ \A t \in Tokens : Pending(queue).deposits[t]
             = Pending(old).deposits[t] - Span(old, old.left, Right(old)).deposits[t]
    BY <1>1, <2>1, SpanLeaves
  <2>4. Right(queue) = 0
    <3>1. CASE old.left < Right(old)
      <4>1. queue = [old EXCEPT !.left = 0, !.items = <<>>]
        BY <1>1, <2>1, <3>1 DEF WithoutSpan
      <4>2. queue.items = <<>>
        BY <1>1, <4>1, EmptiedType
      <4> QED
        BY <4>2 DEF Right
    <3>2. CASE ~(old.left < Right(old))
      <4>1. queue = old /\ old.left = Right(old)
        BY <1>1, <2>1, <3>2 DEF WithoutSpan
      <4> QED
        BY <1>1, <4>1 DEF WellFormed
    <3> QED
      BY <3>1, <3>2
  <2> QED
    BY <1>1, <1>2, <2>2, <2>3, <2>4 DEF old, Pending
<1>4. CASE ~Stale(old)
  <2>1. queue = old /\ Refunded(old) = NoTokens
    BY <1>4 DEF Refreshed, Refunded, old
  <2>2. NoTokens \in PerToken /\ \A t \in Tokens : NoTokens[t] = 0
    BY DEF NoTokens, PerToken
  <2>3. \A t \in Tokens : Pending(old).deposits[t] = Pending(old).deposits[t] - 0
    BY <1>1 DEF PerToken
  <2>4. old.basketNonce = nonce
    BY <1>4 DEF Stale
  <2> QED
    BY <1>1, <1>2, <2>1, <2>2, <2>3, <2>4 DEF old
<1> QED
  BY <1>3, <1>4

(***************************************************************************)
(* The throttle of issuance                                                *)
(***************************************************************************)

\* The rate of a block is a positive number, and that of its first issuance.
LEMMA RateType ==
  ASSUME FieldsInv, RateInv, NEW supply \in Nat
  PROVE  /\ IssRate(supply) \in Nat \ {0}
         /\ IssRate(supply) >= MIN_BLOCK_ISSUANCE_LIMIT
         /\ issuedInBlock > 0 => IssRate(supply) = lastIssRate
<1> DEFINE scaled == (issuanceRate * supply) \div FIX_ONE
<1>1. /\ issuanceRate \in Nat /\ FIX_ONE \in Nat \ {0}
      /\ MIN_BLOCK_ISSUANCE_LIMIT \in Nat \ {0}
      /\ lastIssRate \in Nat /\ lastIssRateBlock \in Nat /\ blockNumber \in Nat \ {0}
  BY ScaleAssumption, ParamAssumption DEF FieldsInv, RateInv
<1>2. scaled \in Nat
  <2>1. issuanceRate * supply \in Nat
    BY <1>1
  <2> QED
    BY <1>1, <2>1, FloorBounds
<1> HIDE DEF scaled
<1>3. IssRate(supply) =
        IF lastIssRateBlock >= blockNumber THEN lastIssRate
        ELSE IF scaled < MIN_BLOCK_ISSUANCE_LIMIT
             THEN MIN_BLOCK_ISSUANCE_LIMIT ELSE scaled
  BY DEF IssRate, scaled
<1>4. lastIssRateBlock >= blockNumber => lastIssRate >= MIN_BLOCK_ISSUANCE_LIMIT
  BY <1>1 DEF RateInv
<1>5. issuedInBlock > 0 => lastIssRateBlock >= blockNumber
  BY <1>1 DEF RateInv
<1> QED
  BY <1>1, <1>2, <1>3, <1>4, <1>5

\* An issuance takes at least its share of the rate's blocks, after this
\* block's start and all earlier issuances.
LEMMA FinishedType ==
  ASSUME FieldsInv, NEW amount \in Nat \ {0}, NEW rate \in Nat \ {0},
         NEW finished, finished = WhenFinished(amount, rate)
  PROVE  /\ finished \in Nat /\ BlockStart \in Nat
         /\ \E before \in Nat :
              /\ BlockStart <= before /\ allVestAt <= before /\ before < finished
              /\ BlockStart <= allVestAt => before = allVestAt
              /\ FIX_ONE * amount <= rate * (finished - before)
<1> DEFINE before == IF BlockStart > allVestAt THEN BlockStart ELSE allVestAt
           n == FIX_ONE * amount
           d == CeilDiv(n, rate)
<1>1. /\ allVestAt \in Nat /\ FIX_ONE \in Nat \ {0} /\ blockNumber - 1 \in Nat
  BY ScaleAssumption DEF FieldsInv
<1>2. BlockStart \in Nat /\ n \in Nat /\ n > 0
  BY <1>1 DEF BlockStart
<1>3. before \in Nat /\ BlockStart <= before /\ allVestAt <= before
  BY <1>1, <1>2
<1>4. BlockStart <= allVestAt => before = allVestAt
  BY <1>1, <1>2
<1>5. finished = before + d
  BY DEF WhenFinished, BlockStart
<1> HIDE DEF before, n
<1>6. d \in Nat /\ n <= rate * d
  BY <1>2, CeilBounds
<1> HIDE DEF d
<1>7. d > 0
  BY <1>2, <1>6
<1>8. finished \in Nat /\ before < finished /\ finished - before = d
  BY <1>3, <1>5, <1>6, <1>7
<1>9. FIX_ONE * amount <= rate * (finished - before)
  BY <1>6, <1>8 DEF n
<1> QED
  BY <1>2, <1>3, <1>4, <1>8, <1>9

\* An issuance keeps what was issued in the block within the block's rate.
LEMMA RateMoves ==
  ASSUME FieldsInv, RateInv, NEW supply \in Nat, NEW amount \in Nat \ {0},
         lastIssRate' = IssRate(supply), lastIssRateBlock' = blockNumber,
         allVestAt' = WhenFinished(amount, IssRate(supply)),
         UNCHANGED blockNumber,
         \/ UNCHANGED issuedInBlock
         \/ /\ issuedInBlock' = issuedInBlock + amount
            /\ allVestAt' <= FIX_ONE * blockNumber
  PROVE  RateInv' /\ allVestAt' \in Nat /\ allVestAt < allVestAt'
<1> DEFINE rate == IssRate(supply)
           finished == WhenFinished(amount, rate)
           k == issuedInBlock
           s == BlockStart
           v == allVestAt
<1>1. /\ rate \in Nat \ {0} /\ rate >= MIN_BLOCK_ISSUANCE_LIMIT
      /\ k > 0 => rate = lastIssRate
  BY RateType
<1>2. /\ k \in Nat /\ v \in Nat /\ FIX_ONE \in Nat \ {0}
      /\ blockNumber \in 1..MaxBlock /\ MaxBlock \in Nat
  BY ScaleAssumption, BoundAssumption DEF FieldsInv, RateInv
<1>3. k > 0 => s <= v /\ FIX_ONE * k <= rate * (v - s)
  BY <1>1 DEF RateInv
<1>4. /\ lastIssRate' = rate /\ lastIssRateBlock' = blockNumber
      /\ allVestAt' = finished /\ blockNumber' = blockNumber
      /\ BlockStart' = s
  BY DEF BlockStart
<1> HIDE DEF rate
<1>5. finished \in Nat /\ s \in Nat
  BY <1>1, FinishedType
<1>6. PICK before \in Nat :
        /\ s <= before /\ v <= before /\ before < finished
        /\ s <= v => before = v
        /\ FIX_ONE * amount <= rate * (finished - before)
  BY <1>1, FinishedType
<1> DEFINE b == finished - s
<1>7. b \in Nat /\ s + FIX_ONE = FIX_ONE * blockNumber
  BY <1>2, <1>5, <1>6 DEF BlockStart
<1> HIDE DEF finished, k, s, v, b
<1>8. FIX_ONE * k <= rate * b
  <2>1. CASE k = 0
    BY <1>1, <1>2, <1>7, <2>1
  <2>2. CASE k > 0
    <3>1. v - s \in Nat /\ v - s <= b
      BY <1>2, <1>3, <1>5, <1>6, <2>2 DEF b
    <3>2. rate * (v - s) <= rate * b /\ rate * (v - s) \in Nat /\ rate * b \in Nat
      BY <1>1, <1>7, <3>1, ProductMono
    <3> QED
      BY <1>2, <1>3, <2>2, <3>2
  <2> QED
    BY <1>2, <2>1, <2>2
<1>9. ASSUME issuedInBlock' = k + amount, finished <= FIX_ONE * blockNumber
      PROVE  /\ FIX_ONE * (k + amount) <= rate * b
             /\ k + amount <= rate
  <2> DEFINE d == finished - before
             c == before - s
  <2>1. d \in Nat /\ c \in Nat /\ c + d = b
    BY <1>5, <1>6 DEF b
  <2>2. FIX_ONE * k <= rate * c
    <3>1. CASE k = 0
      BY <1>1, <1>2, <2>1, <3>1
    <3>2. CASE k > 0
      BY <1>3, <1>6, <3>2
    <3> QED
      BY <1>2, <3>1, <3>2
  <2>3. FIX_ONE * amount <= rate * d
    BY <1>6
  <2> HIDE DEF c, d
  <2>4. FIX_ONE * (k + amount) <= rate * b
    <3>1. /\ FIX_ONE * (k + amount) = FIX_ONE * k + FIX_ONE * amount
          /\ rate * (c + d) = rate * c + rate * d
      BY <1>1, <1>2, <2>1
    <3>2. /\ FIX_ONE * k \in Nat /\ FIX_ONE * amount \in Nat
          /\ rate * c \in Nat /\ rate * d \in Nat
      BY <1>1, <1>2, <2>1
    <3> QED
      BY <2>1, <2>2, <2>3, <3>1, <3>2
  <2>5. b <= FIX_ONE
    BY <1>2, <1>5, <1>7, <1>9 DEF b
  <2>6. rate * b <= FIX_ONE * rate /\ rate * b \in Nat /\ FIX_ONE * rate \in Nat
    <3>1. rate * b <= rate * FIX_ONE /\ rate * b \in Nat
      BY <1>1, <1>2, <1>7, <2>5, ProductMono
    <3> QED
      BY <1>1, <1>2, <3>1
  <2>7. FIX_ONE * (k + amount) \in Nat
    BY <1>2
  <2>8. FIX_ONE * (k + amount) < FIX_ONE * (rate + 1)
    BY <1>1, <1>2, <2>4, <2>6, <2>7
  <2>9. k + amount < rate + 1
    BY <1>1, <1>2, <2>8, CancelFactor
  <2> QED
    BY <1>1, <1>2, <2>4, <2>9
<1>10. s <= finished /\ v < finished
  BY <1>2, <1>5, <1>6
<1>11. k > 0 => k <= rate
  BY <1>1 DEF RateInv, k
<1>12. CASE issuedInBlock' = k
  <2>1. RateInv'
    BY <1>1, <1>2, <1>4, <1>8, <1>10, <1>11, <1>12 DEF RateInv, b
  <2> QED
    BY <1>4, <1>5, <1>10, <2>1 DEF v
<1>13. CASE issuedInBlock' = k + amount /\ finished <= FIX_ONE * blockNumber
  <2>1. RateInv'
    BY <1>1, <1>2, <1>4, <1>9, <1>10, <1>13 DEF RateInv, b
  <2> QED
    BY <1>4, <1>5, <1>10, <2>1 DEF v
<1> QED
  BY <1>4, <1>12, <1>13 DEF k

(***************************************************************************)
(* Quotes                                                                  *)
(***************************************************************************)

\* A product with the units of a token is a number.
LEMMA UnitsType ==
  ASSUME FieldsInv
  PROVE  /\ quantity \in [Tokens -> Nat] /\ BasketTokens[nonce] \subseteq Tokens
         /\ \A t \in Tokens : quantity[t] \in Nat \ {0}
         /\ FIX_ONE \in Nat \ {0}
BY ScaleAssumption, BasketAssumption DEF FieldsInv

\* What is charged for baskets pays for them.
LEMMA QuoteUpPays ==
  ASSUME FieldsInv, NEW baskets \in Nat
  PROVE  /\ QuoteUp(baskets) \in PerToken
         /\ Pays(QuoteUp(baskets), baskets, nonce, quantity)
<1>1. ASSUME NEW t \in Tokens
      PROVE  /\ CeilDiv(baskets * quantity[t], FIX_ONE) \in Nat
             /\ baskets * quantity[t] <= FIX_ONE * CeilDiv(baskets * quantity[t], FIX_ONE)
  <2>1. baskets * quantity[t] \in Nat /\ FIX_ONE \in Nat \ {0}
    BY UnitsType
  <2> QED
    BY <2>1, CeilBounds
<1>2. QuoteUp(baskets) \in PerToken
  BY <1>1 DEF QuoteUp, PerToken
<1>3. ASSUME NEW t \in BasketTokens[nonce]
      PROVE  baskets * quantity[t] <= FIX_ONE * QuoteUp(baskets)[t]
  <2>1. t \in Tokens
    BY UnitsType
  <2>2. QuoteUp(baskets)[t] = CeilDiv(baskets * quantity[t], FIX_ONE)
    BY <2>1 DEF QuoteUp
  <2> QED
    BY <1>1, <2>1, <2>2
<1> QED
  BY <1>2, <1>3 DEF Pays

\* What is paid out for baskets is no more than they are worth.
LEMMA QuoteDownPays ==
  ASSUME FieldsInv, NEW baskets \in Nat
  PROVE  /\ QuoteDown(baskets) \in PerToken
         /\ \A t \in BasketTokens[nonce] :
              FIX_ONE * QuoteDown(baskets)[t] <= baskets * quantity[t]
<1>1. ASSUME NEW t \in Tokens
      PROVE  /\ (baskets * quantity[t]) \div FIX_ONE \in Nat
             /\ FIX_ONE * ((baskets * quantity[t]) \div FIX_ONE) <= baskets * quantity[t]
  <2>1. baskets * quantity[t] \in Nat /\ FIX_ONE \in Nat \ {0}
    BY UnitsType
  <2> QED
    BY <2>1, FloorBounds
<1>2. QuoteDown(baskets) \in PerToken
  BY <1>1 DEF QuoteDown, PerToken
<1>3. ASSUME NEW t \in BasketTokens[nonce]
      PROVE  FIX_ONE * QuoteDown(baskets)[t] <= baskets * quantity[t]
  <2>1. t \in Tokens
    BY UnitsType
  <2>2. QuoteDown(baskets)[t] = (baskets * quantity[t]) \div FIX_ONE
    BY <2>1 DEF QuoteDown
  <2> QED
    BY <1>1, <2>1, <2>2
<1> QED
  BY <1>2, <1>3

\* After furnace.melt() the supply is a number, and no greater than before.
LEMMA MeltLeaves ==
  ASSUME FieldsInv, NEW melted \in Melts, CanMelt(melted)
  PROVE  /\ totalSupply - melted \in Nat
         /\ totalSupply - melted <= totalSupply
         /\ totalSupply - melted <= MaxSupply
BY InputAssumption, BoundAssumption DEF FieldsInv, CanMelt

\* A share of the basket units, rounded down.
LEMMA BasketsType ==
  ASSUME FieldsInv, NEW amount \in Nat \ {0}, NEW supply \in Nat \ {0}
  PROVE  /\ (basketsNeeded * amount) \div supply \in Nat
         /\ supply * ((basketsNeeded * amount) \div supply) <= basketsNeeded * amount
         /\ amount <= supply => (basketsNeeded * amount) \div supply <= basketsNeeded
<1> DEFINE n == basketsNeeded * amount
           b == n \div supply
<1>1. n \in Nat /\ basketsNeeded \in Nat
  BY DEF FieldsInv
<1> HIDE DEF n
<1>2. b \in Nat /\ supply * b <= n
  BY <1>1, FloorBounds
<1> HIDE DEF b
<1>3. ASSUME amount <= supply PROVE b <= basketsNeeded
  <2>1. supply * b < supply * (basketsNeeded + 1)
    <3>1. n <= supply * basketsNeeded
      BY <1>1, <1>3, ProductMono DEF n
    <3>2. supply * basketsNeeded < supply * (basketsNeeded + 1)
      BY <1>1
    <3>3. supply * b \in Nat /\ supply * basketsNeeded \in Nat /\ supply * (basketsNeeded + 1) \in Nat
      BY <1>1, <1>2
    <3> QED
      BY <1>1, <1>2, <3>1, <3>2, <3>3
  <2>2. b < basketsNeeded + 1
    BY <1>1, <1>2, <2>1, CancelFactor
  <2> QED
    BY <1>1, <1>2, <2>2
<1> QED
  BY <1>2, <1>3 DEF b, n

(***************************************************************************)
(* issue()                                                                 *)
(***************************************************************************)

\* The numbers of an issuance.
LEMMA IssueType ==
  ASSUME FieldsInv, RateInv, NEW amount \in IssueAmounts, NEW melted \in Melts,
         CanMelt(melted), NEW supply, supply = totalSupply - melted,
         NEW baskets, baskets = IF supply > 0
                                THEN (basketsNeeded * amount) \div supply
                                ELSE amount
  PROVE  /\ amount \in Nat \ {0} /\ supply \in Nat
         /\ supply <= totalSupply /\ supply <= MaxSupply
         /\ baskets \in Nat
         /\ QuoteUp(baskets) \in PerToken
         /\ Pays(QuoteUp(baskets), baskets, nonce, quantity)
<1>1. amount \in Nat \ {0}
  BY InputAssumption
<1>2. supply \in Nat /\ supply <= totalSupply /\ supply <= MaxSupply
  BY MeltLeaves
<1>3. baskets \in Nat
  BY <1>1, <1>2, BasketsType
<1> QED
  BY <1>1, <1>2, <1>3, QuoteUpPays

\* issue() keeps the invariant, at once or through the queue.
LEMMA IssueKept ==
  ASSUME IInv, NEW a \in Accounts, NEW amount \in IssueAmounts,
         NEW melted \in Melts, Issue(a, amount, melted)
  PROVE  IInv'
<1> DEFINE old == issueQueues[a]
           refund == Refunded(old)
           queue == Refreshed(old)
           supply == totalSupply - melted
           baskets == IF supply > 0 THEN (basketsNeeded * amount) \div supply
                      ELSE amount
           deposits == QuoteUp(baskets)
           rate == IssRate(supply)
           finished == WhenFinished(amount, rate)
           last == LastItem(queue)
           item == [when |-> finished,
                    amtRToken |-> last.amtRToken + amount,
                    amtBaskets |-> last.amtBaskets + baskets,
                    deposits |-> Plus(last.deposits, deposits)]
           pushed == [basketNonce |-> nonce, left |-> queue.left,
                      items |-> Append(queue.items, item)]
<1>0. FieldsInv /\ QueuesInv /\ LiabilitiesExact /\ RateInv /\ BatteryInv
  BY DEF IInv
<1>1. /\ CanMelt(melted)
      /\ lastIssRate' = rate /\ lastIssRateBlock' = blockNumber
      /\ allVestAt' = finished
      /\ UNCHANGED <<issuanceRate, environment, redemptionVars>>
  BY DEF Issue, SetRateVars
<1>2. \/ /\ finished <= FIX_ONE * blockNumber
         /\ supply + amount <= MaxSupply
         /\ totalSupply' = supply + amount
         /\ basketsNeeded' = basketsNeeded + baskets
         /\ backing' = Plus(backing, deposits)
         /\ issueQueues' = [issueQueues EXCEPT ![a] = queue]
         /\ liabilities' = Minus(liabilities, refund)
         /\ escrow' = Minus(escrow, refund)
         /\ issuedInBlock' = issuedInBlock + amount
      \/ /\ totalSupply' = supply
         /\ issueQueues' = [issueQueues EXCEPT ![a] = pushed]
         /\ liabilities' = Plus(Minus(liabilities, refund), deposits)
         /\ escrow' = Plus(Minus(escrow, refund), deposits)
         /\ UNCHANGED <<basketsNeeded, backing, issuedInBlock>>
  BY DEF Issue, Refunded, Refreshed
<1>3. /\ amount \in Nat \ {0} /\ supply \in Nat
      /\ supply <= totalSupply /\ supply <= MaxSupply
      /\ baskets \in Nat
      /\ deposits \in PerToken
      /\ Pays(deposits, baskets, nonce, quantity)
  BY <1>0, <1>1, IssueType
<1>4. /\ WellFormed(queue, allVestAt)
      /\ queue.basketNonce <= nonce
      /\ PaidFor(queue, nonce, quantity)
      /\ queue.basketNonce = nonce \/ Right(queue) = 0
      /\ refund \in PerToken
      /\ \A t \in Tokens : Pending(queue).deposits[t]
           = Pending(old).deposits[t] - refund[t]
  BY <1>0, RefreshLeaves
<1>5. /\ allVestAt \in Nat /\ nonce \in 1..MaxNonce /\ nonce \in Nat
      /\ liabilities \in PerToken /\ escrow \in PerToken /\ backing \in PerToken
      /\ basketsNeeded \in Nat
      /\ Pending(old).deposits \in PerToken
  BY <1>0, QueueInv, BoundAssumption DEF FieldsInv
<1> HIDE DEF old, refund, queue, baskets, deposits, supply
<1>6. /\ RateInv' /\ allVestAt' \in Nat
      /\ allVestAt < allVestAt' /\ allVestAt <= allVestAt'
  <2>1. UNCHANGED blockNumber
    BY <1>1 DEF environment
  <2>2. allVestAt' = WhenFinished(amount, IssRate(supply))
    BY <1>1
  <2>3. \/ UNCHANGED issuedInBlock
        \/ /\ issuedInBlock' = issuedInBlock + amount
           /\ allVestAt' <= FIX_ONE * blockNumber
    BY <1>1, <1>2
  <2> HIDE DEF rate, finished
  <2>4. lastIssRate' = IssRate(supply) /\ lastIssRateBlock' = blockNumber
    BY <1>1 DEF rate
  <2>5. RateInv' /\ allVestAt' \in Nat /\ allVestAt < allVestAt'
    BY <1>0, <1>3, <2>1, <2>2, <2>3, <2>4, RateMoves
  <2> QED
    BY <1>5, <2>5
<1> HIDE DEF rate, finished
<1>7. BatteryInv'
  BY <1>0, <1>1 DEF BatteryInv, environment, redemptionVars, MostPerHour
<1>8. UNCHANGED <<nonce, quantity, status, mode, blockNumber, issuanceRate>>
  BY <1>1 DEF environment
<1>9. CASE /\ supply + amount <= MaxSupply
           /\ totalSupply' = supply + amount
           /\ basketsNeeded' = basketsNeeded + baskets
           /\ backing' = Plus(backing, deposits)
           /\ issueQueues' = [issueQueues EXCEPT ![a] = queue]
           /\ liabilities' = Minus(liabilities, refund)
           /\ escrow' = Minus(escrow, refund)
  <2>1. /\ WellFormed(queue, allVestAt')
    <3>1. /\ queue.items \in Seq(IssueItem) /\ Len(queue.items) = Right(queue)
      BY <1>4 DEF WellFormed, Queue, Right
    <3>2. \A i \in 1..Right(queue) : queue.items[i] \in IssueItem
      BY <3>1
    <3>3. \A i \in 1..Right(queue) : queue.items[i].when \in Nat
      BY <3>2 DEF IssueItem
    <3>4. \A i \in 1..Right(queue) : queue.items[i].when <= allVestAt'
      BY <1>4, <1>5, <1>6, <3>3 DEF WellFormed
    <3> QED
      BY <1>4, <3>4 DEF WellFormed
  <2>2. QueuesInv' /\ issueQueues' \in [Accounts -> Queue]
    <3>1. UNCHANGED <<nonce, quantity>>
      BY <1>8
    <3>2. issueQueues' = [issueQueues EXCEPT ![a] = queue]
      BY <1>9
    <3> QED
      BY <1>0, <1>4, <1>6, <2>1, <3>1, <3>2, QueueMoves
  <2>3. LiabilitiesExact' /\ liabilities' \in PerToken /\ escrow' \in PerToken
    <3>1. \A t \in Tokens : Pending(queue).deposits[t] - Pending(old).deposits[t] = 0 - refund[t]
      BY <1>4, <1>5 DEF PerToken
    <3>2. \A t \in Tokens : liabilities[t] \in Nat /\ escrow[t] \in Nat /\ refund[t] \in Nat
      BY <1>4, <1>5 DEF PerToken
    <3>3. /\ liabilities' = [t \in Tokens |-> liabilities[t]
               + (Pending(queue).deposits[t] - Pending(old).deposits[t])]
          /\ escrow' = [t \in Tokens |-> escrow[t]
               + (Pending(queue).deposits[t] - Pending(old).deposits[t])]
      BY <1>9, <3>1, <3>2 DEF Minus
    <3> QED
      BY <1>0, <1>4, <1>5, <1>9, <3>3, LiabilitiesMove DEF old
  <2>4. backing' \in PerToken
    BY <1>3, <1>5, <1>9 DEF Plus, PerToken
  <2>5. FieldsInv'
    BY <1>0, <1>3, <1>5, <1>6, <1>8, <1>9, <2>2, <2>3, <2>4 DEF FieldsInv
  <2> QED
    BY <1>6, <1>7, <2>2, <2>3, <2>5 DEF IInv
<1>10. CASE /\ totalSupply' = supply
            /\ issueQueues' = [issueQueues EXCEPT ![a] = pushed]
            /\ liabilities' = Plus(Minus(liabilities, refund), deposits)
            /\ escrow' = Plus(Minus(escrow, refund), deposits)
            /\ UNCHANGED <<basketsNeeded, backing>>
  <2>1. /\ queue \in Queue /\ queue.left \in Nat /\ queue.items \in Seq(IssueItem)
        /\ last \in IssueItem
    <3>1. queue \in Queue /\ Right(queue) \in 0..Right(queue)
      BY <1>4 DEF WellFormed, Queue, Right
    <3> QED
      BY <3>1, ItemType DEF Queue, LastItem
  <2>2. item \in IssueItem
    <3>1. Plus(last.deposits, deposits) \in PerToken
      BY <1>3, <2>1 DEF Plus, IssueItem, PerToken
    <3>2. last.amtRToken + amount \in Nat /\ last.amtBaskets + baskets \in Nat
      BY <1>3, <2>1 DEF IssueItem
    <3>3. finished \in Nat
      BY <1>1, <1>6
    <3> HIDE DEF last
    <3> QED
      BY <3>1, <3>2, <3>3 DEF IssueItem
  <2>3. /\ item.when = finished
        /\ item.amtRToken = last.amtRToken + amount
        /\ item.amtBaskets = last.amtBaskets + baskets
        /\ item.deposits = Plus(last.deposits, deposits)
    OBVIOUS
  <2> HIDE DEF item, last
  <2>4. /\ pushed \in Queue /\ pushed.basketNonce = nonce /\ pushed.left = queue.left
        /\ pushed.items = Append(queue.items, item)
    <3>1. Append(queue.items, item) \in Seq(IssueItem)
      BY <2>1, <2>2
    <3> QED
      BY <1>5, <2>1, <3>1 DEF Queue
  <2> HIDE DEF pushed
  <2>5. quantity \in [Tokens -> Nat] /\ BasketTokens[nonce] \subseteq Tokens
    BY <1>0, UnitsType
  <2>6. finished \in Nat /\ allVestAt < finished
    BY <1>1, <1>6
  <2>a. /\ last.when \in Nat /\ last.when <= allVestAt
        /\ last.amtRToken \in Nat /\ last.amtBaskets \in Nat
        /\ \A t \in Tokens : last.deposits[t] \in Nat /\ deposits[t] \in Nat
    <3>1. last.when <= allVestAt
      <4>1. Right(queue) \in Nat /\ last = Item(queue, Right(queue))
        BY <1>4 DEF WellFormed, Queue, Right, last, LastItem
      <4> QED
        BY <1>4, <1>5, <4>1 DEF WellFormed, Item, ZeroItem
    <3> QED
      BY <1>3, <2>1, <3>1 DEF IssueItem, PerToken
  <2>b. \A t \in Tokens : item.deposits[t] - last.deposits[t] = deposits[t]
    BY <2>3, <2>a DEF Plus
  <2>c. Before(last, item)
    <3>1. last.when < item.when /\ last.amtRToken < item.amtRToken /\ last.amtBaskets <= item.amtBaskets
      BY <1>3, <1>5, <2>3, <2>6, <2>a
    <3>2. \A t \in Tokens : last.deposits[t] <= item.deposits[t]
      BY <2>3, <2>a DEF Plus
    <3> QED
      BY <3>1, <3>2 DEF Before
  <2>d. Pays(Minus(item.deposits, last.deposits), item.amtBaskets - last.amtBaskets,
             nonce, quantity)
    <3>1. item.amtBaskets - last.amtBaskets = baskets
      BY <1>3, <2>3, <2>a
    <3>2. \A t \in BasketTokens[nonce] :
            Minus(item.deposits, last.deposits)[t] = deposits[t]
      BY <2>5, <2>b DEF Minus
    <3> QED
      BY <1>3, <3>1, <3>2 DEF Pays
  <2>e. /\ WellFormed(pushed, item.when) /\ PaidFor(pushed, nonce, quantity)
        /\ \A t \in Tokens : Pending(pushed).deposits[t]
             = Pending(queue).deposits[t] + (item.deposits[t] - last.deposits[t])
    <3>1. allVestAt < item.when
      BY <2>3, <2>6
    <3> QED
      BY <1>4, <1>5, <2>2, <2>4, <2>5, <2>c, <2>d, <3>1, PushLeaves DEF last
  <2>7. /\ WellFormed(pushed, finished) /\ PaidFor(pushed, nonce, quantity)
        /\ \A t \in Tokens : Pending(pushed).deposits[t]
             = Pending(queue).deposits[t] + deposits[t]
    BY <2>3, <2>b, <2>e
  <2>8. QueuesInv' /\ issueQueues' \in [Accounts -> Queue]
    <3>1. WellFormed(pushed, allVestAt') /\ pushed.basketNonce <= nonce
      BY <1>1, <1>5, <2>4, <2>7
    <3>2. UNCHANGED <<nonce, quantity>>
      BY <1>8
    <3>3. issueQueues' = [issueQueues EXCEPT ![a] = pushed]
      BY <1>10
    <3> QED
      BY <1>0, <1>6, <2>7, <3>1, <3>2, <3>3, QueueMoves
  <2>9. LiabilitiesExact' /\ liabilities' \in PerToken /\ escrow' \in PerToken
    <3>1. \A t \in Tokens :
            /\ liabilities[t] \in Nat /\ escrow[t] \in Nat /\ refund[t] \in Nat
            /\ deposits[t] \in Nat /\ Pending(old).deposits[t] \in Nat
      BY <1>3, <1>4, <1>5 DEF PerToken
    <3>2. \A t \in Tokens : Pending(pushed).deposits[t] - Pending(old).deposits[t]
                              = deposits[t] - refund[t]
      BY <1>4, <2>7, <3>1
    <3>3. /\ liabilities' = [t \in Tokens |-> liabilities[t]
               + (Pending(pushed).deposits[t] - Pending(old).deposits[t])]
          /\ escrow' = [t \in Tokens |-> escrow[t]
               + (Pending(pushed).deposits[t] - Pending(old).deposits[t])]
      BY <1>10, <3>1, <3>2 DEF Plus, Minus
    <3> QED
      BY <1>0, <1>10, <2>6, <2>7, <3>3, LiabilitiesMove DEF old
  <2>10. FieldsInv'
    BY <1>0, <1>3, <1>5, <1>6, <1>8, <1>10, <2>8, <2>9 DEF FieldsInv
  <2> QED
    BY <1>6, <1>7, <2>8, <2>9, <2>10 DEF IInv
<1> QED
  BY <1>2, <1>9, <1>10

(***************************************************************************)
(* vest() and cancel()                                                     *)
(***************************************************************************)

\* A span leaves a queue, and its deposits the contract.
LEMMA SpanMoves ==
  ASSUME FieldsInv, QueuesInv, LiabilitiesExact, NEW a \in Accounts,
         NEW left \in 0..Right(issueQueues[a]), NEW right \in 0..Right(issueQueues[a]),
         left <= right,
         \/ left = issueQueues[a].left
         \/ issueQueues[a].left <= left /\ right = Right(issueQueues[a]),
         NEW out, \A t \in Tokens : out[t] = Span(issueQueues[a], left, right).deposits[t],
         issueQueues' = [issueQueues EXCEPT ![a] = WithoutSpan(issueQueues[a], left, right)],
         liabilities' = Minus(liabilities, out), escrow' = Minus(escrow, out),
         UNCHANGED <<allVestAt, nonce, quantity>>
  PROVE  /\ QueuesInv' /\ LiabilitiesExact'
         /\ issueQueues' \in [Accounts -> Queue]
         /\ liabilities' \in PerToken /\ escrow' \in PerToken
<1> DEFINE old == issueQueues[a]
           new == WithoutSpan(old, left, right)
           span == Span(old, left, right).deposits
<1>1. /\ WellFormed(old, allVestAt) /\ old \in Queue
      /\ allVestAt \in Nat /\ nonce \in Nat
      /\ liabilities \in PerToken /\ escrow \in PerToken
      /\ Pending(old).deposits \in PerToken
  BY QueueInv, BoundAssumption DEF FieldsInv
<1>2. old.basketNonce <= nonce /\ PaidFor(old, nonce, quantity)
  BY DEF QueuesInv
<1>3. span \in PerToken
  BY <1>1, SpanType
<1>4. left = old.left \/ (old.left <= left /\ right = Right(old))
  OBVIOUS
<1>5. issueQueues' = [issueQueues EXCEPT ![a] = new]
  OBVIOUS
<1>6. \A t \in Tokens : out[t] = span[t]
  OBVIOUS
<1>7. left \in 0..Right(old) /\ right \in 0..Right(old)
  OBVIOUS
<1> HIDE DEF old
<1>8. /\ WellFormed(new, allVestAt) /\ new.basketNonce = old.basketNonce
      /\ \A n, units : PaidFor(old, n, units) => PaidFor(new, n, units)
      /\ \A t \in Tokens : Pending(new).deposits[t] = Pending(old).deposits[t] - span[t]
  BY <1>1, <1>4, <1>7, SpanLeaves
<1> HIDE DEF new, span
<1>9. QueuesInv' /\ issueQueues' \in [Accounts -> Queue]
  <2>1. /\ allVestAt' \in Nat /\ allVestAt <= allVestAt' /\ WellFormed(new, allVestAt')
        /\ UNCHANGED <<nonce, quantity>>
    BY <1>1, <1>8
  <2>2. new.basketNonce <= nonce /\ PaidFor(new, nonce, quantity)
    BY <1>2, <1>8
  <2> QED
    BY <1>5, <2>1, <2>2, QueueMoves
<1>10. \A t \in Tokens :
         /\ liabilities[t] \in Nat /\ escrow[t] \in Nat /\ span[t] \in Nat
         /\ Pending(old).deposits[t] \in Nat
  BY <1>1, <1>3 DEF PerToken
<1>11. \A t \in Tokens :
         Pending(new).deposits[t] - Pending(old).deposits[t] = 0 - out[t]
  BY <1>6, <1>8, <1>10
<1>12. /\ liabilities' = [t \in Tokens |-> liabilities[t]
            + (Pending(new).deposits[t] - Pending(old).deposits[t])]
       /\ escrow' = [t \in Tokens |-> escrow[t]
            + (Pending(new).deposits[t] - Pending(old).deposits[t])]
  BY <1>6, <1>10, <1>11 DEF Minus
<1>13. LiabilitiesExact' /\ liabilities' \in PerToken /\ escrow' \in PerToken
  BY <1>1, <1>5, <1>8, <1>12, LiabilitiesMove DEF old
<1> QED
  BY <1>9, <1>13

\* refundSpan() is such a step, also of no span at all.
LEMMA RefundMoves ==
  ASSUME FieldsInv, QueuesInv, LiabilitiesExact, NEW a \in Accounts,
         NEW left \in 0..Right(issueQueues[a]), NEW right \in 0..Right(issueQueues[a]),
         left <= right,
         \/ left = issueQueues[a].left
         \/ issueQueues[a].left <= left /\ right = Right(issueQueues[a]),
         RefundSpan(a, left, right), UNCHANGED <<allVestAt, nonce, quantity>>
  PROVE  /\ QueuesInv' /\ LiabilitiesExact'
         /\ issueQueues' \in [Accounts -> Queue]
         /\ liabilities' \in PerToken /\ escrow' \in PerToken
<1> DEFINE old == issueQueues[a]
           out == IF left >= right THEN NoTokens ELSE Span(old, left, right).deposits
<1>1. /\ issueQueues' = [issueQueues EXCEPT ![a] = WithoutSpan(old, left, right)]
      /\ liabilities' = Minus(liabilities, out) /\ escrow' = Minus(escrow, out)
  BY DEF RefundSpan
<1>2. \A t \in Tokens : out[t] = Span(old, left, right).deposits[t]
  <2>1. CASE left < right
    BY <2>1
  <2>2. CASE left = right
    <3>1. Item(old, left) \in IssueItem
      BY QueueInv, ItemType
    <3>2. \A t \in Tokens : Span(old, left, right).deposits[t] = 0
      BY <2>2, <3>1, SpanDeposits DEF IssueItem, PerToken
    <3>3. out = NoTokens
      BY <2>2
    <3> QED
      BY <3>2, <3>3 DEF NoTokens
  <2> QED
    BY <2>1, <2>2
<1> HIDE DEF out
<1> QED
  BY <1>1, <1>2, SpanMoves

\* vest() keeps the invariant.
LEMMA VestKept ==
  ASSUME IInv, NEW a \in Accounts, NEW endId \in 0..MaxQueue, Vest(a, endId)
  PROVE  IInv'
<1> DEFINE old == issueQueues[a]
           vested == Span(old, old.left, endId)
<1>0. FieldsInv /\ QueuesInv /\ LiabilitiesExact /\ RateInv /\ BatteryInv
  BY DEF IInv
<1>1. UNCHANGED <<rateVars, issuanceRate, environment, issuedInBlock, redemptionVars>>
  BY DEF Vest
<1>2. UNCHANGED <<allVestAt, nonce, quantity>>
  BY <1>1 DEF rateVars, environment
<1>3. /\ WellFormed(old, allVestAt) /\ old \in Queue /\ allVestAt \in Nat
      /\ old.left \in 0..Right(old) /\ Right(old) \in 0..Right(old)
      /\ old.left <= Right(old)
  BY <1>0, QueueInv DEF FieldsInv
<1>4. RateInv'
  BY <1>0, <1>1 DEF RateInv, rateVars, environment, BlockStart
<1>5. BatteryInv'
  BY <1>0, <1>1 DEF BatteryInv, environment, redemptionVars, MostPerHour
<1>6. CASE /\ RefundSpan(a, old.left, Right(old))
           /\ UNCHANGED <<supplyVars, backing>>
  <2>1. /\ QueuesInv' /\ LiabilitiesExact'
        /\ issueQueues' \in [Accounts -> Queue]
        /\ liabilities' \in PerToken /\ escrow' \in PerToken
    BY <1>0, <1>2, <1>3, <1>6, RefundMoves
  <2>2. FieldsInv'
    BY <1>0, <1>1, <1>6, <2>1 DEF FieldsInv, rateVars, environment, supplyVars
  <2> QED
    BY <1>4, <1>5, <2>1, <2>2 DEF IInv
<1>7. CASE VestUpTo(a, endId)
  <2>1. /\ old.left < endId /\ endId <= Right(old)
        /\ totalSupply + vested.amtRToken <= MaxSupply
        /\ totalSupply' = totalSupply + vested.amtRToken
        /\ basketsNeeded' = basketsNeeded + vested.amtBaskets
        /\ issueQueues' = [issueQueues EXCEPT ![a] = WithoutSpan(old, old.left, endId)]
        /\ liabilities' = Minus(liabilities, vested.deposits)
        /\ escrow' = Minus(escrow, vested.deposits)
        /\ backing' = Plus(backing, vested.deposits)
    BY <1>7 DEF VestUpTo
  <2>2. endId \in 0..Right(old) /\ old.left <= endId
    BY <1>3, <2>1
  <2>3. /\ vested.amtRToken \in Nat /\ vested.amtBaskets \in Nat
        /\ vested.deposits \in PerToken
    BY <1>3, <2>2, SpanType
  <2>4. /\ QueuesInv' /\ LiabilitiesExact'
        /\ issueQueues' \in [Accounts -> Queue]
        /\ liabilities' \in PerToken /\ escrow' \in PerToken
    BY <1>0, <1>2, <1>3, <2>1, <2>2, SpanMoves
  <2> HIDE DEF vested
  <2>5. backing' \in PerToken
    BY <1>0, <2>1, <2>3 DEF FieldsInv, Plus, PerToken
  <2>6. FieldsInv'
    BY <1>0, <1>1, <2>1, <2>3, <2>4, <2>5 DEF FieldsInv, rateVars, environment
  <2> QED
    BY <1>4, <1>5, <2>4, <2>6 DEF IInv
<1> QED
  BY <1>6, <1>7 DEF Vest

\* cancel() keeps the invariant.
LEMMA CancelKept ==
  ASSUME IInv, NEW a \in Accounts, NEW endId \in 0..MaxQueue,
         NEW earliest \in BOOLEAN, Cancel(a, endId, earliest)
  PROVE  IInv'
<1> DEFINE old == issueQueues[a]
<1>0. FieldsInv /\ QueuesInv /\ LiabilitiesExact /\ RateInv /\ BatteryInv
  BY DEF IInv
<1>1. /\ old.left <= endId /\ endId <= Right(old)
      /\ RefundSpan(a, old.left, endId) \/ RefundSpan(a, endId, Right(old))
      /\ UNCHANGED <<supplyVars, rateVars, issuanceRate, backing, environment,
                     issuedInBlock, redemptionVars>>
  BY DEF Cancel
<1>2. UNCHANGED <<allVestAt, nonce, quantity>>
  BY <1>1 DEF rateVars, environment
<1>3. /\ old.left \in 0..Right(old) /\ Right(old) \in 0..Right(old)
      /\ endId \in 0..Right(old)
  BY <1>0, <1>1, QueueInv
<1>4. RateInv'
  BY <1>0, <1>1 DEF RateInv, rateVars, environment, BlockStart
<1>5. BatteryInv'
  BY <1>0, <1>1 DEF BatteryInv, environment, redemptionVars, MostPerHour
<1>6. /\ QueuesInv' /\ LiabilitiesExact'
      /\ issueQueues' \in [Accounts -> Queue]
      /\ liabilities' \in PerToken /\ escrow' \in PerToken
  <2>1. CASE RefundSpan(a, old.left, endId)
    BY <1>0, <1>1, <1>2, <1>3, <2>1, RefundMoves
  <2>2. CASE RefundSpan(a, endId, Right(old))
    BY <1>0, <1>1, <1>2, <1>3, <2>2, RefundMoves
  <2> QED
    BY <1>1, <2>1, <2>2
<1>7. FieldsInv'
  BY <1>0, <1>1, <1>6 DEF FieldsInv, rateVars, environment, supplyVars
<1> QED
  BY <1>4, <1>5, <1>6, <1>7 DEF IInv

(***************************************************************************)
(* The throttle of redemption                                              *)
(***************************************************************************)

\* MostPerHour is the greatest charge an hour can bring.
LEMMA MostType ==
  ASSUME FieldsInv, BatteryInv
  PROVE  /\ MostPerHour \in Nat
         /\ battery.redemptionRateFloor <= MostPerHour
         /\ (MaxSupply * battery.scalingRedemptionRate) \div FIX_ONE <= MostPerHour
<1> DEFINE scaled(rate) == (MaxSupply * rate) \div FIX_ONE
           S == RateFloors \cup {scaled(rate) : rate \in ScalingRates}
<1>1. /\ battery.redemptionRateFloor \in RateFloors
      /\ battery.scalingRedemptionRate \in ScalingRates
  BY DEF BatteryInv
<1>2. /\ MaxSupply \in Nat /\ FIX_ONE \in Nat \ {0}
      /\ RateFloors \subseteq Nat /\ ScalingRates \subseteq 0..FIX_ONE
  BY ScaleAssumption, ParamAssumption, BoundAssumption
<1>3. ASSUME NEW rate \in ScalingRates PROVE scaled(rate) \in Nat
  <2>1. MaxSupply * rate \in Nat
    BY <1>2
  <2> QED
    BY <1>2, <2>1, FloorBounds
<1>4. IsFiniteSet(ScalingRates)
  <2>1. IsFiniteSet(0..FIX_ONE)
    BY <1>2, FS_Interval
  <2> QED
    BY <1>2, <2>1, FS_Subset
<1> HIDE DEF scaled
<1>5. IsFiniteSet({scaled(rate) : rate \in ScalingRates})
  <2> DEFINE f == [rate \in ScalingRates |-> scaled(rate)]
             R == {scaled(rate) : rate \in ScalingRates}
  <2>1. f \in Surjection(ScalingRates, R)
    BY DEF Surjection
  <2> HIDE DEF f, R
  <2>2. IsFiniteSet(R)
    BY <1>4, <2>1, FS_Surjection
  <2> QED
    BY <2>2 DEF R
<1>6. IsFiniteSet(S)
  BY <1>5, FiniteAssumption, FS_Union
<1>7. S \subseteq Nat /\ S # {}
  BY <1>1, <1>2, <1>3
<1>8. \E m \in S : \A n \in S : n <= m
  <2> HIDE DEF S
  <2> QED
    BY <1>6, <1>7, GreatestNumber
<1>9. Max(S) \in S /\ \A n \in S : Max(S) >= n
  <2>1. \E m \in S : \A n \in S : m >= n
    <3> HIDE DEF S
    <3> QED
      BY <1>7, <1>8
  <2> HIDE DEF S
  <2> QED
    BY <2>1 DEF Max
<1>10. MostPerHour = Max(S)
  BY DEF MostPerHour, scaled
<1>11. battery.redemptionRateFloor \in S /\ scaled(battery.scalingRedemptionRate) \in S
  BY <1>1
<1> HIDE DEF S
<1>12. /\ MostPerHour \in Nat
       /\ battery.redemptionRateFloor <= MostPerHour
       /\ scaled(battery.scalingRedemptionRate) <= MostPerHour
  BY <1>7, <1>9, <1>10, <1>11
<1> QED
  BY <1>12 DEF scaled

\* The charge is a number within an hour's charge and the supply, and grows by
\* at most MostPerHour an hour.
LEMMA ChargeBounds ==
  ASSUME FieldsInv, BatteryInv, NEW supply \in Nat, supply <= MaxSupply,
         NEW charge, charge = CurrentCharge(battery, supply, blockNumber)
  PROVE  /\ charge \in Nat /\ charge <= MostPerHour
         /\ BLOCKS_PER_HOUR * charge
              <= BLOCKS_PER_HOUR * battery.lastCharge
                   + MostPerHour * (blockNumber - battery.lastBlock)
<1> DEFINE rate == battery.scalingRedemptionRate
           scaled == (supply * rate) \div FIX_ONE
           perHour == AmtPerHour(battery, supply)
           blocks == blockNumber - battery.lastBlock
           gain == (perHour * blocks) \div BLOCKS_PER_HOUR
           last == battery.lastCharge
           bph == BLOCKS_PER_HOUR
           most == MostPerHour
<1>1. /\ rate \in Nat /\ battery.redemptionRateFloor \in Nat /\ last \in Nat
      /\ MaxSupply \in Nat /\ FIX_ONE \in Nat \ {0} /\ bph \in Nat \ {0}
  <2>1. /\ rate \in ScalingRates /\ battery.redemptionRateFloor \in RateFloors
        /\ last \in Nat
    BY DEF BatteryInv
  <2>2. /\ MaxSupply \in Nat /\ FIX_ONE \in Nat \ {0} /\ bph \in Nat \ {0}
    BY ScaleAssumption, BoundAssumption
  <2>3. battery.redemptionRateFloor \in Nat /\ rate \in 0..FIX_ONE
    BY <2>1, ParamAssumption
  <2> HIDE DEF rate, last, bph
  <2>4. rate \in Nat
    BY <2>3
  <2> QED
    BY <2>1, <2>2, <2>3, <2>4
<1>2. blocks \in Nat
  BY BoundAssumption DEF FieldsInv, BatteryInv
<1>3. /\ most \in Nat /\ battery.redemptionRateFloor <= most
      /\ (MaxSupply * rate) \div FIX_ONE <= most
  BY MostType
<1>4. scaled \in Nat /\ scaled <= most
  <2>1. supply * rate \in Nat /\ MaxSupply * rate \in Nat
        /\ supply * rate <= MaxSupply * rate
    BY <1>1, ProductMono
  <2>2. scaled \in Nat /\ (MaxSupply * rate) \div FIX_ONE \in Nat
    BY <1>1, <2>1, FloorBounds
  <2>3. scaled <= (MaxSupply * rate) \div FIX_ONE
    BY <1>1, <2>1, FloorMono
  <2> HIDE DEF scaled
  <2> QED
    BY <1>3, <2>2, <2>3
<1>5. perHour \in Nat /\ perHour <= most
  BY <1>1, <1>3, <1>4 DEF AmtPerHour
<1> HIDE DEF perHour
<1>6. gain \in Nat /\ bph * gain <= most * blocks
  <2>1. perHour * blocks \in Nat /\ perHour * blocks <= most * blocks
        /\ most * blocks \in Nat
    BY <1>2, <1>3, <1>5, ProductMono
  <2>2. gain \in Nat /\ bph * gain <= perHour * blocks
    BY <1>1, <2>1, FloorBounds
  <2>3. bph * gain \in Nat
    BY <1>1, <2>2
  <2> HIDE DEF gain, bph, most, blocks
  <2> QED
    BY <2>1, <2>2, <2>3
<1>7. /\ charge <= last + gain
      /\ charge \in Nat
      /\ charge <= perHour
  <2>1. charge = IF last + gain > (IF perHour > supply THEN supply ELSE perHour)
                 THEN (IF perHour > supply THEN supply ELSE perHour)
                 ELSE last + gain
    BY DEF CurrentCharge, perHour
  <2> HIDE DEF gain, last
  <2> QED
    BY <1>1, <1>5, <1>6, <2>1
<1> HIDE DEF gain, bph, most, blocks, last
<1>8. bph * charge <= bph * last + most * blocks
  <2>1. last + gain \in Nat
    BY <1>1, <1>6
  <2>2. bph * charge <= bph * (last + gain)
    BY <1>1, <1>7, <2>1, ProductMono
  <2>3. /\ bph * (last + gain) = bph * last + bph * gain
        /\ bph * last \in Nat /\ bph * gain \in Nat /\ most * blocks \in Nat
        /\ bph * charge \in Nat
    BY <1>1, <1>2, <1>3, <1>6, <1>7
  <2> QED
    BY <1>6, <2>2, <2>3
<1> QED
  BY <1>3, <1>5, <1>7, <1>8 DEF bph, most, last, blocks

\* A redemption is paid for out of the charge.
LEMMA BatteryMoves ==
  ASSUME FieldsInv, BatteryInv, NEW supply \in Nat, supply <= MaxSupply,
         NEW amount \in Nat \ {0},
         CanDischarge(battery, supply, amount, blockNumber),
         battery' = Discharged(battery, supply, amount, blockNumber),
         redeemedInWindow' = IF Enabled(battery) /\ blockNumber >= windowStart
                             THEN redeemedInWindow + amount ELSE redeemedInWindow,
         UNCHANGED <<blockNumber, windowStart>>
  PROVE  BatteryInv'
<1> DEFINE charge == CurrentCharge(battery, supply, blockNumber)
           bph == BLOCKS_PER_HOUR
           most == MostPerHour
           k == redeemedInWindow
           w == windowStart
           b == blockNumber
<1>1. CASE ~Enabled(battery)
  <2>1. battery' = battery /\ redeemedInWindow' = redeemedInWindow
    BY <1>1 DEF Discharged
  <2> QED
    BY <2>1 DEF BatteryInv, MostPerHour
<1>2. CASE Enabled(battery)
  <2>1. /\ battery' = [battery EXCEPT !.lastBlock = b, !.lastCharge = charge - amount]
        /\ amount <= charge
    BY <1>2 DEF Discharged, CanDischarge
  <2>2. /\ charge \in Nat /\ charge <= most
        /\ bph * charge <= bph * battery.lastCharge + most * (b - battery.lastBlock)
    BY ChargeBounds
  <2> HIDE DEF charge
  <2>3. charge - amount \in Nat
    BY <2>1, <2>2
  <2>4. /\ battery'.lastBlock = b /\ battery'.lastCharge = charge - amount
        /\ battery'.redemptionRateFloor = battery.redemptionRateFloor
        /\ battery'.scalingRedemptionRate = battery.scalingRedemptionRate
        /\ battery' \in [redemptionRateFloor : RateFloors,
                         scalingRedemptionRate : ScalingRates,
                         lastBlock : 0..MaxBlock, lastCharge : Nat]
    <3>1. b \in 0..MaxBlock
      BY BoundAssumption DEF FieldsInv
    <3> HIDE DEF b
    <3> QED
      BY <2>1, <2>3, <3>1 DEF BatteryInv
  <2>5. /\ b \in Nat /\ b <= b /\ w \in Nat /\ k \in Nat /\ most \in Nat
        /\ bph \in Nat /\ w \in WindowStarts
        /\ battery.lastBlock \in Nat /\ battery.lastBlock <= b
        /\ battery.lastCharge \in Nat
    BY MostType, ScaleAssumption, BoundAssumption, InputAssumption
       DEF FieldsInv, BatteryInv
  <2>6. k > 0 => /\ w <= battery.lastBlock
                 /\ bph * (k + battery.lastCharge)
                      <= bph * most + most * (battery.lastBlock - w)
    BY DEF BatteryInv
  <2>7. MostPerHour' = MostPerHour
    BY DEF MostPerHour
  <2> HIDE DEF bph, most, k, w, b
  <2>8. CASE b >= w
    <3>1. redeemedInWindow' = k + amount
      BY <1>2, <2>8 DEF k, b, w
    <3>2. bph * (k + charge) <= bph * most + most * (b - w)
      <4>1. b - w \in Nat /\ most * (b - w) \in Nat /\ bph * most \in Nat
        BY <2>5, <2>8
      <4>2. CASE k = 0
        <5>1. bph * charge <= bph * most
          BY <2>2, <2>5, ProductMono
        <5>2. k + charge = charge /\ bph * charge \in Nat
          BY <2>2, <2>5, <4>2
        <5> QED
          BY <4>1, <5>1, <5>2
      <4>3. CASE k > 0
        <5> DEFINE c == battery.lastCharge
                   d == battery.lastBlock - w
                   e == b - battery.lastBlock
        <5>1. c \in Nat /\ d \in Nat /\ e \in Nat /\ d + e = b - w
          BY <2>5, <2>6, <4>3
        <5>2. bph * (k + c) <= bph * most + most * d /\ bph * charge <= bph * c + most * e
          BY <2>2, <2>6, <4>3 DEF bph, most, b, w
        <5> HIDE DEF c, d, e
        <5>3. /\ bph * (k + c) = bph * k + bph * c
              /\ bph * (k + charge) = bph * k + bph * charge
              /\ most * (d + e) = most * d + most * e
          BY <2>2, <2>5, <5>1
        <5>4. /\ bph * k \in Nat /\ bph * c \in Nat /\ bph * charge \in Nat
              /\ most * d \in Nat /\ most * e \in Nat
          BY <2>2, <2>5, <5>1
        <5> QED
          BY <4>1, <5>1, <5>2, <5>3, <5>4
      <4> QED
        BY <2>5, <4>2, <4>3
    <3>3. k + amount + (charge - amount) = k + charge
      BY <2>2, <2>5
    <3>4. BatteryInv'
      <4>1. k + amount \in Nat
        BY <2>5
      <4>2. bph * (k + amount + (charge - amount)) <= bph * most + most * (b - w)
        BY <3>2, <3>3
      <4>3. windowStart' = w /\ blockNumber' = b /\ MostPerHour' = most
        BY <2>7 DEF w, b, most
      <4> QED
        BY <2>4, <2>5, <2>8, <3>1, <4>1, <4>2, <4>3 DEF BatteryInv, bph
    <3> QED
      BY <3>4
  <2>9. CASE ~(b >= w)
    <3>1. k = 0
      BY <2>5, <2>6, <2>9
    <3>2. redeemedInWindow' = 0
      BY <2>9, <3>1 DEF k, b, w
    <3>3. windowStart' = w /\ blockNumber' = b
      BY DEF w, b
    <3> QED
      BY <2>4, <2>5, <3>2, <3>3 DEF BatteryInv
  <2> QED
    BY <2>8, <2>9
<1> QED
  BY <1>1, <1>2

(***************************************************************************)
(* redeem()                                                                *)
(***************************************************************************)

\* The numbers of a redemption: the basket units redeemed are at most their
\* share, and so is what is paid of each token, which is also at most what the
\* basket units are worth.
LEMMA RedeemType ==
  ASSUME FieldsInv, NEW amount \in RedeemAmounts, NEW melted \in Melts,
         CanMelt(melted), NEW supply, supply = totalSupply - melted,
         amount <= supply, NEW baskets, baskets = BasketsRedeemed(amount, supply),
         NEW paid, paid = Redeemed(amount, supply, baskets)
  PROVE  /\ amount \in Nat \ {0} /\ supply \in Nat \ {0}
         /\ supply <= totalSupply /\ supply <= MaxSupply
         /\ baskets \in Nat /\ baskets <= basketsNeeded
         /\ supply * baskets <= basketsNeeded * amount
         /\ paid \in PerToken
         /\ \A t \in Tokens : /\ paid[t] <= backing[t]
                              /\ supply * paid[t] <= amount * backing[t]
         /\ \A t \in BasketTokens[nonce] : FIX_ONE * paid[t] <= baskets * quantity[t]
<1>1. amount \in Nat \ {0}
  BY InputAssumption
<1>2. supply \in Nat \ {0} /\ supply <= totalSupply /\ supply <= MaxSupply
  <2>1. supply \in Nat /\ supply <= totalSupply /\ supply <= MaxSupply
    BY MeltLeaves
  <2> QED
    BY <1>1, <2>1
<1>3. /\ baskets \in Nat /\ baskets <= basketsNeeded
      /\ supply * baskets <= basketsNeeded * amount
  BY <1>1, <1>2, BasketsType DEF BasketsRedeemed
<1> DEFINE prorate == (FIX_ONE * amount) \div supply
           share(t) == (prorate * backing[t]) \div FIX_ONE
           quoted == QuoteDown(baskets)
<1>4. /\ quoted \in PerToken
      /\ \A t \in BasketTokens[nonce] : FIX_ONE * quoted[t] <= baskets * quantity[t]
  BY <1>3, QuoteDownPays
<1>5. FIX_ONE \in Nat \ {0} /\ BasketTokens[nonce] \subseteq Tokens
      /\ quantity \in [Tokens -> Nat]
  BY UnitsType
<1>6. ASSUME NEW t \in Tokens
      PROVE  /\ share(t) \in Nat
             /\ supply * share(t) <= amount * backing[t]
             /\ share(t) <= backing[t]
  <2>1. backing[t] \in Nat
    BY DEF FieldsInv, PerToken
  <2> QED
    BY <1>1, <1>2, <1>5, <2>1, ProrateBounds
<1>7. paid = [t \in Tokens |-> IF share(t) < quoted[t] THEN share(t) ELSE quoted[t]]
  BY DEF Redeemed
<1> HIDE DEF share, quoted
<1>8. ASSUME NEW t \in Tokens
      PROVE  /\ paid[t] \in Nat /\ paid[t] <= share(t) /\ paid[t] <= quoted[t]
             /\ quoted[t] \in Nat
  <2>1. quoted[t] \in Nat
    BY <1>4 DEF PerToken
  <2>2. paid[t] = IF share(t) < quoted[t] THEN share(t) ELSE quoted[t]
    BY <1>7
  <2> QED
    BY <1>6, <2>1, <2>2
<1>9. paid \in PerToken
  BY <1>7, <1>8 DEF PerToken
<1>10. ASSUME NEW t \in Tokens
       PROVE  paid[t] <= backing[t] /\ supply * paid[t] <= amount * backing[t]
  <2>1. backing[t] \in Nat
    BY DEF FieldsInv, PerToken
  <2>2. /\ supply * paid[t] <= supply * share(t)
        /\ supply * paid[t] \in Nat /\ supply * share(t) \in Nat
    BY <1>2, <1>6, <1>8, ProductMono
  <2>3. amount * backing[t] \in Nat
    BY <1>1, <2>1
  <2> QED
    BY <1>6, <1>8, <2>1, <2>2, <2>3
<1>11. ASSUME NEW t \in BasketTokens[nonce]
       PROVE  FIX_ONE * paid[t] <= baskets * quantity[t]
  <2>1. t \in Tokens
    BY <1>5
  <2>2. /\ FIX_ONE * paid[t] <= FIX_ONE * quoted[t]
        /\ FIX_ONE * paid[t] \in Nat /\ FIX_ONE * quoted[t] \in Nat
    BY <1>5, <1>8, <2>1, ProductMono
  <2>3. baskets * quantity[t] \in Nat
    BY <1>3, <1>5, <2>1
  <2>4. FIX_ONE * quoted[t] <= baskets * quantity[t]
    BY <1>4
  <2> QED
    BY <2>2, <2>3, <2>4
<1> QED
  BY <1>1, <1>2, <1>3, <1>9, <1>10, <1>11

\* redeem() keeps the invariant.
LEMMA RedeemKept ==
  ASSUME IInv, NEW amount \in RedeemAmounts, NEW melted \in Melts,
         Redeem(amount, melted)
  PROVE  IInv'
<1> DEFINE supply == totalSupply - melted
           baskets == BasketsRedeemed(amount, supply)
           paid == Redeemed(amount, supply, baskets)
<1>0. FieldsInv /\ QueuesInv /\ LiabilitiesExact /\ RateInv /\ BatteryInv
  BY DEF IInv
<1>1. /\ CanMelt(melted) /\ amount <= supply
      /\ CanDischarge(battery, supply, amount, blockNumber)
      /\ battery' = Discharged(battery, supply, amount, blockNumber)
      /\ basketsNeeded' = basketsNeeded - baskets
      /\ totalSupply' = supply - amount
      /\ backing' = Minus(backing, paid)
      /\ redeemedInWindow' = IF Enabled(battery) /\ blockNumber >= windowStart
                             THEN redeemedInWindow + amount ELSE redeemedInWindow
      /\ UNCHANGED <<queueVars, rateVars, issuanceRate, environment,
                     issuedInBlock, windowStart>>
  BY DEF Redeem
<1>2. /\ amount \in Nat \ {0} /\ supply \in Nat \ {0}
      /\ supply <= totalSupply /\ supply <= MaxSupply
      /\ baskets \in Nat /\ baskets <= basketsNeeded
      /\ paid \in PerToken
      /\ \A t \in Tokens : paid[t] <= backing[t]
  BY <1>0, <1>1, RedeemType
<1> HIDE DEF supply, baskets, paid
<1>3. /\ UNCHANGED <<issueQueues, liabilities, escrow, allVestAt, nonce, quantity>>
      /\ UNCHANGED <<blockNumber, windowStart>>
  BY <1>1 DEF queueVars, rateVars, environment
<1>4. BatteryInv'
  BY <1>0, <1>1, <1>2, <1>3, BatteryMoves
<1>5. RateInv'
  BY <1>0, <1>1 DEF RateInv, rateVars, environment, BlockStart
<1>6. QueuesInv' /\ LiabilitiesExact'
  BY <1>0, <1>3 DEF QueuesInv, LiabilitiesExact
<1>7. backing' \in PerToken
  BY <1>0, <1>1, <1>2 DEF FieldsInv, Minus, PerToken
<1>8. totalSupply' \in Nat /\ totalSupply' <= MaxSupply /\ basketsNeeded' \in Nat
  BY <1>0, <1>1, <1>2, BoundAssumption DEF FieldsInv
<1>9. FieldsInv'
  BY <1>0, <1>1, <1>3, <1>7, <1>8 DEF FieldsInv, rateVars, environment, queueVars
<1> QED
  BY <1>4, <1>5, <1>6, <1>9 DEF IInv

(***************************************************************************)
(* The other operations, governance and the environment                    *)
(***************************************************************************)

\* The contract's balance of a token changes, but keeps what is owed.
LEMMA RewardsKept ==
  ASSUME IInv, escrow' \in PerToken, backing' \in PerToken,
         \A t \in Tokens : liabilities[t] <= escrow'[t],
         UNCHANGED <<supplyVars, issueQueues, liabilities, rateVars, issuanceRate,
                     environment, issuedInBlock, redemptionVars>>
  PROVE  IInv'
<1>0. FieldsInv /\ QueuesInv /\ LiabilitiesExact /\ RateInv /\ BatteryInv
  BY DEF IInv
<1>1. FieldsInv'
  BY <1>0 DEF FieldsInv, supplyVars, rateVars, environment
<1>2. QueuesInv'
  BY <1>0 DEF QueuesInv, rateVars, environment
<1>3. LiabilitiesExact'
  BY <1>0 DEF LiabilitiesExact
<1>4. RateInv'
  BY <1>0 DEF RateInv, rateVars, environment, BlockStart
<1>5. BatteryInv'
  BY <1>0 DEF BatteryInv, environment, redemptionVars, MostPerHour
<1> QED
  BY <1>1, <1>2, <1>3, <1>4, <1>5 DEF IInv

\* Donations and rewards, and their sweep to the backing manager.
LEMMA SweepKept ==
  ASSUME IInv, SweepRewards \/ \E t \in Tokens : ReceiveTokens(t)
  PROVE  IInv'
<1>0. /\ \A t \in Tokens : liabilities[t] \in Nat /\ escrow[t] \in Nat
                           /\ liabilities[t] <= escrow[t] /\ backing[t] \in Nat
      /\ escrow \in PerToken /\ backing \in PerToken
  BY DEF IInv, FieldsInv, LiabilitiesExact, PerToken
<1>1. CASE SweepRewards
  <2>1. /\ escrow' = Minus(escrow, Rewards) /\ backing' = Plus(backing, Rewards)
        /\ UNCHANGED <<supplyVars, issueQueues, liabilities, rateVars, issuanceRate,
                       environment, issuedInBlock, redemptionVars>>
    BY <1>1 DEF SweepRewards
  <2>2. \A t \in Tokens : Rewards[t] = escrow[t] - liabilities[t]
    BY DEF Rewards, Minus
  <2>3. \A t \in Tokens : Rewards[t] \in Nat
    BY <1>0, <2>2
  <2>4. \A t \in Tokens : escrow'[t] = liabilities[t]
    BY <1>0, <2>1, <2>2 DEF Minus
  <2>5. escrow' \in PerToken /\ \A t \in Tokens : liabilities[t] <= escrow'[t]
    BY <1>0, <2>1, <2>4 DEF Minus, PerToken
  <2>6. backing' \in PerToken
    BY <1>0, <2>1, <2>3 DEF Plus, PerToken
  <2> QED
    BY <2>1, <2>5, <2>6, RewardsKept
<1>2. ASSUME NEW t \in Tokens, ReceiveTokens(t) PROVE IInv'
  <2>1. /\ escrow' = [escrow EXCEPT ![t] = @ + 1]
        /\ UNCHANGED <<supplyVars, issueQueues, liabilities, rateVars, issuanceRate,
                       backing, environment, issuedInBlock, redemptionVars>>
    BY <1>2 DEF ReceiveTokens
  <2>2. escrow' \in PerToken /\ \A x \in Tokens : escrow[x] <= escrow'[x]
    BY <1>0, <2>1 DEF PerToken
  <2>3. \A x \in Tokens : escrow'[x] \in Nat
    BY <2>2 DEF PerToken
  <2>4. \A x \in Tokens : liabilities[x] <= escrow'[x]
    BY <1>0, <2>2, <2>3
  <2> QED
    BY <1>0, <2>1, <2>2, <2>4, RewardsKept
<1> QED
  BY <1>1, <1>2

\* The baskets held are a number, and no more than any token of the basket has
\* the backing for.
LEMMA BasketsHeldBounds ==
  ASSUME FieldsInv
  PROVE  /\ BasketsHeld \in Nat
         /\ \A t \in BasketTokens[nonce] :
              BasketsHeld * quantity[t] <= FIX_ONE * backing[t]
<1>1. /\ BasketTokens[nonce] \subseteq Tokens /\ FIX_ONE \in Nat \ {0}
      /\ \A t \in Tokens : quantity[t] \in Nat \ {0}
      /\ \A t \in Tokens : backing[t] \in Nat
  BY UnitsType DEF FieldsInv, PerToken
<1>2. CASE BasketTokens[nonce] = {} \/ status = "DISABLED"
  <2>1. BasketsHeld = 0
    BY <1>2 DEF BasketsHeld
  <2>2. ASSUME NEW t \in BasketTokens[nonce]
        PROVE  0 * quantity[t] <= FIX_ONE * backing[t]
    <3>1. t \in Tokens
      BY <1>1
    <3>2. 0 * quantity[t] = 0 /\ FIX_ONE * backing[t] \in Nat
      BY <1>1, <3>1
    <3> QED
      BY <3>2
  <2> QED
    BY <2>1, <2>2
<1>3. CASE BasketTokens[nonce] # {} /\ status # "DISABLED"
  <2> DEFINE held(t) == (backing[t] * FIX_ONE) \div quantity[t]
             S == {held(t) : t \in BasketTokens[nonce]}
  <2>1. ASSUME NEW t \in BasketTokens[nonce]
        PROVE  held(t) \in Nat /\ held(t) * quantity[t] <= FIX_ONE * backing[t]
    <3>1. t \in Tokens
      BY <1>1
    <3>2. /\ backing[t] * FIX_ONE \in Nat /\ quantity[t] \in Nat \ {0}
          /\ backing[t] * FIX_ONE = FIX_ONE * backing[t]
      BY <1>1, <3>1
    <3>3. held(t) \in Nat /\ quantity[t] * held(t) <= backing[t] * FIX_ONE
      BY <3>2, FloorBounds
    <3>4. quantity[t] * held(t) = held(t) * quantity[t]
      BY <3>2, <3>3
    <3> QED
      BY <3>2, <3>3, <3>4
  <2> HIDE DEF held
  <2>2. S \subseteq Nat /\ S # {}
    BY <1>3, <2>1
  <2>3. \E m \in S : \A n \in S : m <= n
    <3> HIDE DEF S
    <3> QED
      BY <2>2, LeastNumber
  <2>4. Min(S) \in S /\ \A n \in S : Min(S) <= n
    <3> HIDE DEF S
    <3> QED
      BY <2>3 DEF Min
  <2>5. BasketsHeld = Min(S)
    BY <1>3 DEF BasketsHeld, held
  <2>6. ASSUME NEW t \in BasketTokens[nonce]
        PROVE  Min(S) * quantity[t] <= FIX_ONE * backing[t]
    <3>1. Min(S) \in Nat /\ Min(S) <= held(t) /\ held(t) \in Nat
      BY <2>1, <2>2, <2>4
    <3>2. quantity[t] \in Nat /\ backing[t] \in Nat /\ FIX_ONE \in Nat
      BY <1>1
    <3> HIDE DEF S
    <3>3. Min(S) * quantity[t] <= held(t) * quantity[t]
          /\ Min(S) * quantity[t] \in Nat /\ held(t) * quantity[t] \in Nat
      BY <3>1, <3>2, ProductMono
    <3>4. FIX_ONE * backing[t] \in Nat
      BY <3>2
    <3> QED
      BY <2>1, <3>3, <3>4
  <2> HIDE DEF S
  <2> QED
    BY <2>2, <2>4, <2>5, <2>6
<1> QED
  BY <1>2, <1>3

\* mint(), melt() and setBasketsNeeded().
LEMMA SupplyKept ==
  ASSUME IInv, NEW supply \in Nat, supply <= MaxSupply, NEW baskets \in Nat,
         SetSupply(supply, baskets)
  PROVE  IInv'
<1>0. FieldsInv /\ QueuesInv /\ LiabilitiesExact /\ RateInv /\ BatteryInv
  BY DEF IInv
<1>1. /\ totalSupply' = supply /\ basketsNeeded' = baskets
      /\ UNCHANGED <<queueVars, rateVars, issuanceRate, backing, environment,
                     issuedInBlock, redemptionVars>>
  BY DEF SetSupply
<1>2. FieldsInv'
  BY <1>0, <1>1 DEF FieldsInv, queueVars, rateVars, environment
<1>3. QueuesInv'
  BY <1>0, <1>1 DEF QueuesInv, queueVars, rateVars, environment
<1>4. LiabilitiesExact'
  BY <1>0, <1>1 DEF LiabilitiesExact, queueVars
<1>5. RateInv'
  BY <1>0, <1>1 DEF RateInv, rateVars, environment, BlockStart
<1>6. BatteryInv'
  BY <1>0, <1>1 DEF BatteryInv, environment, redemptionVars, MostPerHour
<1> QED
  BY <1>2, <1>3, <1>4, <1>5, <1>6 DEF IInv

LEMMA MintKept ==
  ASSUME IInv,
         \/ \E amount \in MintAmounts : Mint(amount)
         \/ \E amount \in Melts : Melt(amount)
         \/ SetBasketsNeeded
  PROVE  IInv'
<1>0. /\ FieldsInv /\ totalSupply \in Nat /\ basketsNeeded \in Nat
      /\ totalSupply <= MaxSupply /\ MaxSupply \in Nat
  BY BoundAssumption DEF IInv, FieldsInv
<1>1. ASSUME NEW amount \in MintAmounts, Mint(amount) PROVE IInv'
  <2>1. /\ totalSupply + amount \in Nat /\ totalSupply + amount <= MaxSupply
        /\ SetSupply(totalSupply + amount, basketsNeeded)
    BY <1>0, <1>1, InputAssumption DEF Mint
  <2> QED
    BY <1>0, <2>1, SupplyKept
<1>2. ASSUME NEW amount \in Melts, Melt(amount) PROVE IInv'
  <2>1. amount \in Nat /\ amount <= totalSupply /\ SetSupply(totalSupply - amount, basketsNeeded)
    BY <1>2, InputAssumption DEF Melt
  <2>2. totalSupply - amount \in Nat /\ totalSupply - amount <= MaxSupply
    BY <1>0, <2>1
  <2> QED
    BY <1>0, <2>1, <2>2, SupplyKept
<1>3. CASE SetBasketsNeeded
  <2>1. SetSupply(totalSupply, BasketsHeld)
    BY <1>3 DEF SetBasketsNeeded
  <2> QED
    BY <1>0, <2>1, BasketsHeldBounds, SupplyKept
<1> QED
  BY <1>1, <1>2, <1>3

\* Governance's setters.
LEMMA GovernanceKept ==
  ASSUME IInv,
         \/ \E val \in IssuanceRates : SetIssuanceRate(val)
         \/ \E val \in ScalingRates : SetScalingRedemptionRate(val)
         \/ \E val \in RateFloors : SetRedemptionRateFloor(val)
  PROVE  IInv'
<1>0. FieldsInv /\ QueuesInv /\ LiabilitiesExact /\ RateInv /\ BatteryInv
  BY DEF IInv
<1>1. /\ issuanceRate' \in IssuanceRates
      /\ UnchangedByGovernance
  BY <1>0 DEF FieldsInv, SetIssuanceRate, SetScalingRedemptionRate,
              SetRedemptionRateFloor
<1>2. /\ battery' \in [redemptionRateFloor : RateFloors,
                       scalingRedemptionRate : ScalingRates,
                       lastBlock : 0..MaxBlock, lastCharge : Nat]
      /\ battery'.lastBlock = battery.lastBlock
      /\ battery'.lastCharge = battery.lastCharge
  <2>1. battery \in [redemptionRateFloor : RateFloors,
                     scalingRedemptionRate : ScalingRates,
                     lastBlock : 0..MaxBlock, lastCharge : Nat]
    BY <1>0 DEF BatteryInv
  <2>2. CASE battery' = battery
    BY <2>1, <2>2
  <2>3. ASSUME NEW val \in ScalingRates,
               battery' = [battery EXCEPT !.scalingRedemptionRate = val]
        PROVE  <1>2!:
    BY <2>1, <2>3
  <2>4. ASSUME NEW val \in RateFloors,
               battery' = [battery EXCEPT !.redemptionRateFloor = val]
        PROVE  <1>2!:
    BY <2>1, <2>4
  <2> QED
    BY <2>2, <2>3, <2>4 DEF SetIssuanceRate, SetScalingRedemptionRate,
                            SetRedemptionRateFloor
<1>3. FieldsInv'
  BY <1>0, <1>1 DEF FieldsInv, UnchangedByGovernance, supplyVars, queueVars,
                    rateVars, environment
<1>4. QueuesInv'
  BY <1>0, <1>1 DEF QueuesInv, UnchangedByGovernance, queueVars, rateVars, environment
<1>5. LiabilitiesExact'
  BY <1>0, <1>1 DEF LiabilitiesExact, UnchangedByGovernance, queueVars
<1>6. RateInv'
  BY <1>0, <1>1 DEF RateInv, UnchangedByGovernance, rateVars, environment, BlockStart
<1>7. BatteryInv'
  BY <1>0, <1>1, <1>2 DEF BatteryInv, UnchangedByGovernance, environment, MostPerHour
<1> QED
  BY <1>3, <1>4, <1>5, <1>6, <1>7 DEF IInv

\* A switch of the basket makes every queue stale.
LEMMA SwitchKept ==
  ASSUME IInv, SwitchBasket
  PROVE  IInv'
<1>0. FieldsInv /\ QueuesInv /\ LiabilitiesExact /\ RateInv /\ BatteryInv
  BY DEF IInv
<1>1. /\ nonce < MaxNonce /\ nonce' = nonce + 1
      /\ UNCHANGED <<supplyVars, queueVars, rateVars, issuanceRate, redemptionVars,
                     quantity, status, mode, blockNumber, backing, issuedInBlock>>
  BY DEF SwitchBasket, UnchangedByEnvironment
<1>2. nonce \in 1..MaxNonce /\ MaxNonce \in Nat
  BY <1>0, BoundAssumption DEF FieldsInv
<1>3. FieldsInv'
  <2>1. nonce' \in 1..MaxNonce
    BY <1>1, <1>2
  <2> QED
    BY <1>0, <1>1, <2>1 DEF FieldsInv, supplyVars, queueVars, rateVars
<1>4. QueuesInv'
  <2>1. issueQueues' = issueQueues /\ allVestAt' = allVestAt
    BY <1>1 DEF queueVars, rateVars
  <2>2. ASSUME NEW a \in Accounts
        PROVE  /\ WellFormed(issueQueues[a], allVestAt)
               /\ issueQueues[a].basketNonce <= nonce'
               /\ PaidFor(issueQueues[a], nonce', quantity')
    <3>1. WellFormed(issueQueues[a], allVestAt) /\ issueQueues[a].basketNonce <= nonce
      BY <1>0 DEF QueuesInv
    <3>2. issueQueues[a].basketNonce \in 0..MaxNonce
      BY <3>1 DEF WellFormed, Queue
    <3>3. issueQueues[a].basketNonce < nonce'
      BY <1>1, <1>2, <3>1, <3>2
    <3>4. issueQueues[a].basketNonce # nonce' /\ issueQueues[a].basketNonce <= nonce'
      BY <1>1, <1>2, <3>2, <3>3
    <3> QED
      BY <3>1, <3>4 DEF PaidFor
  <2> QED
    BY <2>1, <2>2 DEF QueuesInv
<1>5. LiabilitiesExact'
  BY <1>0, <1>1 DEF LiabilitiesExact, queueVars
<1>6. RateInv'
  BY <1>0, <1>1 DEF RateInv, rateVars, BlockStart
<1>7. BatteryInv'
  BY <1>0, <1>1 DEF BatteryInv, redemptionVars, MostPerHour
<1> QED
  BY <1>3, <1>4, <1>5, <1>6, <1>7 DEF IInv

\* As a token appreciates, the deposits pay for their baskets all the more.
LEMMA AppreciateKept ==
  ASSUME IInv, NEW t \in Tokens, Appreciate(t)
  PROVE  IInv'
<1>0. FieldsInv /\ QueuesInv /\ LiabilitiesExact /\ RateInv /\ BatteryInv
  BY DEF IInv
<1>1. PICK q \in Quantities : q < quantity[t] /\ quantity' = [quantity EXCEPT ![t] = q]
  BY DEF Appreciate
<1>2. UNCHANGED <<supplyVars, queueVars, rateVars, issuanceRate, redemptionVars,
                  nonce, status, mode, blockNumber, backing, issuedInBlock>>
  BY DEF Appreciate, UnchangedByEnvironment
<1>3. /\ quantity' \in [Tokens -> Quantities]
      /\ \A x \in Tokens : /\ quantity'[x] \in Nat /\ quantity[x] \in Nat
                           /\ quantity'[x] <= quantity[x]
  <2>1. quantity \in [Tokens -> Quantities] /\ Quantities \subseteq Nat
    BY <1>0, BasketAssumption DEF FieldsInv
  <2>2. quantity' \in [Tokens -> Quantities]
    BY <1>1, <2>1
  <2>3. ASSUME NEW x \in Tokens PROVE quantity'[x] <= quantity[x]
    <3>1. quantity[x] \in Nat
      BY <2>1
    <3>2. quantity'[x] = IF x = t THEN q ELSE quantity[x]
      BY <1>1, <2>1
    <3> QED
      BY <1>1, <2>1, <3>1, <3>2
  <2> QED
    BY <2>1, <2>2, <2>3
<1>4. FieldsInv'
  BY <1>0, <1>2, <1>3 DEF FieldsInv, supplyVars, queueVars, rateVars
<1>5. QueuesInv'
  <2>1. issueQueues' = issueQueues /\ allVestAt' = allVestAt /\ nonce' = nonce
    BY <1>2 DEF queueVars, rateVars
  <2>2. ASSUME NEW a \in Accounts
        PROVE  PaidFor(issueQueues[a], nonce, quantity')
    <3> DEFINE queue == issueQueues[a]
    <3>1. WellFormed(queue, allVestAt) /\ queue \in Queue /\ PaidFor(queue, nonce, quantity)
      BY <1>0, QueueInv DEF QueuesInv
    <3> HIDE DEF queue
    <3>2. ASSUME queue.basketNonce = nonce,
                 NEW i \in 0..Right(queue), NEW j \in 0..Right(queue), i < j
          PROVE  Pays(Minus(Item(queue, j).deposits, Item(queue, i).deposits),
                      Item(queue, j).amtBaskets - Item(queue, i).amtBaskets,
                      nonce, quantity')
      <4> DEFINE b == Item(queue, j).amtBaskets - Item(queue, i).amtBaskets
                 d == Minus(Item(queue, j).deposits, Item(queue, i).deposits)
      <4>1. Pays(d, b, nonce, quantity)
        BY <3>1, <3>2 DEF PaidFor
      <4>2. b \in Nat
        <5>1. Item(queue, i) \in IssueItem /\ Item(queue, j) \in IssueItem
          BY <3>1, ItemType
        <5>2. Item(queue, i).amtBaskets <= Item(queue, j).amtBaskets
          BY <3>1, <3>2 DEF WellFormed, Before
        <5> QED
          BY <5>1, <5>2 DEF IssueItem
      <4>3. d \in [Tokens -> Int]
        <5>1. Item(queue, i) \in IssueItem /\ Item(queue, j) \in IssueItem
          BY <3>1, ItemType
        <5> QED
          BY <5>1 DEF IssueItem, PerToken, Minus
      <4> HIDE DEF b, d
      <4>4. ASSUME NEW x \in BasketTokens[nonce]
            PROVE  b * quantity'[x] <= FIX_ONE * d[x]
        <5>1. x \in Tokens /\ FIX_ONE \in Nat
          BY <1>0, UnitsType
        <5>2. /\ b * quantity'[x] <= b * quantity[x]
              /\ b * quantity'[x] \in Nat /\ b * quantity[x] \in Nat
          BY <1>3, <4>2, <5>1, ProductMono
        <5>3. b * quantity[x] <= FIX_ONE * d[x]
          BY <4>1 DEF Pays
        <5>4. FIX_ONE * d[x] \in Int
          BY <4>3, <5>1
        <5> QED
          BY <5>2, <5>3, <5>4
      <4>5. Pays(d, b, nonce, quantity')
        BY <4>4 DEF Pays
      <4> QED
        BY <4>5 DEF b, d
    <3>3. PaidFor(queue, nonce, quantity')
      BY <3>2 DEF PaidFor
    <3> QED
      BY <3>3 DEF queue
  <2> QED
    BY <1>0, <2>1, <2>2 DEF QueuesInv
<1>6. LiabilitiesExact'
  BY <1>0, <1>2 DEF LiabilitiesExact, queueVars
<1>7. RateInv'
  BY <1>0, <1>2 DEF RateInv, rateVars, BlockStart
<1>8. BatteryInv'
  BY <1>0, <1>2 DEF BatteryInv, redemptionVars, MostPerHour
<1> QED
  BY <1>4, <1>5, <1>6, <1>7, <1>8 DEF IInv

\* The statuses, the mode, a trade and a new block.
LEMMA EnvironmentKept ==
  ASSUME IInv,
         \/ \E s \in BasketStatuses : SetStatus(s)
         \/ \E m \in Modes : SetMode(m)
         \/ \E t \in Tokens : Trade(t)
         \/ NextBlock
  PROVE  IInv'
<1>0. FieldsInv /\ QueuesInv /\ LiabilitiesExact /\ RateInv /\ BatteryInv
  BY DEF IInv
<1>1. /\ UNCHANGED <<supplyVars, queueVars, rateVars, issuanceRate, redemptionVars,
                     nonce, quantity>>
      /\ \/ UNCHANGED <<blockNumber, issuedInBlock>>
         \/ /\ blockNumber < MaxBlock /\ blockNumber' = blockNumber + 1
            /\ issuedInBlock' = 0
  BY DEF SetStatus, SetMode, Trade, NextBlock, UnchangedByEnvironment, environment
<1>2. blockNumber' \in 1..MaxBlock /\ blockNumber <= blockNumber'
      /\ blockNumber \in 1..MaxBlock
  BY <1>0, <1>1, BoundAssumption DEF FieldsInv
<1>3. status' \in {"SOUND"} \cup BasketStatuses /\ mode' \in {"running"} \cup Modes
  BY <1>0 DEF FieldsInv, SetStatus, SetMode, Trade, NextBlock, environment
<1>4. backing' \in PerToken
  <2>1. CASE \E t \in Tokens : Trade(t)
    <3>1. PICK t \in Tokens, balance \in TradedBalances :
            backing' = [backing EXCEPT ![t] = balance]
      BY <2>1 DEF Trade
    <3> QED
      BY <1>0, <3>1, InputAssumption DEF FieldsInv, PerToken
  <2>2. CASE backing' = backing
    BY <1>0, <2>2 DEF FieldsInv
  <2> QED
    BY <2>1, <2>2 DEF SetStatus, SetMode, NextBlock
<1>5. FieldsInv'
  BY <1>0, <1>1, <1>2, <1>3, <1>4 DEF FieldsInv, supplyVars, queueVars, rateVars
<1>6. QueuesInv'
  BY <1>0, <1>1 DEF QueuesInv, queueVars, rateVars
<1>7. LiabilitiesExact'
  BY <1>0, <1>1 DEF LiabilitiesExact, queueVars
<1>8. RateInv'
  <2>1. CASE UNCHANGED <<blockNumber, issuedInBlock>>
    BY <1>0, <1>1, <2>1 DEF RateInv, rateVars, BlockStart
  <2>2. CASE blockNumber' = blockNumber + 1 /\ issuedInBlock' = 0
    <3>1. lastIssRateBlock <= blockNumber'
      BY <1>0, <1>2 DEF RateInv
    <3>2. issuedInBlock' \in Nat /\ ~(issuedInBlock' > 0)
      BY <2>2
    <3> QED
      BY <1>0, <1>1, <3>1, <3>2 DEF RateInv, rateVars
  <2> QED
    BY <1>1, <2>1, <2>2
<1>9. BatteryInv'
  <2>1. battery.lastBlock <= blockNumber'
    BY <1>0, <1>2 DEF BatteryInv
  <2> QED
    BY <1>0, <1>1, <2>1 DEF BatteryInv, redemptionVars, MostPerHour
<1> QED
  BY <1>5, <1>6, <1>7, <1>8, <1>9 DEF IInv

(***************************************************************************)
(* Invariance, and the invariants that follow                              *)
(***************************************************************************)

\* init() establishes the invariant.
LEMMA InitInv ==
  ASSUME Init
  PROVE  IInv
<1>1. NoTokens \in PerToken /\ \A t \in Tokens : NoTokens[t] = 0
  BY DEF NoTokens, PerToken
<1>2. EmptyQueue \in Queue
  <2>1. <<>> \in Seq(IssueItem) /\ MaxNonce \in Nat
    BY BoundAssumption
  <2> QED
    BY <2>1 DEF EmptyQueue, Queue
<1>3. /\ WellFormed(EmptyQueue, 0) /\ PaidFor(EmptyQueue, nonce, quantity)
      /\ \A t \in Tokens : Pending(EmptyQueue).deposits[t] = 0
      /\ EmptyQueue.basketNonce = 0
  <2>1. EmptyQueue.left = 0 /\ EmptyQueue.items = <<>> /\ EmptyQueue.basketNonce = 0
    BY DEF EmptyQueue
  <2> QED
    BY <1>2, <2>1, EmptyWell
<1>4. FieldsInv
  BY <1>1, <1>2, BoundAssumption DEF Init, FieldsInv
<1>5. QueuesInv
  <2>1. \A a \in Accounts : issueQueues[a] = EmptyQueue
    BY DEF Init
  <2>2. allVestAt = 0 /\ 0 <= nonce
    BY DEF Init
  <2> QED
    BY <1>3, <2>1, <2>2 DEF QueuesInv
<1>6. LiabilitiesExact
  <2>1. ASSUME NEW t \in Tokens
        PROVE  SumFunction([a \in Accounts |-> Pending(issueQueues[a]).deposits[t]]) = 0
    <3>1. [a \in Accounts |-> Pending(issueQueues[a]).deposits[t]] = [a \in Accounts |-> 0]
      BY <1>3 DEF Init
    <3>2. SumFunction([a \in Accounts |-> 0]) = 0
      BY FiniteAssumption, SumZero
    <3> QED
      BY <3>1, <3>2
  <2>2. \A t \in Tokens : liabilities[t] = 0 /\ escrow[t] = 0
    BY <1>1 DEF Init
  <2> QED
    BY <2>1, <2>2 DEF LiabilitiesExact
<1>7. RateInv
  BY BoundAssumption DEF Init, RateInv
<1>8. BatteryInv
  <2>1. battery \in [redemptionRateFloor : RateFloors,
                     scalingRedemptionRate : ScalingRates,
                     lastBlock : {0}, lastCharge : {0}]
        /\ blockNumber = 1 /\ windowStart \in WindowStarts /\ redeemedInWindow = 0
    BY DEF Init
  <2>2. battery \in [redemptionRateFloor : RateFloors,
                     scalingRedemptionRate : ScalingRates,
                     lastBlock : 0..MaxBlock, lastCharge : Nat]
        /\ battery.lastBlock = 0
    BY <2>1, BoundAssumption
  <2> QED
    BY <2>1, <2>2 DEF BatteryInv
<1> QED
  BY <1>4, <1>5, <1>6, <1>7, <1>8 DEF IInv

\* Every step keeps it.
LEMMA NextInv ==
  ASSUME IInv, [Next]_vars
  PROVE  IInv'
<1>1. CASE UNCHANGED vars
  BY <1>1 DEF vars, supplyVars, queueVars, rateVars, environment, redemptionVars,
              IInv, FieldsInv, QueuesInv, LiabilitiesExact, RateInv, BatteryInv,
              BlockStart, MostPerHour
<1>2. ASSUME NEW a \in Accounts, NEW amount \in IssueAmounts, NEW melted \in Melts,
             Issue(a, amount, melted)
      PROVE  IInv'
  BY <1>2, IssueKept
<1>3. ASSUME NEW a \in Accounts, NEW endId \in 0..MaxQueue,
             Vest(a, endId) \/ Cancel(a, endId, TRUE) \/ Cancel(a, endId, FALSE)
      PROVE  IInv'
  BY <1>3, VestKept, CancelKept
<1>4. ASSUME NEW amount \in RedeemAmounts, NEW melted \in Melts, Redeem(amount, melted)
      PROVE  IInv'
  BY <1>4, RedeemKept
<1>5. CASE SweepRewards \/ \E t \in Tokens : ReceiveTokens(t)
  BY <1>5, SweepKept
<1>6. CASE \/ \E amount \in MintAmounts : Mint(amount)
           \/ \E amount \in Melts : Melt(amount)
           \/ SetBasketsNeeded
  BY <1>6, MintKept
<1>7. CASE \/ \E val \in IssuanceRates : SetIssuanceRate(val)
           \/ \E val \in ScalingRates : SetScalingRedemptionRate(val)
           \/ \E val \in RateFloors : SetRedemptionRateFloor(val)
  BY <1>7, GovernanceKept
<1>8. CASE SwitchBasket
  BY <1>8, SwitchKept
<1>9. ASSUME NEW t \in Tokens, Appreciate(t) PROVE IInv'
  BY <1>9, AppreciateKept
<1>10. CASE \/ \E s \in BasketStatuses : SetStatus(s)
            \/ \E m \in Modes : SetMode(m)
            \/ \E t \in Tokens : Trade(t)
            \/ NextBlock
  BY <1>10, EnvironmentKept
<1> QED
  BY <1>1, <1>2, <1>3, <1>4, <1>5, <1>6, <1>7, <1>8, <1>9, <1>10 DEF Next

\* The strengthened invariant of RToken holds in every reachable state, for all
\* accounts, tokens, baskets and rates.
THEOREM RTokenInvariance == Spec => []IInv
<1>1. Init => IInv
  BY InitInv
<1>2. IInv /\ [Next]_vars => IInv'
  BY NextInv
<1> QED
  BY <1>1, <1>2, PTL DEF Spec

\* What is kept of every two items of a queue is so of neighbours.
LEMMA WellFormedQueues ==
  ASSUME FieldsInv, QueuesInv
  PROVE  QueuesWellFormed
<1>1. SUFFICES ASSUME NEW a \in Accounts, NEW queue, queue = issueQueues[a]
      PROVE  /\ queue.left <= Right(queue)
             /\ queue.left = Right(queue) => queue.left = 0
             /\ \A i \in 1..Right(queue) :
                  LET before == Item(queue, i - 1)
                      item == Item(queue, i)
                  IN  /\ before.when < item.when /\ item.when <= allVestAt
                      /\ before.amtRToken < item.amtRToken
                      /\ before.amtBaskets <= item.amtBaskets
                      /\ \A t \in Tokens : before.deposits[t] <= item.deposits[t]
  BY DEF QueuesWellFormed
<1>2. WellFormed(queue, allVestAt) /\ Right(queue) \in Nat
  <2>1. WellFormed(queue, allVestAt)
    BY <1>1 DEF QueuesInv
  <2> QED
    BY <2>1 DEF WellFormed, Queue, Right
<1>3. ASSUME NEW i \in 1..Right(queue)
      PROVE  /\ Before(Item(queue, i - 1), Item(queue, i))
             /\ Item(queue, i).when <= allVestAt
  <2>1. i - 1 \in 0..Right(queue) /\ i \in 0..Right(queue) /\ i - 1 < i /\ i # 0
    BY <1>2
  <2> QED
    BY <1>2, <2>1 DEF WellFormed, Item
<1> QED
  BY <1>2, <1>3 DEF WellFormed, Before

\* Every field keeps its type, and the queues stay well-formed: amounts along a
\* queue may be subtracted, whatever is issued, vested and cancelled.
THEOREM RTokenTypeCorrect == Spec => []TypeOK
<1>1. ASSUME IInv PROVE TypeOK
  <2>1. FieldsInv /\ QueuesInv /\ RateInv /\ BatteryInv
    BY <1>1 DEF IInv
  <2>2. QueuesWellFormed
    BY <2>1, WellFormedQueues
  <2> QED
    BY <2>1, <2>2 DEF TypeOK, FieldsInv, RateInv, BatteryInv, Queue
<1> QED
  BY <1>1, RTokenInvariance, PTL

\* What sweepRewards() holds back is exactly what the pending issuances of all
\* accounts deposited, and the contract has it: every issuer can be refunded.
THEOREM LiabilitiesCovered == Spec => []LiabilitiesExact
<1>1. IInv => LiabilitiesExact
  BY DEF IInv
<1> QED
  BY <1>1, RTokenInvariance, PTL

\* However issuances are split, those that do not wait take no more than the
\* block's rate.
THEOREM IssuanceWithinRate == Spec => []IssuanceThrottled
<1>1. IInv => IssuanceThrottled
  BY DEF IInv, RateInv, IssuanceThrottled
<1> QED
  BY <1>1, RTokenInvariance, PTL

\* From any block on, redemptions take no more than a full battery and what it
\* recharges, whatever is minted, issued and melted in between.
THEOREM RedemptionWithinBattery == Spec => []RedemptionThrottled
<1>1. ASSUME IInv PROVE RedemptionThrottled
  <2> DEFINE k == redeemedInWindow
             b == blockNumber
             w == windowStart
             most == MostPerHour
             bph == BLOCKS_PER_HOUR
             gain == (most * (b - w)) \div bph
  <2>1. /\ k \in Nat /\ b \in Nat /\ w \in Nat /\ most \in Nat /\ bph \in Nat \ {0}
        /\ battery.lastBlock \in Nat /\ battery.lastBlock <= b
        /\ battery.lastCharge \in Nat
    BY <1>1, MostType, ScaleAssumption, BoundAssumption, InputAssumption
       DEF IInv, FieldsInv, BatteryInv
  <2>2. SUFFICES ASSUME b >= w PROVE k <= most + gain
    BY DEF RedemptionThrottled
  <2>3. most * (b - w) \in Nat
    BY <2>1, <2>2
  <2>4. gain \in Nat
    BY <2>1, <2>3, FloorBounds
  <2>5. CASE k <= most
    <3> HIDE DEF k, most, gain
    <3> QED
      BY <2>1, <2>4, <2>5
  <2>6. CASE k > most
    <3>1. /\ w <= battery.lastBlock
          /\ bph * (k + battery.lastCharge)
               <= bph * most + most * (battery.lastBlock - w)
      BY <1>1, <2>1, <2>6 DEF IInv, BatteryInv
    <3> DEFINE c == battery.lastCharge
               d == battery.lastBlock - w
    <3>2. c \in Nat /\ d \in Nat /\ d <= b - w /\ b - w \in Nat
      BY <2>1, <2>2, <3>1
    <3> HIDE DEF c, d
    <3>3. most * d <= most * (b - w) /\ most * d \in Nat
      BY <2>1, <3>2, ProductMono
    <3>4. bph * (k + c) <= bph * most + most * d
      BY <3>1 DEF c, d
    <3> HIDE DEF bph, k, most, gain, b, w
    <3>5. /\ bph * (k + c) = bph * k + bph * c
          /\ bph * (k - most) = bph * k - bph * most
          /\ bph * k \in Nat /\ bph * c \in Nat /\ bph * most \in Nat
      BY <2>1, <3>2
    <3>6. bph * (k - most) <= most * (b - w) /\ k - most \in Nat
      BY <2>1, <2>3, <2>6, <3>3, <3>4, <3>5
    <3>7. k - most <= gain
      BY <2>1, <2>3, <3>6, FloorGreatest DEF gain
    <3> QED
      BY <2>1, <2>4, <3>6, <3>7
  <2> QED
    BY <2>1, <2>5, <2>6
<1> QED
  BY <1>1, RTokenInvariance, PTL

(***************************************************************************)
(* Nothing is given away                                                   *)
(***************************************************************************)

\* Basket units that are added with collateral that pays for them.
LEMMA PaidStaysCollateralized ==
  ASSUME FieldsInv, Collateralized, NEW baskets \in Nat, NEW deposits \in PerToken,
         Pays(deposits, baskets, nonce, quantity),
         basketsNeeded' = basketsNeeded + baskets, backing' = Plus(backing, deposits),
         UNCHANGED <<nonce, quantity>>
  PROVE  Collateralized'
<1>1. ASSUME NEW t \in BasketTokens[nonce]
      PROVE  backing'[t] * FIX_ONE >= basketsNeeded' * quantity[t]
  <2> DEFINE b == backing[t]
             d == deposits[t]
             n == basketsNeeded
             q == quantity[t]
  <2>1. t \in Tokens /\ q \in Nat /\ FIX_ONE \in Nat
    BY UnitsType
  <2>2. b \in Nat /\ d \in Nat /\ n \in Nat
    BY <2>1 DEF FieldsInv, PerToken
  <2>3. backing'[t] = b + d /\ basketsNeeded' = n + baskets
    BY <2>1 DEF Plus
  <2>4. n * q <= FIX_ONE * b /\ baskets * q <= FIX_ONE * d
    <3>1. b * FIX_ONE >= n * q
      BY DEF Collateralized
    <3>2. baskets * q <= FIX_ONE * d
      BY DEF Pays
    <3> HIDE DEF b, d, n, q
    <3> QED
      BY <2>1, <2>2, <3>1, <3>2
  <2> HIDE DEF b, d, n, q
  <2>5. (n + baskets) * q <= FIX_ONE * (b + d)
    BY <2>1, <2>2, <2>4, PaymentsAdd
  <2>6. (b + d) * FIX_ONE >= (n + baskets) * q
    BY <2>1, <2>2, <2>5
  <2> QED
    BY <2>3, <2>6 DEF q
<1> QED
  BY <1>1 DEF Collateralized

\* An issuance pays for its baskets, at once or when it vests.
LEMMA IssueCollateralized ==
  ASSUME IInv, Collateralized, NEW a \in Accounts, NEW amount \in IssueAmounts,
         NEW melted \in Melts, Issue(a, amount, melted)
  PROVE  Collateralized'
<1> DEFINE supply == totalSupply - melted
           baskets == IF supply > 0 THEN (basketsNeeded * amount) \div supply
                      ELSE amount
           deposits == QuoteUp(baskets)
<1>0. FieldsInv /\ RateInv
  BY DEF IInv
<1>1. CanMelt(melted) /\ UNCHANGED <<nonce, quantity>>
  BY DEF Issue, environment
<1>2. \/ basketsNeeded' = basketsNeeded + baskets /\ backing' = Plus(backing, deposits)
      \/ UNCHANGED <<basketsNeeded, backing>>
  BY DEF Issue
<1>3. /\ baskets \in Nat /\ deposits \in PerToken
      /\ Pays(deposits, baskets, nonce, quantity)
  BY <1>0, <1>1, IssueType
<1> HIDE DEF baskets, deposits
<1>4. CASE basketsNeeded' = basketsNeeded + baskets /\ backing' = Plus(backing, deposits)
  BY <1>0, <1>1, <1>3, <1>4, PaidStaysCollateralized
<1>5. CASE UNCHANGED <<basketsNeeded, backing>>
  BY <1>1, <1>5 DEF Collateralized
<1> QED
  BY <1>2, <1>4, <1>5

LEMMA VestCollateralized ==
  ASSUME IInv, Collateralized, NEW a \in Accounts, NEW endId \in 0..MaxQueue,
         Vest(a, endId)
  PROVE  Collateralized'
<1> DEFINE queue == issueQueues[a]
           vested == Span(queue, queue.left, endId)
<1>0. FieldsInv /\ QueuesInv
  BY DEF IInv
<1>1. UNCHANGED <<nonce, quantity>>
  BY DEF Vest, environment
<1>2. CASE Stale(queue) /\ UNCHANGED <<supplyVars, backing>>
  BY <1>1, <1>2 DEF Collateralized, supplyVars
<1>3. CASE ~Stale(queue) /\ VestUpTo(a, endId)
  <2>1. /\ queue.left < endId /\ endId <= Right(queue)
        /\ basketsNeeded' = basketsNeeded + vested.amtBaskets
        /\ backing' = Plus(backing, vested.deposits)
    BY <1>3 DEF VestUpTo
  <2>2. /\ WellFormed(queue, allVestAt) /\ allVestAt \in Nat
        /\ queue.left \in 0..Right(queue) /\ Right(queue) \in 0..Right(queue)
    BY <1>0, QueueInv DEF FieldsInv
  <2>3. endId \in 0..Right(queue) /\ queue.left <= endId
    BY <2>1, <2>2
  <2>4. vested.amtBaskets \in Nat /\ vested.deposits \in PerToken
    BY <2>2, <2>3, SpanType
  <2>5. queue.basketNonce = nonce /\ PaidFor(queue, nonce, quantity)
    BY <1>0, <1>3 DEF QueuesInv, Stale
  <2> HIDE DEF queue
  <2>6. Pays(vested.deposits, vested.amtBaskets, nonce, quantity)
    BY <2>1, <2>2, <2>3, <2>5 DEF PaidFor, Span
  <2> HIDE DEF vested
  <2> QED
    BY <1>0, <1>1, <2>1, <2>4, <2>6, PaidStaysCollateralized
<1> QED
  BY <1>2, <1>3 DEF Vest

\* A redemption takes no more than its baskets are worth.
LEMMA RedeemCollateralized ==
  ASSUME IInv, Collateralized, NEW amount \in RedeemAmounts, NEW melted \in Melts,
         Redeem(amount, melted)
  PROVE  Collateralized'
<1> DEFINE supply == totalSupply - melted
           baskets == BasketsRedeemed(amount, supply)
           paid == Redeemed(amount, supply, baskets)
<1>0. FieldsInv
  BY DEF IInv
<1>1. /\ CanMelt(melted) /\ amount <= supply
      /\ basketsNeeded' = basketsNeeded - baskets /\ backing' = Minus(backing, paid)
      /\ UNCHANGED <<nonce, quantity>>
  BY DEF Redeem, environment
<1>2. /\ baskets \in Nat /\ baskets <= basketsNeeded
      /\ paid \in PerToken
      /\ \A t \in BasketTokens[nonce] : FIX_ONE * paid[t] <= baskets * quantity[t]
  BY <1>0, <1>1, RedeemType
<1> HIDE DEF baskets, paid
<1>3. ASSUME NEW t \in BasketTokens[nonce]
      PROVE  backing'[t] * FIX_ONE >= basketsNeeded' * quantity[t]
  <2> DEFINE b == backing[t]
             p == paid[t]
             n == basketsNeeded
             q == quantity[t]
  <2>1. t \in Tokens /\ q \in Nat /\ FIX_ONE \in Nat
    BY <1>0, UnitsType
  <2>2. b \in Nat /\ p \in Nat /\ n \in Nat
    BY <1>0, <1>2, <2>1 DEF FieldsInv, PerToken
  <2>3. backing'[t] = b - p /\ basketsNeeded' = n - baskets
    BY <1>1, <2>1 DEF Minus
  <2>4. b * FIX_ONE >= n * q /\ FIX_ONE * p <= baskets * q
    BY <1>2 DEF Collateralized
  <2> HIDE DEF b, p, n, q
  <2>5. /\ (b - p) * FIX_ONE = b * FIX_ONE - FIX_ONE * p
        /\ (n - baskets) * q = n * q - baskets * q
        /\ b * FIX_ONE \in Nat /\ FIX_ONE * p \in Nat
        /\ n * q \in Nat /\ baskets * q \in Nat
    BY <1>2, <2>1, <2>2
  <2>6. (b - p) * FIX_ONE >= (n - baskets) * q
    BY <2>4, <2>5
  <2> QED
    BY <2>3, <2>6 DEF q
<1> QED
  BY <1>1, <1>3 DEF Collateralized

\* A new number of baskets is the number held.
LEMMA SupplyCollateralized ==
  ASSUME IInv, Collateralized,
         \/ \E amount \in MintAmounts : Mint(amount)
         \/ \E amount \in Melts : Melt(amount)
         \/ SetBasketsNeeded
  PROVE  Collateralized'
<1>0. FieldsInv
  BY DEF IInv
<1>1. /\ UNCHANGED <<nonce, quantity, backing>>
      /\ basketsNeeded' = basketsNeeded \/ basketsNeeded' = BasketsHeld
  BY DEF Mint, Melt, SetBasketsNeeded, SetSupply, environment
<1>2. CASE basketsNeeded' = basketsNeeded
  BY <1>1, <1>2 DEF Collateralized
<1>3. CASE basketsNeeded' = BasketsHeld
  <2>1. ASSUME NEW t \in BasketTokens[nonce]
        PROVE  backing[t] * FIX_ONE >= BasketsHeld * quantity[t]
    <3>1. BasketsHeld \in Nat /\ BasketsHeld * quantity[t] <= FIX_ONE * backing[t]
      BY <1>0, BasketsHeldBounds
    <3>2. t \in Tokens /\ FIX_ONE \in Nat /\ quantity[t] \in Nat
      BY <1>0, UnitsType
    <3>3. backing[t] \in Nat
      BY <1>0, <3>2 DEF FieldsInv, PerToken
    <3> QED
      BY <3>1, <3>2, <3>3
  <2> QED
    BY <1>1, <1>3, <2>1 DEF Collateralized
<1> QED
  BY <1>1, <1>2, <1>3

\* Issuing, vesting, redeeming, minting and melting, with whatever rounding and
\* whatever was issued before, never make a collateralized RToken
\* undercollateralized.
THEOREM CollateralizationKept == Spec => StaysCollateralized
<1>1. ASSUME IInv, [Next]_vars
      PROVE  [UNCHANGED supplyVars \/ (Collateralized => Collateralized')]_vars
  <2>1. SUFFICES ASSUME Collateralized, Next
                 PROVE  UNCHANGED supplyVars \/ Collateralized'
    BY <1>1
  <2>2. ASSUME NEW a \in Accounts, NEW amount \in IssueAmounts, NEW melted \in Melts,
               Issue(a, amount, melted)
        PROVE  Collateralized'
    BY <1>1, <2>1, <2>2, IssueCollateralized
  <2>3. ASSUME NEW a \in Accounts, NEW endId \in 0..MaxQueue, Vest(a, endId)
        PROVE  Collateralized'
    BY <1>1, <2>1, <2>3, VestCollateralized
  <2>4. ASSUME NEW a \in Accounts, NEW endId \in 0..MaxQueue,
               Cancel(a, endId, TRUE) \/ Cancel(a, endId, FALSE)
        PROVE  UNCHANGED supplyVars
    BY <2>4 DEF Cancel
  <2>5. ASSUME NEW amount \in RedeemAmounts, NEW melted \in Melts, Redeem(amount, melted)
        PROVE  Collateralized'
    BY <1>1, <2>1, <2>5, RedeemCollateralized
  <2>6. CASE \/ \E amount \in MintAmounts : Mint(amount)
             \/ \E amount \in Melts : Melt(amount)
             \/ SetBasketsNeeded
    BY <1>1, <2>1, <2>6, SupplyCollateralized
  <2>7. CASE \/ SweepRewards
             \/ \E val \in IssuanceRates : SetIssuanceRate(val)
             \/ \E val \in ScalingRates : SetScalingRedemptionRate(val)
             \/ \E val \in RateFloors : SetRedemptionRateFloor(val)
    BY <2>7 DEF SweepRewards, SetIssuanceRate, SetScalingRedemptionRate,
                SetRedemptionRateFloor, UnchangedByGovernance
  <2>8. CASE \/ SwitchBasket
             \/ \E s \in BasketStatuses : SetStatus(s)
             \/ \E m \in Modes : SetMode(m)
             \/ \E t \in Tokens : ReceiveTokens(t) \/ Appreciate(t) \/ Trade(t)
             \/ NextBlock
    BY <2>8 DEF SwitchBasket, SetStatus, SetMode, ReceiveTokens, Appreciate, Trade,
                NextBlock, UnchangedByEnvironment
  <2> QED
    BY <2>1, <2>2, <2>3, <2>4, <2>5, <2>6, <2>7, <2>8 DEF Next
<1> QED
  BY <1>1, RTokenInvariance, PTL DEF Spec, StaysCollateralized

\* A part that is reduced by at most its share leaves at least the share of the
\* rest, also when the whole was reduced before.
LEMMA SharesLeft ==
  ASSUME NEW total \in Nat, NEW supply \in Nat, supply <= total,
         NEW amount \in Nat, amount <= supply,
         NEW n \in Nat, NEW b \in Nat, b <= n, supply * b <= n * amount
  PROVE  (n - b) * total >= n * (supply - amount)
<1>1. /\ n - b \in Nat /\ supply - amount \in Nat
  OBVIOUS
<1>2. (n - b) * supply <= (n - b) * total
      /\ (n - b) * supply \in Nat /\ (n - b) * total \in Nat
  BY <1>1, ProductMono
<1>3. /\ (n - b) * supply = n * supply - supply * b
      /\ n * (supply - amount) = n * supply - n * amount
  OBVIOUS
<1>4. /\ n * supply \in Nat /\ supply * b \in Nat /\ n * amount \in Nat
  OBVIOUS
<1> QED
  BY <1>2, <1>3, <1>4

\* A redemption, also of an undercollateralized RToken and after the furnace
\* melted, leaves the other holders at least their share of the basket units
\* and of every token.
THEOREM RedemptionFair == Spec => FairRedemption
<1>1. ASSUME IInv, NEW amount \in RedeemAmounts, NEW melted \in Melts,
             Redeem(amount, melted)
      PROVE  /\ basketsNeeded' * totalSupply >= basketsNeeded * totalSupply'
             /\ \A t \in Tokens : backing'[t] * totalSupply >= backing[t] * totalSupply'
  <2> DEFINE supply == totalSupply - melted
             baskets == BasketsRedeemed(amount, supply)
             paid == Redeemed(amount, supply, baskets)
  <2>1. FieldsInv
    BY <1>1 DEF IInv
  <2>2. /\ CanMelt(melted) /\ amount <= supply
        /\ basketsNeeded' = basketsNeeded - baskets
        /\ totalSupply' = supply - amount /\ backing' = Minus(backing, paid)
    BY <1>1 DEF Redeem
  <2>3. /\ amount \in Nat /\ supply \in Nat /\ supply <= totalSupply
        /\ baskets \in Nat /\ baskets <= basketsNeeded
        /\ supply * baskets <= basketsNeeded * amount
        /\ paid \in PerToken
        /\ \A t \in Tokens : /\ paid[t] <= backing[t]
                             /\ supply * paid[t] <= amount * backing[t]
    BY <2>1, <2>2, RedeemType
  <2> HIDE DEF supply, baskets, paid
  <2>4. totalSupply \in Nat /\ basketsNeeded \in Nat
    BY <2>1 DEF FieldsInv
  <2>5. (basketsNeeded - baskets) * totalSupply >= basketsNeeded * (supply - amount)
    BY <2>2, <2>3, <2>4, SharesLeft
  <2>6. ASSUME NEW t \in Tokens
        PROVE  (backing[t] - paid[t]) * totalSupply >= backing[t] * (supply - amount)
    <3>1. backing[t] \in Nat /\ paid[t] \in Nat
      BY <2>1, <2>3 DEF FieldsInv, PerToken
    <3>2. supply * paid[t] <= backing[t] * amount /\ paid[t] <= backing[t]
      BY <2>3, <3>1
    <3> QED
      BY <2>2, <2>3, <2>4, <3>1, <3>2, SharesLeft
  <2> QED
    BY <2>2, <2>5, <2>6 DEF Minus
<1>2. IInv /\ [Next]_vars =>
        [\A amount \in RedeemAmounts, melted \in Melts : Redeem(amount, melted) =>
           /\ basketsNeeded' * totalSupply >= basketsNeeded * totalSupply'
           /\ \A t \in Tokens : backing'[t] * totalSupply >= backing[t] * totalSupply'
        ]_vars
  BY <1>1
<1> QED
  BY <1>2, RTokenInvariance, PTL DEF Spec, FairRedemption
=============================================================================
