-------------------------- MODULE RTokenRefinement --------------------------
(***************************************************************************)
(* Proof that the issuance queues of RToken implement the lists of tickets *)
(* of IssuanceTickets, for all accounts, tokens, baskets and rates: that a *)
(* queue of accumulated amounts, whose front is a number and whose back is *)
(* cut off or overwritten, loses and mixes up no issuance.                 *)
(***************************************************************************)
EXTENDS RTokenProofs, SequenceTheorems

(***************************************************************************)
(* The tickets of a queue                                                  *)
(***************************************************************************)

Ticket == [amount : Nat, baskets : Nat, deposits : PerToken,
           basketNonce : 0..MaxNonce, blockAvailableAt : Nat]

\* A function on 1..n is a sequence.
LEMMA FunctionIsSeq ==
  ASSUME NEW S, NEW n \in Nat, NEW f \in [1..n -> S]
  PROVE  f \in Seq(S) /\ Len(f) = n
<1>1. f \in Seq(S)
  BY SeqDef
<1>2. Len(f) \in Nat /\ DOMAIN f = 1..Len(f) /\ DOMAIN f = 1..n
  BY <1>1, LenProperties
<1> QED
  BY <1>1, <1>2

\* The tickets of a queue are as many as its pending items.
LEMMA TicketsType ==
  ASSUME NEW queue, NEW until \in Nat, WellFormed(queue, until)
  PROVE  /\ TicketsOf(queue) \in Seq(Ticket)
         /\ Right(queue) - queue.left \in Nat
         /\ Len(TicketsOf(queue)) = Right(queue) - queue.left
<1> DEFINE n == Right(queue) - queue.left
<1>1. /\ queue.left \in Nat /\ Right(queue) \in Nat /\ queue.left <= Right(queue)
      /\ queue.basketNonce \in 0..MaxNonce /\ n \in Nat
  BY DEF WellFormed, Queue, Right
<1>2. \A k \in 1..n : TicketsOf(queue)[k] \in Ticket
  <2> TAKE k \in 1..n
  <2> DEFINE i == queue.left + k - 1
             j == queue.left + k
  <2>1. i \in 0..Right(queue) /\ j \in 0..Right(queue) /\ i <= j
    BY <1>1
  <2>2. TicketsOf(queue)[k] = [amount |-> Span(queue, i, j).amtRToken,
                               baskets |-> Span(queue, i, j).amtBaskets,
                               deposits |-> Span(queue, i, j).deposits,
                               basketNonce |-> queue.basketNonce,
                               blockAvailableAt |-> Span(queue, i, j).when]
    BY DEF TicketsOf
  <2> HIDE DEF i, j
  <2>3. /\ Span(queue, i, j).when \in Nat /\ Span(queue, i, j).amtRToken \in Nat
        /\ Span(queue, i, j).amtBaskets \in Nat /\ Span(queue, i, j).deposits \in PerToken
    BY <2>1, SpanType
  <2> QED
    BY <1>1, <2>2, <2>3 DEF Ticket
<1>3. TicketsOf(queue) \in [1..n -> Ticket]
  BY <1>2 DEF TicketsOf
<1> QED
  BY <1>1, <1>3, FunctionIsSeq

\* A queue without pending items has no ticket.
LEMMA NoTickets ==
  ASSUME NEW queue, queue.left = Right(queue), Right(queue) \in Nat
  PROVE  TicketsOf(queue) = <<>>
<1>1. 1..(Right(queue) - queue.left) = {}
  OBVIOUS
<1>2. TicketsOf(queue) \in [1..0 -> Ticket]
  BY <1>1 DEF TicketsOf
<1>3. TicketsOf(queue) \in Seq(Ticket) /\ Len(TicketsOf(queue)) = 0
  BY <1>2, FunctionIsSeq
<1> QED
  BY <1>3, EmptySeq

\* The ticket between two neighbouring items of a queue.
Between(x, y, n) ==
  [amount |-> y.amtRToken - x.amtRToken, baskets |-> y.amtBaskets - x.amtBaskets,
   deposits |-> Minus(y.deposits, x.deposits), basketNonce |-> n,
   blockAvailableAt |-> y.when]

LEMMA TicketAt ==
  ASSUME NEW queue, NEW k \in 1..(Right(queue) - queue.left)
  PROVE  TicketsOf(queue)[k] = Between(Item(queue, queue.left + k - 1),
                                       Item(queue, queue.left + k),
                                       queue.basketNonce)
BY DEF TicketsOf, Span, Between

\* The numbers of a well-formed queue.
LEMMA QueueNumbers ==
  ASSUME NEW queue, NEW until \in Nat, WellFormed(queue, until)
  PROVE  /\ queue \in Queue /\ queue.items \in Seq(IssueItem)
         /\ queue.left \in Nat /\ Right(queue) \in Nat
         /\ queue.left <= Right(queue) /\ Len(queue.items) = Right(queue)
BY DEF WellFormed, Queue, Right

\* Without a span at its front a queue has the tickets behind it.
LEMMA FrontGone ==
  ASSUME NEW queue, NEW until \in Nat, WellFormed(queue, until),
         NEW mid \in queue.left..Right(queue),
         NEW new, new = WithoutSpan(queue, queue.left, mid)
  PROVE  TicketsOf(new) = SubSeq(TicketsOf(queue), mid - queue.left + 1,
                                 Right(queue) - queue.left)
<1> DEFINE all == TicketsOf(queue)
           n == Right(queue) - queue.left
           k == mid - queue.left
<1>1. /\ queue \in Queue /\ queue.left \in Nat /\ Right(queue) \in Nat
      /\ queue.left <= Right(queue)
  BY QueueNumbers
<1>2. all \in Seq(Ticket) /\ n \in Nat /\ Len(all) = n
  BY TicketsType
<1>3. /\ mid \in Nat /\ queue.left <= mid /\ mid <= Right(queue)
      /\ k \in Nat /\ k <= n /\ n - k = Right(queue) - mid
  BY <1>1
<1>4. CASE mid = queue.left
  <2>1. new = queue /\ k + 1 = 1
    BY <1>1, <1>4 DEF WithoutSpan
  <2>2. SubSeq(all, 1, Len(all)) = all
    BY <1>2, SubSeqFull
  <2> QED
    BY <1>2, <2>1, <2>2, Zenon
<1>5. CASE mid # queue.left /\ mid = Right(queue)
  <2>1. new = [queue EXCEPT !.left = 0, !.items = <<>>]
    BY <1>1, <1>3, <1>5 DEF WithoutSpan
  <2>2. new.left = 0 /\ new.items = <<>>
    BY <1>1, <2>1, EmptiedType
  <2>3. TicketsOf(new) = <<>>
    <3>1. Right(new) = 0
      BY <2>2 DEF Right
    <3> QED
      BY <2>2, <3>1, NoTickets
  <2>4. n < k + 1 /\ n \in Int /\ k + 1 \in Int
    BY <1>2, <1>3, <1>5
  <2> HIDE DEF all, n, k
  <2>5. SubSeq(all, k + 1, n) = <<>>
    BY <2>4, SubSeqEmpty
  <2> QED
    BY <2>3, <2>5 DEF all, n, k
<1>6. CASE mid # queue.left /\ mid # Right(queue)
  <2>1. new = [queue EXCEPT !.left = mid]
    BY <1>1, <1>3, <1>6 DEF WithoutSpan
  <2>2. /\ new.left = mid /\ new.items = queue.items
        /\ new.basketNonce = queue.basketNonce
    BY <1>1, <2>1 DEF Queue
  <2>3. Right(new) = Right(queue) /\ \A i : Item(new, i) = Item(queue, i)
    BY <2>2 DEF Right, Item
  <2>4. WellFormed(new, until)
    BY <1>1, <1>3, SpanLeaves
  <2>5. TicketsOf(new) \in Seq(Ticket) /\ Len(TicketsOf(new)) = n - k
    BY <1>3, <2>2, <2>3, <2>4, TicketsType
  <2>6. /\ SubSeq(all, k + 1, n) \in Seq(Ticket)
        /\ Len(SubSeq(all, k + 1, n)) = n - k
        /\ \A i \in 1..(n - k) : SubSeq(all, k + 1, n)[i] = all[k + i]
    <3>1. \A i \in (k + 1)..n : all[i] \in Ticket
      <4>1. \A i \in (k + 1)..n : i \in 1..n
        BY <1>2, <1>3
      <4> QED
        BY <1>2, <4>1, ElementOfSeq
    <3>2. k + 1 \in Int /\ n \in Int /\ k + 1 <= n /\ n - (k + 1) + 1 = n - k
      <4>1. mid < Right(queue)
        BY <1>1, <1>3, <1>6
      <4>2. k < n
        BY <1>1, <1>3, <4>1
      <4> HIDE DEF n, k
      <4> QED
        BY <1>2, <1>3, <4>2
    <3>3. \A i \in 1..(n - k) : (k + 1) + i - 1 = k + i
      BY <1>3
    <3> HIDE DEF all, n, k
    <3>4. /\ SubSeq(all, k + 1, n) \in Seq(Ticket)
          /\ Len(SubSeq(all, k + 1, n)) = n - (k + 1) + 1
          /\ \A i \in 1..(n - (k + 1) + 1) :
               SubSeq(all, k + 1, n)[i] = all[(k + 1) + i - 1]
      BY <3>1, <3>2, SubSeqProperties
    <3> QED
      BY <3>2, <3>3, <3>4
  <2>7. ASSUME NEW i \in 1..(n - k) PROVE TicketsOf(new)[i] = all[k + i]
    <3>1. /\ i \in 1..(Right(new) - new.left) /\ k + i \in 1..n
          /\ new.left + i - 1 = queue.left + (k + i) - 1
          /\ new.left + i = queue.left + (k + i)
      BY <1>1, <1>3, <2>2, <2>3
    <3>2. TicketsOf(new)[i] = Between(Item(new, new.left + i - 1),
                                      Item(new, new.left + i), new.basketNonce)
      BY <3>1, TicketAt
    <3> HIDE DEF k
    <3>3. all[k + i] = Between(Item(queue, queue.left + (k + i) - 1),
                               Item(queue, queue.left + (k + i)), queue.basketNonce)
      BY <3>1, TicketAt
    <3> QED
      BY <2>2, <2>3, <3>1, <3>2, <3>3
  <2> HIDE DEF all, n, k
  <2> QED
    BY <2>5, <2>6, <2>7, SeqEqual DEF all, n, k
<1> QED
  BY <1>4, <1>5, <1>6

\* Without a span at its back it has the tickets before it.
LEMMA BackGone ==
  ASSUME NEW queue, NEW until \in Nat, WellFormed(queue, until),
         NEW mid \in queue.left..Right(queue),
         NEW new, new = WithoutSpan(queue, mid, Right(queue))
  PROVE  TicketsOf(new) = SubSeq(TicketsOf(queue), 1, mid - queue.left)
<1> DEFINE all == TicketsOf(queue)
           n == Right(queue) - queue.left
           k == mid - queue.left
<1>1. /\ queue \in Queue /\ queue.left \in Nat /\ Right(queue) \in Nat
      /\ queue.left <= Right(queue) /\ queue.items \in Seq(IssueItem)
      /\ Len(queue.items) = Right(queue)
  BY QueueNumbers
<1>2. all \in Seq(Ticket) /\ n \in Nat /\ Len(all) = n
  BY TicketsType
<1>3. /\ mid \in Nat /\ queue.left <= mid /\ mid <= Right(queue)
      /\ k \in Nat /\ k <= n /\ k = mid - queue.left
  BY <1>1
<1>4. CASE mid = Right(queue)
  <2>1. new = queue /\ k = n
    BY <1>1, <1>4 DEF WithoutSpan
  <2>2. SubSeq(all, 1, Len(all)) = all
    BY <1>2, SubSeqFull
  <2> QED
    BY <1>2, <2>1, <2>2, Zenon
<1>5. CASE mid # Right(queue) /\ mid = queue.left
  <2>1. new = [queue EXCEPT !.left = 0, !.items = <<>>]
    BY <1>1, <1>3, <1>5 DEF WithoutSpan
  <2>2. new.left = 0 /\ new.items = <<>>
    BY <1>1, <2>1, EmptiedType
  <2>3. TicketsOf(new) = <<>>
    <3>1. Right(new) = 0
      BY <2>2 DEF Right
    <3> QED
      BY <2>2, <3>1, NoTickets
  <2>4. k < 1 /\ k \in Int
    BY <1>3, <1>5
  <2> HIDE DEF all, n, k
  <2>5. SubSeq(all, 1, k) = <<>>
    BY <2>4, SubSeqEmpty
  <2> QED
    BY <2>3, <2>5 DEF all, k
<1>6. CASE mid # Right(queue) /\ mid # queue.left
  <2>1. new = [queue EXCEPT !.items = SubSeq(@, 1, mid)]
    BY <1>1, <1>3, <1>6 DEF WithoutSpan
  <2>2. /\ SubSeq(queue.items, 1, mid) \in Seq(IssueItem)
        /\ Len(SubSeq(queue.items, 1, mid)) = mid
        /\ \A i \in 1..mid : SubSeq(queue.items, 1, mid)[i] = queue.items[i]
    BY <1>1, <1>3, <1>6
  <2>3. /\ new.left = queue.left /\ new.items = SubSeq(queue.items, 1, mid)
        /\ new.basketNonce = queue.basketNonce
    BY <1>1, <2>1 DEF Queue
  <2>4. Right(new) = mid /\ \A i \in 0..mid : Item(new, i) = Item(queue, i)
    BY <2>2, <2>3 DEF Right, Item
  <2>5. WellFormed(new, until)
    BY <1>1, <1>3, SpanLeaves
  <2>6. TicketsOf(new) \in Seq(Ticket) /\ Len(TicketsOf(new)) = k
    BY <1>3, <2>3, <2>4, <2>5, TicketsType
  <2>7. /\ SubSeq(all, 1, k) \in Seq(Ticket) /\ Len(SubSeq(all, 1, k)) = k
        /\ \A i \in 1..k : SubSeq(all, 1, k)[i] = all[i]
    <3> HIDE DEF all, n, k
    <3> QED
      BY <1>2, <1>3
  <2>8. ASSUME NEW i \in 1..k PROVE TicketsOf(new)[i] = all[i]
    <3>1. /\ i \in 1..(Right(new) - new.left) /\ i \in 1..n
          /\ new.left + i - 1 \in 0..mid /\ new.left + i \in 0..mid
      BY <1>1, <1>3, <2>3, <2>4
    <3>2. TicketsOf(new)[i] = Between(Item(new, new.left + i - 1),
                                      Item(new, new.left + i), new.basketNonce)
      BY <3>1, TicketAt
    <3> HIDE DEF k
    <3>3. all[i] = Between(Item(queue, queue.left + i - 1),
                           Item(queue, queue.left + i), queue.basketNonce)
      BY <3>1, TicketAt
    <3> QED
      BY <2>3, <2>4, <3>1, <3>2, <3>3
  <2> HIDE DEF all, n, k
  <2> QED
    BY <2>6, <2>7, <2>8, SeqEqual DEF all, k
<1> QED
  BY <1>4, <1>5, <1>6

\* An issuance appended to a queue is a ticket appended to its tickets.
LEMMA PushTicket ==
  ASSUME NEW queue, NEW until \in Nat, WellFormed(queue, until),
         NEW n \in 0..MaxNonce, queue.basketNonce = n \/ Right(queue) = 0,
         NEW item \in IssueItem, NEW later \in Nat,
         NEW new, WellFormed(new, later),
         new.basketNonce = n, new.left = queue.left,
         new.items = Append(queue.items, item),
         NEW ticket \in Ticket, ticket = Between(LastItem(queue), item, n)
  PROVE  TicketsOf(new) = Append(TicketsOf(queue), ticket)
<1> DEFINE all == TicketsOf(queue)
           m == Right(queue) - queue.left
<1>1. /\ queue \in Queue /\ queue.left \in Nat /\ Right(queue) \in Nat
      /\ queue.left <= Right(queue) /\ queue.items \in Seq(IssueItem)
      /\ Len(queue.items) = Right(queue)
  BY QueueNumbers
<1>2. all \in Seq(Ticket) /\ m \in Nat /\ Len(all) = m
  BY TicketsType
<1>3. /\ Len(Append(queue.items, item)) = Right(queue) + 1
      /\ \A i \in 1..Right(queue) : Append(queue.items, item)[i] = queue.items[i]
      /\ Append(queue.items, item)[Right(queue) + 1] = item
  BY <1>1, AppendProperties
<1>4. /\ Right(new) = Right(queue) + 1
      /\ \A i \in 0..Right(queue) : Item(new, i) = Item(queue, i)
      /\ Item(new, Right(queue) + 1) = item
  BY <1>1, <1>3 DEF Right, Item
<1>5. TicketsOf(new) \in Seq(Ticket) /\ Len(TicketsOf(new)) = m + 1
  <2>1. Right(new) - new.left = m + 1
    BY <1>1, <1>4
  <2> QED
    BY <2>1, TicketsType
<1>6. /\ Append(all, ticket) \in Seq(Ticket) /\ Len(Append(all, ticket)) = m + 1
      /\ \A i \in 1..m : Append(all, ticket)[i] = all[i]
      /\ Append(all, ticket)[m + 1] = ticket
  <2> HIDE DEF all, m
  <2> QED
    BY <1>2, AppendProperties
<1>7. ASSUME NEW i \in 1..(m + 1) PROVE TicketsOf(new)[i] = Append(all, ticket)[i]
  <2>1. /\ i \in 1..(Right(new) - new.left)
        /\ new.left + i - 1 = queue.left + i - 1 /\ new.left + i = queue.left + i
        /\ queue.left + i - 1 \in 0..Right(queue)
    BY <1>1, <1>4
  <2>2. TicketsOf(new)[i] = Between(Item(new, new.left + i - 1),
                                    Item(new, new.left + i), new.basketNonce)
    BY <2>1, TicketAt
  <2>3. CASE i \in 1..m
    <3>1. queue.left + i \in 0..Right(queue) /\ Right(queue) # 0
      BY <1>1, <2>3
    <3>2. all[i] = Between(Item(queue, queue.left + i - 1),
                           Item(queue, queue.left + i), queue.basketNonce)
      BY <2>3, TicketAt
    <3>3. TicketsOf(new)[i] = all[i]
      BY <1>4, <2>1, <2>2, <3>1, <3>2
    <3> HIDE DEF all, m
    <3> QED
      BY <1>6, <2>3, <3>3
  <2>4. CASE i = m + 1
    <3>1. /\ queue.left + i - 1 = Right(queue) /\ queue.left + i = Right(queue) + 1
      BY <1>1, <2>4
    <3>2. Item(new, new.left + i - 1) = LastItem(queue) /\ Item(new, new.left + i) = item
      BY <1>1, <1>4, <2>1, <3>1 DEF LastItem
    <3>3. TicketsOf(new)[i] = ticket
      BY <2>2, <3>2
    <3> HIDE DEF all, m
    <3> QED
      BY <1>6, <2>4, <3>3
  <2>5. i \in 1..m \/ i = m + 1
    BY <1>2
  <2> QED
    BY <2>3, <2>4, <2>5
<1> HIDE DEF all, m
<1> QED
  BY <1>5, <1>6, <1>7, SeqEqual DEF all

\* The first tickets add up to what the queue accumulated over them.
LEMMA FirstTickets ==
  ASSUME NEW queue, NEW until \in Nat, WellFormed(queue, until),
         NEW k \in 0..(Right(queue) - queue.left)
  PROVE  /\ SumFunction([i \in 1..k |-> TicketsOf(queue)[i].amount])
              = Span(queue, queue.left, queue.left + k).amtRToken
         /\ SumFunction([i \in 1..k |-> TicketsOf(queue)[i].baskets])
              = Span(queue, queue.left, queue.left + k).amtBaskets
<1> DEFINE at(i) == Item(queue, queue.left + i)
           f == [i \in 1..k |-> TicketsOf(queue)[i].amount]
           g == [i \in 0..k |-> at(i).amtRToken]
           h == [i \in 1..k |-> TicketsOf(queue)[i].baskets]
           e == [i \in 0..k |-> at(i).amtBaskets]
<1>1. /\ queue \in Queue /\ queue.left \in Nat /\ Right(queue) \in Nat
      /\ queue.left <= Right(queue)
      /\ k \in Nat /\ k <= Right(queue) - queue.left
  BY QueueNumbers
<1>2. \A i \in 0..k : at(i).amtRToken \in Int /\ at(i).amtBaskets \in Int
  <2>1. \A i \in 0..k : queue.left + i \in 0..Right(queue)
    BY <1>1
  <2>2. \A i \in 0..k : at(i) \in IssueItem
    BY <1>1, <2>1, ItemType
  <2> QED
    BY <2>2 DEF IssueItem
<1>3. \A i \in 1..k :
        /\ TicketsOf(queue)[i].amount = at(i).amtRToken - at(i - 1).amtRToken
        /\ TicketsOf(queue)[i].baskets = at(i).amtBaskets - at(i - 1).amtBaskets
  <2> TAKE i \in 1..k
  <2>1. /\ i \in 1..(Right(queue) - queue.left)
        /\ queue.left + i - 1 = queue.left + (i - 1)
    BY <1>1
  <2>2. TicketsOf(queue)[i] = Between(Item(queue, queue.left + i - 1),
                                      Item(queue, queue.left + i), queue.basketNonce)
    BY <2>1, TicketAt
  <2> QED
    BY <2>1, <2>2 DEF Between
<1>4. \A i \in 1..k : i \in 0..k /\ i - 1 \in 0..k
  BY <1>1
<1> HIDE DEF at
<1>5. g \in [0..k -> Int] /\ e \in [0..k -> Int]
  BY <1>2
<1>6. f \in [1..k -> Int] /\ \A i \in 1..k : f[i] = g[i] - g[i - 1]
  <2>1. ASSUME NEW i \in 1..k PROVE f[i] = g[i] - g[i - 1] /\ f[i] \in Int
    <3>1. f[i] = at(i).amtRToken - at(i - 1).amtRToken
      BY <1>3
    <3>2. g[i] = at(i).amtRToken /\ g[i - 1] = at(i - 1).amtRToken
      BY <1>4
    <3>3. g[i] \in Int /\ g[i - 1] \in Int
      BY <1>4, <1>5
    <3> QED
      BY <3>1, <3>2, <3>3
  <2> QED
    BY <2>1
<1>7. h \in [1..k -> Int] /\ \A i \in 1..k : h[i] = e[i] - e[i - 1]
  <2>1. ASSUME NEW i \in 1..k PROVE h[i] = e[i] - e[i - 1] /\ h[i] \in Int
    <3>1. h[i] = at(i).amtBaskets - at(i - 1).amtBaskets
      BY <1>3
    <3>2. e[i] = at(i).amtBaskets /\ e[i - 1] = at(i - 1).amtBaskets
      BY <1>4
    <3>3. e[i] \in Int /\ e[i - 1] \in Int
      BY <1>4, <1>5
    <3> QED
      BY <3>1, <3>2, <3>3
  <2> QED
    BY <2>1
<1>8. /\ g[k] = at(k).amtRToken /\ g[0] = at(0).amtRToken
      /\ e[k] = at(k).amtBaskets /\ e[0] = at(0).amtBaskets
  BY <1>1
<1> HIDE DEF f, g, h, e
<1>9. SumFunction(f) = g[k] - g[0] /\ SumFunction(h) = e[k] - e[0]
  BY <1>1, <1>5, <1>6, <1>7, SumTelescopes
<1>10. at(0) = Item(queue, queue.left) /\ at(k) = Item(queue, queue.left + k)
  BY <1>1 DEF at
<1> QED
  BY <1>8, <1>9, <1>10 DEF f, h, Span

(***************************************************************************)
(* The mapping                                                             *)
(***************************************************************************)

\* The abstract specification's operators are those of RToken.
LEMMA SameOperators ==
  /\ \A f : Tickets!SumFunction(f) = SumFunction(f)
  /\ \A baskets : Tickets!Quote(baskets, nonce) = QuoteUp(baskets)
  /\ \A amount, supply : Tickets!BasketsFor(amount, supply)
       = IF supply > 0 THEN (basketsNeeded * amount) \div supply ELSE amount
<1>1. ASSUME NEW f PROVE Tickets!SumFunction(f) = SumFunction(f)
  BY Zenon DEF Tickets!SumFunction, Tickets!SumFunctionOnSet, Tickets!FoldFunctionOnSet,
     Tickets!MapThenFoldSet, SumFunction, SumFunctionOnSet, FoldFunctionOnSet,
     MapThenFoldSet
<1>2. ASSUME NEW baskets PROVE Tickets!Quote(baskets, nonce) = QuoteUp(baskets)
  BY DEF Tickets!Quote, Tickets!CeilDiv, QuoteUp, CeilDiv
<1>3. ASSUME NEW amount, NEW supply
      PROVE  Tickets!BasketsFor(amount, supply)
               = IF supply > 0 THEN (basketsNeeded * amount) \div supply ELSE amount
  BY DEF Tickets!BasketsFor
<1> QED
  BY <1>1, <1>2, <1>3

\* An account's tickets are stale when its queue is and not empty.
LEMMA StaleTickets ==
  ASSUME QueuesInv, FieldsInv, NEW a \in Accounts
  PROVE  /\ PendingTickets[a] = TicketsOf(issueQueues[a])
         /\ Tickets!Stale(a) <=> /\ Stale(issueQueues[a])
                                 /\ issueQueues[a].left # Right(issueQueues[a])
<1> DEFINE queue == issueQueues[a]
           all == TicketsOf(queue)
<1>1. PendingTickets[a] = all
  BY DEF PendingTickets
<1>2. WellFormed(queue, allVestAt) /\ allVestAt \in Nat
  BY DEF QueuesInv, FieldsInv
<1> HIDE DEF queue
<1>3. queue.left \in Nat /\ Right(queue) \in Nat /\ queue.left <= Right(queue)
  BY <1>2, QueueNumbers
<1>4. CASE queue.left = Right(queue)
  <2>1. all = <<>>
    BY <1>3, <1>4, NoTickets
  <2> QED
    BY <1>1, <1>4, <2>1 DEF Tickets!Stale, queue
<1>5. CASE queue.left # Right(queue)
  <2>1. 1 \in 1..(Right(queue) - queue.left)
    BY <1>3, <1>5
  <2>2. all[1].basketNonce = queue.basketNonce
    <3>1. all[1] = Between(Item(queue, queue.left + 1 - 1),
                           Item(queue, queue.left + 1), queue.basketNonce)
      BY <2>1, TicketAt
    <3> HIDE DEF all
    <3> QED
      BY <3>1 DEF Between
  <2>3. all # <<>>
    <3>1. all \in Seq(Ticket) /\ Len(all) = Right(queue) - queue.left
      BY <1>2, TicketsType
    <3> HIDE DEF all
    <3> QED
      BY <2>1, <3>1, EmptySeq
  <2> QED
    BY <1>1, <1>5, <2>2, <2>3 DEF Tickets!Stale, Stale, queue
<1> QED
  BY <1>1, <1>4, <1>5 DEF queue

\* A step that changes one account's queue changes that account's tickets.
LEMMA TicketsMove ==
  ASSUME FieldsInv, NEW a \in Accounts, NEW queue,
         issueQueues' = [issueQueues EXCEPT ![a] = queue]
  PROVE  PendingTickets' = [PendingTickets EXCEPT ![a] = TicketsOf(queue)]
BY DEF FieldsInv, PendingTickets

(***************************************************************************)
(* vest() and cancel()                                                     *)
(***************************************************************************)

\* refundSpan() takes away the tickets of the span.
LEMMA RefundTickets ==
  ASSUME FieldsInv, QueuesInv, NEW a \in Accounts,
         NEW mid \in issueQueues[a].left..Right(issueQueues[a])
  PROVE  /\ RefundSpan(a, issueQueues[a].left, mid) =>
              PendingTickets' = [PendingTickets EXCEPT ![a] =
                SubSeq(PendingTickets[a], mid - issueQueues[a].left + 1,
                       Len(PendingTickets[a]))]
         /\ RefundSpan(a, mid, Right(issueQueues[a])) =>
              PendingTickets' = [PendingTickets EXCEPT ![a] =
                SubSeq(PendingTickets[a], 1, mid - issueQueues[a].left)]
<1> DEFINE queue == issueQueues[a]
<1>1. WellFormed(queue, allVestAt) /\ allVestAt \in Nat
  BY DEF QueuesInv, FieldsInv
<1>2. PendingTickets[a] = TicketsOf(queue)
  BY DEF PendingTickets
<1>3. /\ Len(TicketsOf(queue)) = Right(queue) - queue.left
      /\ mid \in queue.left..Right(queue)
  BY <1>1, TicketsType
<1>4. ASSUME RefundSpan(a, queue.left, mid)
      PROVE  PendingTickets' = [PendingTickets EXCEPT ![a] =
               SubSeq(PendingTickets[a], mid - queue.left + 1, Len(PendingTickets[a]))]
  <2> DEFINE new == WithoutSpan(queue, queue.left, mid)
  <2>1. issueQueues' = [issueQueues EXCEPT ![a] = new]
    BY <1>4 DEF RefundSpan
  <2>2. PendingTickets' = [PendingTickets EXCEPT ![a] = TicketsOf(new)]
    BY <2>1, TicketsMove
  <2> HIDE DEF queue
  <2>3. TicketsOf(new) = SubSeq(TicketsOf(queue), mid - queue.left + 1,
                                Right(queue) - queue.left)
    BY <1>1, <1>3, FrontGone
  <2> HIDE DEF new
  <2> QED
    BY <1>2, <1>3, <2>2, <2>3
<1>5. ASSUME RefundSpan(a, mid, Right(queue))
      PROVE  PendingTickets' = [PendingTickets EXCEPT ![a] =
               SubSeq(PendingTickets[a], 1, mid - queue.left)]
  <2> DEFINE new == WithoutSpan(queue, mid, Right(queue))
  <2>1. issueQueues' = [issueQueues EXCEPT ![a] = new]
    BY <1>5 DEF RefundSpan
  <2>2. PendingTickets' = [PendingTickets EXCEPT ![a] = TicketsOf(new)]
    BY <2>1, TicketsMove
  <2> HIDE DEF queue
  <2>3. TicketsOf(new) = SubSeq(TicketsOf(queue), 1, mid - queue.left)
    BY <1>1, <1>3, BackGone
  <2> HIDE DEF new
  <2> QED
    BY <1>2, <2>2, <2>3
<1> QED
  BY <1>4, <1>5

\* cancel() cancels tickets from the front or from the back.
LEMMA CancelRefines ==
  ASSUME IInv, NEW a \in Accounts, NEW endId \in 0..MaxQueue,
         NEW earliest \in BOOLEAN, Cancel(a, endId, earliest)
  PROVE  \E k \in 0..Len(PendingTickets[a]) : Tickets!Cancel(a, k)
<1> DEFINE queue == issueQueues[a]
           k == endId - queue.left
<1>0. FieldsInv /\ QueuesInv
  BY DEF IInv
<1>1. WellFormed(queue, allVestAt) /\ allVestAt \in Nat
  BY <1>0 DEF QueuesInv, FieldsInv
<1>2. /\ queue.left <= endId /\ endId <= Right(queue)
      /\ UNCHANGED <<totalSupply, basketsNeeded, nonce, quantity, status, blockNumber>>
      /\ \/ RefundSpan(a, queue.left, endId)
         \/ RefundSpan(a, endId, Right(queue))
  BY DEF Cancel, supplyVars, environment
<1>3. /\ queue.left \in Nat /\ Right(queue) \in Nat
      /\ Len(TicketsOf(queue)) = Right(queue) - queue.left
  BY <1>1, QueueNumbers, TicketsType
<1>4. k \in 0..Len(PendingTickets[a]) /\ endId \in queue.left..Right(queue)
  <2>1. PendingTickets[a] = TicketsOf(queue)
    BY DEF PendingTickets
  <2> QED
    BY <1>2, <1>3, <2>1
<1>5. \/ PendingTickets' = [PendingTickets EXCEPT ![a] =
            SubSeq(PendingTickets[a], k + 1, Len(PendingTickets[a]))]
      \/ PendingTickets' = [PendingTickets EXCEPT ![a] =
            SubSeq(PendingTickets[a], 1, k)]
  BY <1>0, <1>2, <1>4, RefundTickets
<1> HIDE DEF k
<1>6. Tickets!Cancel(a, k)
  BY <1>2, <1>5 DEF Tickets!Cancel, Tickets!Environment
<1> QED
  BY <1>4, <1>6

\* vest() vests the first tickets, or refunds those for an older basket, of
\* which there may be none.
LEMMA VestRefines ==
  ASSUME IInv, NEW a \in Accounts, NEW endId \in 0..MaxQueue, Vest(a, endId)
  PROVE  \/ \E k \in 1..Len(PendingTickets[a]) : Tickets!Vest(a, k)
         \/ Tickets!RefundStale(a)
         \/ UNCHANGED Tickets!ticketVars
<1> DEFINE queue == issueQueues[a]
           all == TicketsOf(queue)
           n == Right(queue) - queue.left
<1>0. FieldsInv /\ QueuesInv
  BY DEF IInv
<1>1. WellFormed(queue, allVestAt) /\ allVestAt \in Nat
  BY <1>0 DEF QueuesInv, FieldsInv
<1>2. /\ status = "SOUND"
      /\ UNCHANGED <<nonce, quantity, status, blockNumber>>
  BY DEF Vest, environment
<1>3. /\ PendingTickets[a] = all
      /\ Tickets!Stale(a) <=> Stale(queue) /\ queue.left # Right(queue)
  BY <1>0, StaleTickets
<1>4. /\ queue.left \in Nat /\ Right(queue) \in Nat /\ queue.left <= Right(queue)
      /\ n \in Nat /\ Len(all) = n
  BY <1>1, QueueNumbers, TicketsType
<1>5. CASE Stale(queue)
  <2>1. /\ RefundSpan(a, queue.left, Right(queue))
        /\ UNCHANGED <<totalSupply, basketsNeeded>>
    BY <1>5 DEF Vest, VestUpTo, supplyVars
  <2>2. PendingTickets' = [PendingTickets EXCEPT ![a] = SubSeq(all, 1, 0)]
    <3>1. PendingTickets' = [PendingTickets EXCEPT ![a] =
            SubSeq(PendingTickets[a], 1, queue.left - queue.left)]
      <4>1. queue.left \in queue.left..Right(queue)
        BY <1>4
      <4> QED
        BY <1>0, <2>1, <4>1, RefundTickets
    <3>2. queue.left - queue.left = 0
      BY <1>4
    <3> QED
      BY <1>3, <3>1, <3>2
  <2>3. SubSeq(all, 1, 0) = <<>>
    BY SubSeqEmpty
  <2>4. CASE queue.left = Right(queue)
    <3>1. all = <<>>
      BY <1>4, <2>4, NoTickets
    <3>2. PendingTickets' = [PendingTickets EXCEPT ![a] = PendingTickets[a]]
      BY <1>3, <2>2, <2>3, <3>1, Zenon
    <3>3. PendingTickets' = PendingTickets
      <4>1. [PendingTickets EXCEPT ![a] = PendingTickets[a]] = PendingTickets
        BY DEF PendingTickets
      <4> QED
        BY <3>2, <4>1
    <3> QED
      BY <1>2, <2>1, <3>3 DEF Tickets!ticketVars
  <2>5. CASE queue.left # Right(queue)
    <3>1. Tickets!Stale(a)
      BY <1>3, <1>5, <2>5
    <3> QED
      BY <1>2, <2>1, <2>2, <2>3, <3>1 DEF Tickets!RefundStale, Tickets!Environment
  <2> QED
    BY <2>4, <2>5
<1>6. CASE ~Stale(queue)
  <2> DEFINE k == endId - queue.left
             vested == Span(queue, queue.left, endId)
             new == WithoutSpan(queue, queue.left, endId)
  <2>1. /\ queue.left < endId /\ endId <= Right(queue) /\ Ready(queue, endId)
        /\ totalSupply' = totalSupply + vested.amtRToken
        /\ basketsNeeded' = basketsNeeded + vested.amtBaskets
        /\ issueQueues' = [issueQueues EXCEPT ![a] = new]
    BY <1>6 DEF Vest, VestUpTo
  <2>2. /\ k \in 1..n /\ k \in 0..n /\ queue.left + k = endId
        /\ endId \in queue.left..Right(queue)
    BY <1>4, <2>1
  <2>3. PendingTickets' = [PendingTickets EXCEPT ![a] = SubSeq(all, k + 1, n)]
    <3>1. PendingTickets' = [PendingTickets EXCEPT ![a] = TicketsOf(new)]
      BY <1>0, <2>1, TicketsMove
    <3> HIDE DEF queue
    <3>2. TicketsOf(new) = SubSeq(TicketsOf(queue), endId - queue.left + 1,
                                  Right(queue) - queue.left)
      BY <1>1, <2>2, FrontGone
    <3> QED
      BY <3>1, <3>2
  <2> HIDE DEF queue
  <2>4. /\ SumFunction([i \in 1..k |-> all[i].amount]) = vested.amtRToken
        /\ SumFunction([i \in 1..k |-> all[i].baskets]) = vested.amtBaskets
    <3> HIDE DEF k
    <3>1. /\ SumFunction([i \in 1..k |-> TicketsOf(queue)[i].amount])
               = Span(queue, queue.left, queue.left + k).amtRToken
          /\ SumFunction([i \in 1..k |-> TicketsOf(queue)[i].baskets])
               = Span(queue, queue.left, queue.left + k).amtBaskets
      BY <1>1, <2>2, FirstTickets
    <3>2. Span(queue, queue.left, queue.left + k) = vested
      BY <2>2
    <3> QED
      BY <3>1, <3>2
  <2>5. \A i \in 1..k : all[i].blockAvailableAt <= FIX_ONE * blockNumber
    <3> TAKE i \in 1..k
    <3>1. i \in 1..n /\ queue.left + i \in 0..Right(queue) /\ endId \in 0..Right(queue)
          /\ queue.left + i <= endId
      BY <1>4, <2>1, <2>2
    <3>2. all[i] = Between(Item(queue, queue.left + i - 1),
                           Item(queue, queue.left + i), queue.basketNonce)
      BY <3>1, TicketAt
    <3> HIDE DEF all
    <3>3. all[i].blockAvailableAt = Item(queue, queue.left + i).when
      BY <3>2 DEF Between
    <3>4. Item(queue, queue.left + i) \in IssueItem /\ Item(queue, endId) \in IssueItem
      BY <1>1, <3>1, QueueNumbers, ItemType
    <3>5. Item(queue, queue.left + i).when <= Item(queue, endId).when
      <4>1. CASE queue.left + i = endId
        BY <3>4, <4>1 DEF IssueItem
      <4>2. CASE queue.left + i < endId
        <5>1. Before(Item(queue, queue.left + i), Item(queue, endId))
          BY <1>1, <3>1, <4>2 DEF WellFormed
        <5> QED
          BY <3>4, <5>1 DEF Before, IssueItem
      <4> QED
        BY <1>4, <3>1, <4>1, <4>2
    <3>6. Item(queue, endId).when <= FIX_ONE * blockNumber
      BY <2>1 DEF Ready
    <3>7. /\ Item(queue, endId).when \in Nat
          /\ Item(queue, queue.left + i).when \in Nat
          /\ FIX_ONE * blockNumber \in Nat
      BY <1>0, <3>4, ScaleAssumption, BoundAssumption DEF IssueItem, FieldsInv
    <3> QED
      BY <3>3, <3>5, <3>6, <3>7
  <2>6. ~Tickets!Stale(a)
    BY <1>3, <1>6 DEF queue
  <2>7. PendingTickets[a] = all /\ Len(PendingTickets[a]) = n
    BY <1>3, <1>4
  <2> HIDE DEF all, n, k, vested, new
  <2>8. /\ totalSupply' = totalSupply
             + Tickets!SumFunction([i \in 1..k |-> PendingTickets[a][i].amount])
        /\ basketsNeeded' = basketsNeeded
             + Tickets!SumFunction([i \in 1..k |-> PendingTickets[a][i].baskets])
    BY <2>1, <2>4, <2>7, SameOperators, Zenon
  <2>9. PendingTickets' = [PendingTickets EXCEPT ![a] =
          SubSeq(PendingTickets[a], k + 1, Len(PendingTickets[a]))]
    BY <2>3, <2>7
  <2>10. Tickets!Vest(a, k)
    BY <1>2, <2>5, <2>6, <2>7, <2>8, <2>9 DEF Tickets!Vest, Tickets!Environment
  <2> QED
    BY <2>2, <2>7, <2>10
<1> QED
  BY <1>5, <1>6

(***************************************************************************)
(* issue()                                                                 *)
(***************************************************************************)

\* The refund that issue() begins with leaves the tickets of the current
\* basket, and all of them vest before what is issued now.
LEMMA RefreshTickets ==
  ASSUME FieldsInv, QueuesInv, NEW a \in Accounts,
         NEW queue, queue = Refreshed(issueQueues[a])
  PROVE  /\ TicketsOf(queue) = IF Tickets!Stale(a) THEN <<>> ELSE PendingTickets[a]
         /\ TicketsOf(queue) # <<>> =>
              TicketsOf(queue)[Len(TicketsOf(queue))].blockAvailableAt <= allVestAt
<1> DEFINE old == issueQueues[a]
           all == TicketsOf(queue)
           n == Right(queue) - queue.left
<1>1. WellFormed(old, allVestAt) /\ WellFormed(queue, allVestAt) /\ allVestAt \in Nat
  BY RefreshLeaves DEF QueuesInv, FieldsInv
<1>2. /\ PendingTickets[a] = TicketsOf(old)
      /\ Tickets!Stale(a) <=> Stale(old) /\ old.left # Right(old)
  BY StaleTickets
<1>3. all = IF Tickets!Stale(a) THEN <<>> ELSE TicketsOf(old)
  <2>1. CASE ~Stale(old)
    BY <1>2, <2>1 DEF Refreshed
  <2>2. CASE Stale(old)
    <3>1. queue = WithoutSpan(old, old.left, Right(old))
      BY <2>2 DEF Refreshed, Emptied
    <3>2. /\ old.left \in Nat /\ Right(old) \in Nat /\ old.left <= Right(old)
          /\ old \in Queue
      BY <1>1, QueueNumbers
    <3>3. CASE old.left = Right(old)
      <4>1. queue = old
        BY <3>1, <3>3, <3>2 DEF WithoutSpan
      <4> QED
        BY <1>2, <3>3, <4>1
    <3>4. CASE old.left # Right(old)
      <4>1. queue = [old EXCEPT !.left = 0, !.items = <<>>]
        BY <3>1, <3>2, <3>4 DEF WithoutSpan
      <4>2. queue.left = 0 /\ queue.items = <<>>
        BY <3>2, <4>1, EmptiedType
      <4>3. Right(queue) = 0
        BY <4>2 DEF Right
      <4>4. all = <<>>
        BY <4>2, <4>3, NoTickets
      <4> QED
        BY <1>2, <2>2, <3>4, <4>4
    <3> QED
      BY <3>3, <3>4
  <2> QED
    BY <2>1, <2>2
<1>4. ASSUME all # <<>> PROVE all[Len(all)].blockAvailableAt <= allVestAt
  <2>1. /\ queue.left \in Nat /\ Right(queue) \in Nat /\ queue.left <= Right(queue)
        /\ all \in Seq(Ticket) /\ Len(all) = n
    BY <1>1, QueueNumbers, TicketsType
  <2>2. queue.left # Right(queue)
    BY <1>4, <2>1, NoTickets
  <2>3. n \in 1..n /\ queue.left + n = Right(queue) /\ Right(queue) # 0
        /\ Right(queue) \in 1..Right(queue)
    BY <2>1, <2>2
  <2>4. all[n] = Between(Item(queue, queue.left + n - 1),
                         Item(queue, queue.left + n), queue.basketNonce)
    BY <2>3, TicketAt
  <2> HIDE DEF all
  <2>5. all[n].blockAvailableAt = Item(queue, queue.left + n).when
    BY <2>4 DEF Between
  <2>6. Item(queue, queue.left + n) = queue.items[Right(queue)]
    BY <2>3 DEF Item
  <2>7. queue.items[Right(queue)].when <= allVestAt
    BY <1>1, <2>3 DEF WellFormed
  <2> QED
    BY <2>1, <2>5, <2>6, <2>7
<1> QED
  BY <1>2, <1>3, <1>4

\* issue() refunds the tickets for an older basket, and issues at once or
\* appends a ticket.
LEMMA IssueRefines ==
  ASSUME IInv, IInv', NEW a \in Accounts, NEW amount \in IssueAmounts,
         NEW melted \in Melts, Issue(a, amount, melted)
  PROVE  \E when \in 1..MaxWhen : Tickets!Issue(a, amount, melted, when)
<1> DEFINE old == issueQueues[a]
           queue == Refreshed(old)
           supply == totalSupply - melted
           baskets == IF supply > 0 THEN (basketsNeeded * amount) \div supply
                      ELSE amount
           deposits == QuoteUp(baskets)
           finished == WhenFinished(amount, IssRate(supply))
           last == LastItem(queue)
           item == [when |-> finished,
                    amtRToken |-> last.amtRToken + amount,
                    amtBaskets |-> last.amtBaskets + baskets,
                    deposits |-> Plus(last.deposits, deposits)]
           pushed == [basketNonce |-> nonce, left |-> queue.left,
                      items |-> Append(queue.items, item)]
           pending == IF Tickets!Stale(a) THEN <<>> ELSE PendingTickets[a]
           ticket == [amount |-> amount, baskets |-> baskets, deposits |-> deposits,
                      basketNonce |-> nonce, blockAvailableAt |-> finished]
<1>0. FieldsInv /\ QueuesInv /\ RateInv /\ QueuesInv'
  BY DEF IInv
<1>1. /\ CanMelt(melted) /\ status = "SOUND" /\ finished <= MaxWhen
      /\ UNCHANGED <<nonce, quantity, status, blockNumber>>
  BY DEF Issue, environment
<1>2. /\ amount \in Nat \ {0} /\ supply \in Nat /\ baskets \in Nat
      /\ deposits \in PerToken
  BY <1>0, <1>1, IssueType
<1>3. /\ finished \in Nat /\ allVestAt \in Nat /\ allVestAt < finished
  <2>1. allVestAt \in Nat
    BY <1>0 DEF FieldsInv
  <2>2. IssRate(supply) \in Nat \ {0}
    BY <1>0, <1>2, RateType
  <2> DEFINE rate == IssRate(supply)
  <2> HIDE DEF rate
  <2>3. \A f : f = WhenFinished(amount, rate) =>
          /\ f \in Nat
          /\ \E before \in Nat : allVestAt <= before /\ before < f
    BY <1>0, <1>2, <2>2, FinishedType DEF rate
  <2>4. /\ finished \in Nat
        /\ \E before \in Nat : allVestAt <= before /\ before < finished
    BY <2>3 DEF rate
  <2> HIDE DEF finished
  <2> QED
    BY <2>1, <2>4
<1>4. WellFormed(queue, allVestAt) /\ (queue.basketNonce = nonce \/ Right(queue) = 0)
  BY <1>0, RefreshLeaves
<1>5. /\ TicketsOf(queue) = pending
      /\ pending # <<>> => pending[Len(pending)].blockAvailableAt <= allVestAt
  BY <1>0, RefreshTickets
<1>6. pending # <<>> => Tickets!Last(pending).blockAvailableAt < finished
  <2>1. ASSUME pending # <<>> PROVE pending[Len(pending)].blockAvailableAt \in Nat
    <3>1. TicketsOf(queue) \in Seq(Ticket)
      BY <1>3, <1>4, TicketsType
    <3> HIDE DEF pending
    <3>2. Len(pending) \in 1..Len(pending) /\ pending \in Seq(Ticket)
      BY <1>5, <2>1, <3>1, EmptySeq
    <3>3. pending[Len(pending)] \in Ticket
      BY <3>2, ElementOfSeq
    <3> QED
      BY <3>3 DEF Ticket
  <2> HIDE DEF pending, finished
  <2> QED
    BY <1>3, <1>5, <2>1 DEF Tickets!Last
<1>7. \/ /\ finished <= FIX_ONE * blockNumber
         /\ totalSupply' = supply + amount
         /\ basketsNeeded' = basketsNeeded + baskets
         /\ issueQueues' = [issueQueues EXCEPT ![a] = queue]
      \/ /\ totalSupply' = supply
         /\ issueQueues' = [issueQueues EXCEPT ![a] = pushed]
         /\ UNCHANGED basketsNeeded
  BY DEF Issue, Refreshed
<1>8. ASSUME issueQueues' = [issueQueues EXCEPT ![a] = queue]
      PROVE  PendingTickets' = [PendingTickets EXCEPT ![a] = pending]
  <2> HIDE DEF queue, pending
  <2> QED
    BY <1>0, <1>5, <1>8, TicketsMove
<1>9. ASSUME issueQueues' = [issueQueues EXCEPT ![a] = pushed]
      PROVE  PendingTickets' = [PendingTickets EXCEPT ![a] = Append(pending, ticket)]
  <2>1. PendingTickets' = [PendingTickets EXCEPT ![a] = TicketsOf(pushed)]
    BY <1>0, <1>9, TicketsMove
  <2>2. WellFormed(pushed, allVestAt') /\ allVestAt' \in Nat
    <3>1. issueQueues'[a] = pushed
      BY <1>0, <1>9 DEF FieldsInv
    <3> HIDE DEF pushed
    <3> QED
      BY <3>1 DEF IInv, QueuesInv, FieldsInv
  <2>3. last \in IssueItem
    BY <1>3, <1>4, QueueNumbers, ItemType DEF LastItem
  <2> HIDE DEF queue, last, supply, baskets, deposits, finished, pending
  <2>4. item \in IssueItem
    BY <1>2, <1>3, <2>3 DEF IssueItem, PerToken, Plus
  <2>5. nonce \in 0..MaxNonce /\ ticket \in Ticket
    BY <1>0, <1>2, <1>3, BoundAssumption DEF FieldsInv, Ticket
  <2>6. ticket = Between(LastItem(queue), item, nonce)
    <3>1. /\ item.amtRToken - last.amtRToken = amount
          /\ item.amtBaskets - last.amtBaskets = baskets
      BY <1>2, <2>3 DEF IssueItem
    <3>2. Minus(item.deposits, last.deposits) = deposits
      BY <1>2, <2>3 DEF IssueItem, PerToken, Plus, Minus
    <3>3. item.when = finished
      OBVIOUS
    <3> HIDE DEF item
    <3> QED
      BY <3>1, <3>2, <3>3 DEF Between, last
  <2>7. /\ pushed.basketNonce = nonce /\ pushed.left = queue.left
        /\ pushed.items = Append(queue.items, item)
    OBVIOUS
  <2> HIDE DEF item, pushed, ticket
  <2>8. TicketsOf(pushed) = Append(TicketsOf(queue), ticket)
    BY <1>3, <1>4, <2>2, <2>4, <2>5, <2>6, <2>7, PushTicket
  <2> QED
    BY <1>5, <2>1, <2>8
<1>10. finished \in 1..MaxWhen
  BY <1>1, <1>3, BoundAssumption
<1>11. /\ Tickets!BasketsFor(amount, supply) = baskets
       /\ Tickets!Quote(baskets, nonce) = deposits
  BY SameOperators
<1>12. supply >= 0
  BY <1>2
<1> HIDE DEF queue, baskets, deposits, finished, item, pushed, last
<1>13. Tickets!Issue(a, amount, melted, finished)
  <2>1. CASE /\ finished <= FIX_ONE * blockNumber
             /\ totalSupply' = supply + amount
             /\ basketsNeeded' = basketsNeeded + baskets
             /\ issueQueues' = [issueQueues EXCEPT ![a] = queue]
    BY <1>1, <1>6, <1>8, <1>11, <1>12, <2>1 DEF Tickets!Issue, Tickets!Environment
  <2>2. CASE /\ totalSupply' = supply
             /\ issueQueues' = [issueQueues EXCEPT ![a] = pushed]
             /\ UNCHANGED basketsNeeded
    BY <1>1, <1>6, <1>9, <1>11, <1>12, <2>2 DEF Tickets!Issue, Tickets!Environment
  <2> QED
    BY <1>7, <2>1, <2>2
<1> QED
  BY <1>10, <1>13

(***************************************************************************)
(* The other operations, and all steps                                     *)
(***************************************************************************)

\* redeem() leaves the tickets alone.
LEMMA RedeemRefines ==
  ASSUME NEW amount \in RedeemAmounts, NEW melted \in Melts, Redeem(amount, melted)
  PROVE  Tickets!Redeem(amount, melted)
<1>1. /\ UNCHANGED <<issueQueues, nonce, quantity, status, blockNumber>>
      /\ status # "DISABLED" /\ amount <= totalSupply - melted
      /\ basketsNeeded' = basketsNeeded
                           - (basketsNeeded * amount) \div (totalSupply - melted)
      /\ totalSupply' = (totalSupply - melted) - amount
  BY DEF Redeem, BasketsRedeemed, queueVars, environment
<1>2. UNCHANGED PendingTickets
  BY <1>1 DEF PendingTickets
<1> QED
  BY <1>1, <1>2 DEF Tickets!Redeem, Tickets!Environment

\* mint(), melt() and setBasketsNeeded() change the supply or the baskets.
LEMMA SupplyRefines ==
  ASSUME FieldsInv,
         \/ \E amount \in MintAmounts : Mint(amount)
         \/ \E amount \in Melts : Melt(amount)
         \/ SetBasketsNeeded
  PROVE  Tickets!Adjust
<1>1. UNCHANGED <<issueQueues, nonce, quantity, status, blockNumber>>
  BY DEF Mint, Melt, SetBasketsNeeded, SetSupply, queueVars, environment
<1>2. UNCHANGED PendingTickets
  BY <1>1 DEF PendingTickets
<1>3. /\ totalSupply \in Nat /\ totalSupply <= MaxSupply /\ MaxSupply \in Nat
  BY BoundAssumption DEF FieldsInv
<1>4. \/ totalSupply' \in 0..MaxSupply /\ UNCHANGED basketsNeeded
      \/ basketsNeeded' \in 0..MaxSupply /\ UNCHANGED totalSupply
  <2>1. ASSUME NEW amount \in MintAmounts, Mint(amount)
        PROVE  totalSupply' \in 0..MaxSupply /\ UNCHANGED basketsNeeded
    BY <1>3, <2>1, InputAssumption DEF Mint, SetSupply
  <2>2. ASSUME NEW amount \in Melts, Melt(amount)
        PROVE  totalSupply' \in 0..MaxSupply /\ UNCHANGED basketsNeeded
    BY <1>3, <2>2, InputAssumption DEF Melt, SetSupply
  <2>3. ASSUME SetBasketsNeeded
        PROVE  basketsNeeded' \in 0..MaxSupply /\ UNCHANGED totalSupply
    <3>1. BasketsHeld \in Nat
      BY BasketsHeldBounds
    <3>2. /\ BasketsHeld <= MaxSupply /\ basketsNeeded' = BasketsHeld
          /\ totalSupply' = totalSupply
      BY <2>3 DEF SetBasketsNeeded, SetSupply
    <3> QED
      BY <1>3, <3>1, <3>2
  <2> QED
    BY <2>1, <2>2, <2>3
<1> QED
  BY <1>1, <1>2, <1>4 DEF Tickets!Adjust, Tickets!Environment

\* The environment's steps that the tickets depend on are the abstract ones.
LEMMA EnvironmentRefines ==
  ASSUME FieldsInv,
         \/ SwitchBasket
         \/ \E s \in BasketStatuses : SetStatus(s)
         \/ \E t \in Tokens : Appreciate(t)
         \/ NextBlock
  PROVE  Tickets!EnvironmentStep
<1>1. UNCHANGED <<issueQueues, totalSupply, basketsNeeded>>
  BY DEF SwitchBasket, SetStatus, Appreciate, NextBlock, UnchangedByEnvironment,
         supplyVars, queueVars
<1>2. UNCHANGED PendingTickets
  BY <1>1 DEF PendingTickets
<1>3. \/ nonce' = nonce + 1 /\ UNCHANGED <<quantity, status, blockNumber>>
      \/ status' \in Tickets!Statuses /\ UNCHANGED <<nonce, quantity, blockNumber>>
      \/ blockNumber' = blockNumber + 1 /\ UNCHANGED <<nonce, quantity, status>>
      \/ /\ quantity' \in [Tokens -> Quantities]
         /\ UNCHANGED <<nonce, status, blockNumber>>
  <2>1. ASSUME SwitchBasket
        PROVE  nonce' = nonce + 1 /\ UNCHANGED <<quantity, status, blockNumber>>
    BY <2>1 DEF SwitchBasket
  <2>2. ASSUME NEW s \in BasketStatuses, SetStatus(s)
        PROVE  status' \in Tickets!Statuses /\ UNCHANGED <<nonce, quantity, blockNumber>>
    BY <2>2, ParamAssumption DEF SetStatus, Tickets!Statuses
  <2>3. ASSUME NEW t \in Tokens, Appreciate(t)
        PROVE  /\ quantity' \in [Tokens -> Quantities]
               /\ UNCHANGED <<nonce, status, blockNumber>>
    BY <2>3 DEF Appreciate, FieldsInv
  <2>4. ASSUME NextBlock
        PROVE  blockNumber' = blockNumber + 1 /\ UNCHANGED <<nonce, quantity, status>>
    BY <2>4 DEF NextBlock
  <2> QED
    BY <2>1, <2>2, <2>3, <2>4
<1> QED
  BY <1>1, <1>2, <1>3 DEF Tickets!EnvironmentStep

\* All other steps leave what the tickets are about unchanged.
LEMMA OthersStutter ==
  ASSUME \/ SweepRewards
         \/ \E val \in IssuanceRates : SetIssuanceRate(val)
         \/ \E val \in ScalingRates : SetScalingRedemptionRate(val)
         \/ \E val \in RateFloors : SetRedemptionRateFloor(val)
         \/ \E m \in Modes : SetMode(m)
         \/ \E t \in Tokens : ReceiveTokens(t) \/ Trade(t)
         \/ UNCHANGED vars
  PROVE  UNCHANGED Tickets!ticketVars
<1>1. UNCHANGED <<issueQueues, totalSupply, basketsNeeded,
                  nonce, quantity, status, blockNumber>>
  BY DEF SweepRewards, SetIssuanceRate, SetScalingRedemptionRate,
         SetRedemptionRateFloor, SetMode, ReceiveTokens, Trade,
         UnchangedByGovernance, UnchangedByEnvironment, vars, supplyVars,
         queueVars, environment
<1>2. UNCHANGED PendingTickets
  BY <1>1 DEF PendingTickets
<1> QED
  BY <1>1, <1>2 DEF Tickets!ticketVars

\* Every step is one of the tickets' or leaves them alone.
LEMMA NextRefines ==
  ASSUME IInv, [Next]_vars
  PROVE  [Tickets!Next]_(Tickets!ticketVars)
<1>0. FieldsInv /\ IInv'
  BY NextInv DEF IInv
<1>1. ASSUME NEW a \in Accounts, NEW amount \in IssueAmounts, NEW melted \in Melts,
             Issue(a, amount, melted)
      PROVE  Tickets!Next
  <2>1. PICK when \in 1..MaxWhen : Tickets!Issue(a, amount, melted, when)
    BY <1>0, <1>1, IssueRefines
  <2> QED
    BY <2>1 DEF Tickets!Next
<1>2. ASSUME NEW a \in Accounts, NEW endId \in 0..MaxQueue, Vest(a, endId)
      PROVE  Tickets!Next \/ UNCHANGED Tickets!ticketVars
  BY <1>2, VestRefines DEF Tickets!Next
<1>3. ASSUME NEW a \in Accounts, NEW endId \in 0..MaxQueue,
             Cancel(a, endId, TRUE) \/ Cancel(a, endId, FALSE)
      PROVE  Tickets!Next
  <2>1. \E k \in 0..Len(PendingTickets[a]) : Tickets!Cancel(a, k)
    BY <1>3, CancelRefines
  <2> QED
    BY <2>1 DEF Tickets!Next
<1>4. ASSUME NEW amount \in RedeemAmounts, NEW melted \in Melts, Redeem(amount, melted)
      PROVE  Tickets!Next
  <2>1. Tickets!Redeem(amount, melted)
    BY <1>4, RedeemRefines
  <2> QED
    BY <2>1 DEF Tickets!Next
<1>5. ASSUME \/ \E amount \in MintAmounts : Mint(amount)
             \/ \E amount \in Melts : Melt(amount)
             \/ SetBasketsNeeded
      PROVE  Tickets!Next
  BY <1>0, <1>5, SupplyRefines DEF Tickets!Next
<1>6. ASSUME \/ SwitchBasket
             \/ \E s \in BasketStatuses : SetStatus(s)
             \/ \E t \in Tokens : Appreciate(t)
             \/ NextBlock
      PROVE  Tickets!Next
  BY <1>0, <1>6, EnvironmentRefines DEF Tickets!Next
<1>7. ASSUME \/ SweepRewards
             \/ \E val \in IssuanceRates : SetIssuanceRate(val)
             \/ \E val \in ScalingRates : SetScalingRedemptionRate(val)
             \/ \E val \in RateFloors : SetRedemptionRateFloor(val)
             \/ \E m \in Modes : SetMode(m)
             \/ \E t \in Tokens : ReceiveTokens(t) \/ Trade(t)
             \/ UNCHANGED vars
      PROVE  UNCHANGED Tickets!ticketVars
  BY <1>7, OthersStutter
<1> QED
  BY <1>1, <1>2, <1>3, <1>4, <1>5, <1>6, <1>7 DEF Next

\* The queues are empty at first.
LEMMA InitRefines ==
  ASSUME Init PROVE Tickets!Init
<1>1. \A a \in Accounts : TicketsOf(issueQueues[a]) = <<>>
  <2> TAKE a \in Accounts
  <2>1. issueQueues[a].left = 0 /\ Right(issueQueues[a]) = 0
    BY DEF Init, EmptyQueue, Right
  <2> DEFINE queue == issueQueues[a]
  <2>2. queue.left = Right(queue) /\ Right(queue) \in Nat
    BY <2>1
  <2> QED
    BY <2>2, NoTickets
<1>2. PendingTickets = [a \in Accounts |-> <<>>]
  BY <1>1 DEF PendingTickets
<1> QED
  BY <1>2 DEF Init, Tickets!Init

\* contracts/p1/RToken.sol keeps an account's issuances as one list of running
\* totals, of which it spends the front, cuts off the back and reuses the slots.
\* In every behaviour an account is paid, vested and refunded as if it held the
\* single issuances that contracts/p0/RToken.sol keeps.
THEOREM QueuesAreTickets == Spec => ImplementsTickets
<1>1. Init => Tickets!Init
  BY InitRefines
<1>2. IInv /\ [Next]_vars => [Tickets!Next]_(Tickets!ticketVars)
  BY NextRefines
<1> QED
  BY <1>1, <1>2, RTokenInvariance, PTL DEF Spec, ImplementsTickets, Tickets!Spec
=============================================================================
