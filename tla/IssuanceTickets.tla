--------------------------- MODULE IssuanceTickets ---------------------------
(***************************************************************************)
(* What slow issuance promises, as the reference implementation            *)
(* contracts/p0/RToken.sol states it: an account that pays for RToken in   *)
(* advance holds a ticket for each issuance, with the RToken it will get,  *)
(* the basket units these add and the collateral it paid.  Tickets vest    *)
(* from the front of the account's list, each at its time and only while   *)
(* the basket they were bought for is the current one; they can be         *)
(* cancelled from either end; and the tickets for an older basket are      *)
(* refunded, never vested.                                                 *)
(*                                                                         *)
(* Processed tickets, which p0 keeps in its list until the whole list is   *)
(* done, are left out: only pending ones are in tickets.                   *)
(***************************************************************************)
EXTENDS FixedPoint, SequencesExt

CONSTANTS
  Accounts,      \* issuers
  Tokens,        \* collateral tokens
  FIX_ONE,       \* the D18 number 1
  BasketTokens,  \* BasketTokens[n]: the tokens of the basket with nonce n
  Quantities,    \* D18 units of a token that a basket unit may hold
  Amounts,       \* amounts of RToken that are issued, redeemed or minted
  Melts,         \* amounts of RToken that furnace.melt() may melt
  MaxSupply,     \* bound: RToken supply, and basket units
  MaxWhen        \* bound: D18 block number at which the last ticket vests

VARIABLES
  tickets,       \* issuances[account], pending only
  totalSupply,   \* of RToken
  basketsNeeded, \* basket units that should back the supply
  nonce,         \* basketHandler.nonce()
  quantity,      \* quantity[t]: D18 units of token t in a basket unit
  status,        \* basketHandler.status()
  blockNumber    \* block.number

ticketVars == <<tickets, totalSupply, basketsNeeded, nonce, quantity,
                status, blockNumber>>

Statuses == {"SOUND", "IFFY", "DISABLED"}

\* basketHandler.quote(): collateral for so many basket units.
Quote(baskets, n) ==
  [t \in Tokens |-> IF t \in BasketTokens[n]
                    THEN CeilDiv(baskets * quantity[t], FIX_ONE) ELSE 0]

\* Basket units that amount of RToken stand for.
BasketsFor(amount, supply) ==
  IF supply > 0 THEN (basketsNeeded * amount) \div supply ELSE amount

Stale(account) ==
  tickets[account] # <<>> /\ tickets[account][1].basketNonce # nonce

-----------------------------------------------------------------------------

Init ==
  /\ tickets = [a \in Accounts |-> <<>>]
  /\ totalSupply = 0 /\ basketsNeeded = 0
  /\ nonce = 1 /\ quantity \in [Tokens -> Quantities]
  /\ status = "SOUND" /\ blockNumber = 1

Environment == <<nonce, quantity, status, blockNumber>>

\* issue(): stale tickets are refunded first; then the issuance vests at once,
\* if its time is not after this block, or becomes a ticket.
Issue(account, amount, melted, when) ==
  LET pending == IF Stale(account) THEN <<>> ELSE tickets[account]
      supply == totalSupply - melted
      baskets == BasketsFor(amount, supply)
      ticket == [amount |-> amount, baskets |-> baskets,
                 deposits |-> Quote(baskets, nonce),
                 basketNonce |-> nonce, blockAvailableAt |-> when]
  IN  /\ status = "SOUND" /\ supply >= 0
      /\ pending # <<>> => Last(pending).blockAvailableAt < when
      /\ \/ /\ when <= FIX_ONE * blockNumber
            /\ totalSupply' = supply + amount
            /\ basketsNeeded' = basketsNeeded + baskets
            /\ tickets' = [tickets EXCEPT ![account] = pending]
         \/ /\ totalSupply' = supply
            /\ tickets' = [tickets EXCEPT ![account] = Append(pending, ticket)]
            /\ UNCHANGED basketsNeeded
  /\ UNCHANGED Environment

\* vest() of the first k tickets, all of the current basket and all due.
Vest(account, k) ==
  LET own == tickets[account]
  IN  /\ status = "SOUND" /\ ~Stale(account)
      /\ \A i \in 1..k : own[i].blockAvailableAt <= FIX_ONE * blockNumber
      /\ tickets' = [tickets EXCEPT ![account] = SubSeq(own, k + 1, Len(own))]
      /\ totalSupply' = totalSupply + SumFunction([i \in 1..k |-> own[i].amount])
      /\ basketsNeeded' = basketsNeeded + SumFunction([i \in 1..k |-> own[i].baskets])
  /\ UNCHANGED Environment

\* refundAndClearStaleIssuances(), called by vest().
RefundStale(account) ==
  /\ Stale(account)
  /\ tickets' = [tickets EXCEPT ![account] = <<>>]
  /\ UNCHANGED <<totalSupply, basketsNeeded, Environment>>

\* cancel() of the first k tickets, or of all but the first k.
Cancel(account, k) ==
  /\ LET own == tickets[account]
     IN  \/ tickets' = [tickets EXCEPT ![account] = SubSeq(own, k + 1, Len(own))]
         \/ tickets' = [tickets EXCEPT ![account] = SubSeq(own, 1, k)]
  /\ UNCHANGED <<totalSupply, basketsNeeded, Environment>>

\* redeem()
Redeem(amount, melted) ==
  LET supply == totalSupply - melted
  IN  /\ status # "DISABLED" /\ amount <= supply
      /\ basketsNeeded' = basketsNeeded - (basketsNeeded * amount) \div supply
      /\ totalSupply' = supply - amount
  /\ UNCHANGED <<tickets, Environment>>

\* mint() and melt(), and setBasketsNeeded(), for the backing manager and the
\* furnace.
Adjust ==
  /\ \/ totalSupply' \in 0..MaxSupply /\ UNCHANGED basketsNeeded
     \/ basketsNeeded' \in 0..MaxSupply /\ UNCHANGED totalSupply
  /\ UNCHANGED <<tickets, Environment>>

\* The basket is switched or changes status, collateral appreciates, or a block
\* is mined.
EnvironmentStep ==
  /\ \/ nonce' = nonce + 1 /\ UNCHANGED <<quantity, status, blockNumber>>
     \/ status' \in Statuses /\ UNCHANGED <<nonce, quantity, blockNumber>>
     \/ blockNumber' = blockNumber + 1 /\ UNCHANGED <<nonce, quantity, status>>
     \/ /\ quantity' \in [Tokens -> Quantities]
        /\ UNCHANGED <<nonce, status, blockNumber>>
  /\ UNCHANGED <<tickets, totalSupply, basketsNeeded>>

Next ==
  \/ \E a \in Accounts, amount \in Amounts, melted \in Melts, when \in 1..MaxWhen :
       Issue(a, amount, melted, when)
  \/ \E a \in Accounts : \E k \in 1..Len(tickets[a]) : Vest(a, k)
  \/ \E a \in Accounts : \E k \in 0..Len(tickets[a]) : Cancel(a, k)
  \/ \E a \in Accounts : RefundStale(a)
  \/ \E amount \in Amounts, melted \in Melts : Redeem(amount, melted)
  \/ Adjust
  \/ EnvironmentStep

Spec == Init /\ [][Next]_ticketVars
=============================================================================
