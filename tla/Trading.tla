------------------------------- MODULE Trading -------------------------------
(***************************************************************************)
(* Trading: p1/BackingManager.sol, p1/RevenueTrader.sol, p1/Broker.sol,    *)
(* plugins/trading/GnosisTrade.sol, p1/Distributor.sol, p1/Furnace.sol.    *)
(*                                                                         *)
(* Anyone may ask the backing manager and the two revenue traders to       *)
(* manage their tokens.  The backing manager hands out what the basket     *)
(* does not need, or else sells surplus for what is missing, and RSR when  *)
(* there is no surplus; the revenue traders sell what they get for RSR and *)
(* RToken, and distribute it.  Each sale is an auction of a contract of    *)
(* its own, which the broker clones and whose proceeds the trader fetches  *)
(* once it is over.                                                        *)
(*                                                                         *)
(* Prices decide what is sold, and how much of it: any choice that the     *)
(* conditions on balances leave.  Tokens are worth the same, a basket has  *)
(* one of each of its tokens, and all accounts outside the protocol are    *)
(* one, "public".  The statuses of collateral are an input of every call.  *)
(***************************************************************************)
EXTENDS FixedPoint, Distributor, Sequences, FiniteSetsExt, FiniteSets

CONSTANTS
  Collaterals,      \* the tokens that baskets are made of
  InitBasket,       \* the basket at first
  InitBalances,     \* the balances at first
  InitDistribution, \* the distribution that init() sets
  Baskets,          \* baskets that may be switched to
  TokenLists,       \* lists of tokens to manage that callers pass
  Distributions,    \* distributions governance may set
  TradingDelays,    \* delays, auction lengths and buffers it may set; a buffer
  AuctionLengths,   \* is D18
  BackingBuffers,
  FIX_ONE,          \* the D18 number 1
  period, ratio,    \* of the furnace
  PauseStates,      \* values of main.pausedOrFrozen()
  MaxReceipts,      \* bound: transfers from outside
  MaxSwitches,      \* bound: basket switches
  MaxTime           \* bound: block.timestamp

NoTrade == [status |-> "none"]

Tokens == Collaterals \cup {"rsr", "rToken"}
Traders == {"backingManager", "rsrTrader", "rTokenTrader"}
Accounts == Traders \cup Destinations \cup {"public"}

ASSUME TokenAssumption ==
  /\ IsFiniteSet(Collaterals) /\ {"rsr", "rToken"} \cap Collaterals = {}
  /\ InitBasket \in Baskets
  /\ \A b \in Baskets : b /= {} /\ b \subseteq Collaterals
  /\ InitBalances \in [Accounts -> [Tokens -> Nat]]
  /\ InitBalances["rTokenTrader"]["rsr"] = 0
ASSUME ParameterAssumption ==
  /\ FIX_ONE \in Nat \ {0} /\ period \in Nat \ {0} /\ ratio \in 0..FIX_ONE
  /\ TradingDelays \subseteq Nat /\ AuctionLengths \subseteq Nat \ {0}
  /\ BackingBuffers \subseteq Nat /\ PauseStates \subseteq BOOLEAN
  /\ MaxReceipts \in Nat /\ MaxSwitches \in Nat /\ MaxTime \in Nat
ASSUME DistributionAssumption ==
  /\ MaxShare \in Nat \ {0}
  /\ \A d \in Distributions \cup {InitDistribution} :
       d \in [Destinations -> Share] /\ CanSetDistribution(d)

VARIABLES
  bal,           \* bal[account][token]
  trades,        \* trades[trader][token]
  tradesOpen,    \* tradesOpen[trader]
  disabled,      \* Broker
  distribution,  \* Distributor
  lastPayout, lastPayoutBal,              \* Furnace
  totalSupply, basketsNeeded,             \* RToken
  basket, basketTimestamp,                \* BasketHandler
  tradingDelay, backingBuffer, auctionLength,
  pausedOrFrozen, now,                    \* main.pausedOrFrozen(), block.timestamp
  receipts, switches,                     \* bounded
  violated       \* history: a sale fell short since governance last enabled the broker

rTokenVars == <<totalSupply, basketsNeeded>>
furnaceVars == <<lastPayout, lastPayoutBal>>
basketVars == <<basket, basketTimestamp, switches>>
params == <<distribution, tradingDelay, backingBuffer, auctionLength>>
environment == <<basketVars, pausedOrFrozen, now, receipts>>
vars == <<bal, trades, tradesOpen, disabled, violated, rTokenVars, furnaceVars, params,
          environment>>

-----------------------------------------------------------------------------
(* Views *)

\* balances b after n of t have gone from one account to another.
Moved(b, from, to, t, n) == [b EXCEPT ![from][t] = @ - n, ![to][t] = @ + n]

\* basketsHeldBy(backingManager) with the balances b; fullyCollateralized().
BasketsHeldIn(b) == Min({b["backingManager"][t] : t \in basket})
BasketsHeld == BasketsHeldIn(bal)
FullyCollateralized == BasketsHeld >= basketsNeeded
Quantity(t) == IF t \in basket THEN 1 ELSE 0

\* requireValidBUExchangeRate(), the rate being in bounds unless it is zero.
ValidRate(supply, baskets) == supply > 0 => baskets > 0

\* What the plugins may say: their statuses as of this block.
CollateralStatus == [Collaterals -> {"SOUND", "IFFY", "DISABLED"}]

Open(trader, t) == trades[trader][t] /= NoTrade
OpenTrades(trader) == {t \in Tokens : Open(trader, t)}

-----------------------------------------------------------------------------

Init ==
  /\ bal = InitBalances
  /\ trades = [trader \in Traders |-> [t \in Tokens |-> NoTrade]]
  /\ tradesOpen = [trader \in Traders |-> 0]
  /\ disabled = FALSE /\ violated = FALSE
  /\ distribution = InitDistribution
  /\ lastPayout = 0 /\ lastPayoutBal = bal["furnace"]["rToken"]
  /\ totalSupply = SumFunction([a \in Accounts |-> bal[a]["rToken"]])
  /\ basket = InitBasket /\ basketTimestamp = 0
  /\ basketsNeeded = BasketsHeld
  /\ tradingDelay \in TradingDelays /\ backingBuffer \in BackingBuffers
  /\ auctionLength \in AuctionLengths
  /\ pausedOrFrozen = FALSE /\ now = 0 /\ receipts = 0 /\ switches = 0

-----------------------------------------------------------------------------
(* Opening trades *)

\* tryTrade(), openTrade() and init() of the trade, with the balances b of the moment.
TryTrade(trader, sell, buy, amount, minBuy, b) ==
  /\ ~Open(trader, sell) /\ ~disabled
  /\ now + auctionLength <= MaxTime
  /\ bal' = [b EXCEPT ![trader][sell] = @ - amount]
  /\ trades' = [trades EXCEPT ![trader][sell] =
       [status |-> "open", buy |-> buy, initBal |-> amount, minBuy |-> minBuy,
        endTime |-> now + auctionLength, sellBal |-> 0, buyBal |-> 0]]
  /\ tradesOpen' = [tradesOpen EXCEPT ![trader] = @ + 1]
  /\ UNCHANGED <<disabled, violated, rTokenVars, furnaceVars, params, environment>>

-----------------------------------------------------------------------------
(* The backing manager *)

\* Mutation: any list is taken.
AnyList(erc20s) == TRUE

AllUnique(erc20s) == \A i, j \in DOMAIN erc20s : erc20s[i] = erc20s[j] => i = j

\* _manageTokens() returns or reverts otherwise.
MayTrade(status) ==
  /\ tradesOpen["backingManager"] = 0
  /\ now >= basketTimestamp + tradingDelay
  /\ \A t \in basket : status[t] = "SOUND"

\* Balances after all RSR has gone to the RSR trader.
RSRForwarded == Moved(bal, "backingManager", "rsrTrader", "rsr", bal["backingManager"]["rsr"])

\* RToken to mint for the baskets that are held beyond those needed, at the old rate.
RTokenToMint ==
  LET extra == BasketsHeld - basketsNeeded
  IN IF basketsNeeded > 0 THEN (extra * totalSupply) \div basketsNeeded ELSE extra

Times(erc20s, t) == Cardinality({i \in DOMAIN erc20s : erc20s[i] = t})

HandoutExcessAssets(erc20s) ==
  LET mints == BasketsHeld > basketsNeeded
      minted == IF mints THEN RTokenToMint ELSE 0
      needed == IF mints THEN BasketsHeld ELSE basketsNeeded
      buffered == RoundDiv(needed * (FIX_ONE + backingBuffer), FIX_ONE)
      held == [RSRForwarded EXCEPT !["backingManager"]["rToken"] = @ + minted]
      perShare(t) == Max({held["backingManager"][t] - buffered * Quantity(t), 0})
                       \div (TotalShares(distribution, "rToken") + TotalShares(distribution, "rsr"))
      toTrader(t, kind) == Times(erc20s, t) * perShare(t) * TotalShares(distribution, kind)
  IN /\ mints => /\ ValidRate(totalSupply + minted, basketsNeeded)
                 /\ ValidRate(totalSupply + minted, needed)
     /\ totalSupply' = totalSupply + minted /\ basketsNeeded' = needed
     /\ bal' = [held EXCEPT
          !["rsrTrader"] = [t \in Tokens |-> @[t] + toTrader(t, "rsr")],
          !["rTokenTrader"] = [t \in Tokens |-> @[t] + toTrader(t, "rToken")],
          !["backingManager"] = [t \in Tokens |-> @[t] - toTrader(t, "rsr") - toTrader(t, "rToken")]]
     /\ \A t \in Tokens : bal'["backingManager"][t] >= 0
     /\ UNCHANGED <<trades, tradesOpen, disabled, violated, furnaceVars, params, environment>>

\* nextTradePair(), for a range of baskets from bottom to top.  What is enough to sell
\* depends on prices; of that, DISABLED collateral goes first and IFFY last.
Surplus(t, top) == bal["backingManager"][t] - top * Quantity(t)
Sellable(top) == {t \in Tokens \ {"rsr"} : Surplus(t, top) > 0}
Buyable(bottom, top) ==
  {t \in basket : Surplus(t, top) <= 0 /\ bal["backingManager"][t] < bottom}
Preference(t, status) ==
  IF t \notin Collaterals THEN 2
  ELSE CASE status[t] = "DISABLED" -> 1 [] status[t] = "SOUND" -> 2 [] status[t] = "IFFY" -> 3
Preferred(enough, status) ==
  {t \in enough : \A u \in enough : Preference(t, status) <= Preference(u, status)}
RSRAvailable == bal["backingManager"]["rsr"] + bal["stRSR"]["rsr"]

\* The least to buy: nothing for collateral that is not sound.
MinBuy(t, amount, status) ==
  IF t \in Collaterals /\ status[t] /= "SOUND" THEN 0 ELSE amount

\* seizeRSR() for what the backing manager lacks.
Seized(amount) ==
  Moved(bal, "stRSR", "backingManager", "rsr", Max({amount - bal["backingManager"]["rsr"], 0}))

TradeSurplus(enough, buy, top, status) ==
  \E t \in Preferred(enough, status) : \E amount \in 1..Surplus(t, top) :
    TryTrade("backingManager", t, buy, amount, MinBuy(t, amount, status), bal)

TradeRSR(buy) ==
  \E amount \in 1..RSRAvailable :
    TryTrade("backingManager", "rsr", buy, amount, amount, Seized(amount))

CompromiseBasketsNeeded ==
  /\ ValidRate(totalSupply, BasketsHeld) /\ basketsNeeded' = BasketsHeld
  /\ UNCHANGED <<bal, trades, tradesOpen, disabled, violated, totalSupply, furnaceVars,
                 params, environment>>

\* The range of baskets is what prices make it, the top no less than what is held.
Recollateralize(status) ==
  \E top \in BasketsHeld..basketsNeeded : \E bottom \in 0..top :
  \E enough \in SUBSET Sellable(top) :
    LET buyable == Buyable(bottom, top) IN
    \/ \E buy \in buyable : enough /= {} /\ TradeSurplus(enough, buy, top, status)
    \/ \E buy \in buyable : enough = {} /\ TradeRSR(buy)
    \/ (buyable = {} \/ enough = {}) /\ CompromiseBasketsNeeded

ManageTokens(erc20s) ==
  /\ ~pausedOrFrozen /\ AllUnique(erc20s)
  /\ \E status \in CollateralStatus :
       /\ MayTrade(status)
       /\ \/ FullyCollateralized /\ HandoutExcessAssets(erc20s)
          \/ ~FullyCollateralized /\ Recollateralize(status)

-----------------------------------------------------------------------------
(* The revenue traders, and where revenue goes *)

TokenToBuy(trader) == IF trader = "rsrTrader" THEN "rsr" ELSE "rToken"

Distribute(trader, t, amount) ==
  /\ TotalShares(distribution, t) > 0
  /\ LET sent == [dest \in Destinations |-> RevenueOf(distribution, dest, t, amount)]
         left == bal[trader][t] - SumFunction(sent)
     IN /\ left >= 0
        /\ bal' = [a \in Accounts |->
             CASE a = trader -> [bal[a] EXCEPT ![t] = left]
               [] a \in Destinations -> [bal[a] EXCEPT ![t] = @ + sent[a]]
               [] OTHER -> bal[a]]
  /\ UNCHANGED <<trades, tradesOpen, disabled, violated, rTokenVars, furnaceVars, params,
                 environment>>

SellRevenue(trader, t) ==
  \E amount \in 1..bal[trader][t] : \E status \in CollateralStatus :
    LET disabledColl == t \in Collaterals /\ status[t] = "DISABLED" IN
    /\ t \in Collaterals => status[t] /= "IFFY"
    /\ TryTrade(trader, t, TokenToBuy(trader), amount, IF disabledColl THEN 0 ELSE amount, bal)

ManageToken(trader, t) ==
  /\ ~pausedOrFrozen /\ ~Open(trader, t) /\ bal[trader][t] > 0
  /\ \/ t = TokenToBuy(trader) /\ Distribute(trader, t, bal[trader][t])
     \/ t /= TokenToBuy(trader) /\ SellRevenue(trader, t)

\* Mutation: the balance is taken before the burning.
LastPayoutBalUnmelted(before, amount) == before

\* What the next payout is a share of: what arrives until then waits for the one after.
LastPayoutBal(before, amount) == before - amount

Melt ==
  LET periods == (now - lastPayout) \div period
      amount == ((FIX_ONE - FixPowU(FIX_ONE, FIX_ONE - ratio, periods)) * lastPayoutBal)
                  \div FIX_ONE
      left == bal["furnace"]["rToken"] - amount
  IN /\ ~pausedOrFrozen /\ now >= lastPayout + period
     /\ left >= 0 /\ (amount > 0 => ValidRate(totalSupply - amount, basketsNeeded))
     /\ lastPayout' = lastPayout + periods * period
     /\ lastPayoutBal' = LastPayoutBal(bal["furnace"]["rToken"], amount)
     /\ bal' = [bal EXCEPT !["furnace"]["rToken"] = left]
     /\ totalSupply' = totalSupply - amount
     /\ UNCHANGED <<trades, tradesOpen, disabled, violated, basketsNeeded, params, environment>>

-----------------------------------------------------------------------------
(* Auctions and settlement *)

\* How much the bidders take of what is sold, and pay for it: they should pay the least
\* to buy, in proportion, but may not.
Outcomes(trade) ==
  {x \in (0..trade.initBal) \X (0..Min({trade.initBal, bal["public"][trade.buy]})) :
     x[1] = 0 => x[2] = 0}
Cleared(trade) ==
  {[trade EXCEPT !.status = "cleared", !.sellBal = trade.initBal - x[1], !.buyBal = x[2]] :
     x \in Outcomes(trade)}

\* Balances after the bidders have paid and got their tokens.
Paid(sell, r) ==
  [bal EXCEPT !["public"] =
     [u \in Tokens |-> @[u] + (IF u = sell THEN r.initBal - r.sellBal ELSE 0)
                           - (IF u = r.buy THEN r.buyBal ELSE 0)]]

\* Anyone may have the auction settled once it has ended.
SettleAuction(trader, t) ==
  /\ trades[trader][t].status = "open" /\ now >= trades[trader][t].endTime
  /\ \E r \in Cleared(trades[trader][t]) :
       trades' = [trades EXCEPT ![trader][t] = r] /\ bal' = Paid(t, r)
  /\ UNCHANGED <<tradesOpen, disabled, violated, rTokenVars, furnaceVars, params, environment>>

\* Mutation: the auction is settled again.
ProceedsAgain(trader, t) == {[on |-> r, b |-> Paid(t, r)] : r \in Cleared(trades[trader][t])}

\* The trade as settle() finds it after the auction, and the balances.
Proceeds(trader, t) ==
  LET trade == trades[trader][t] IN
  IF trade.status = "cleared" THEN {[on |-> trade, b |-> bal]}
  ELSE {[on |-> r, b |-> Paid(t, r)] : r \in Cleared(trade)}

\* Mutation: a violation is reported once.
CanReportOnce == ~disabled /\ ~pausedOrFrozen

\* reportViolation() does not revert.
CanReport == ~pausedOrFrozen

\* Mutation: a sale that brought nothing is taken for no sale.
ViolatesIfPaid(r) ==
  r.buyBal > 0 /\ r.buyBal * r.initBal < r.minBuy * Max({r.initBal - r.sellBal - 1, 1})

\* The clearing price is below the worst one; Gnosis may keep one token when it rounds.
Violates(r) ==
  LET sold == r.initBal - r.sellBal
  IN sold > 0 /\ r.buyBal * r.initBal < r.minBuy * Max({sold - 1, 1})

\* By any reading of the prices the sale brought too little.
FallsShort(r) == r.buyBal * r.initBal < r.minBuy * (r.initBal - r.sellBal - 1)

SettleTrade(trader, t) ==
  /\ ~pausedOrFrozen /\ Open(trader, t) /\ now >= trades[trader][t].endTime
  /\ \E p \in Proceeds(trader, t) :
       /\ bal' = [p.b EXCEPT ![trader] =
            [u \in Tokens |-> @[u] + (IF u = t THEN p.on.sellBal ELSE 0)
                                   + (IF u = p.on.buy THEN p.on.buyBal ELSE 0)]]
       /\ Violates(p.on) => CanReport
       /\ disabled' = (disabled \/ Violates(p.on))
       /\ violated' = (violated \/ FallsShort(p.on))
  /\ trades' = [trades EXCEPT ![trader][t] = NoTrade]
  /\ tradesOpen' = [tradesOpen EXCEPT ![trader] = @ - 1]
  /\ UNCHANGED <<rTokenVars, furnaceVars, params, environment>>

-----------------------------------------------------------------------------
(* Governance and environment *)

SetDisabled(d) ==
  /\ disabled' = d /\ violated' = (violated /\ d)
  /\ UNCHANGED <<bal, trades, tradesOpen, rTokenVars, furnaceVars, params, environment>>

\* setDistribution() once or several times.
SetDistribution(dist) ==
  /\ CanSetDistribution(dist) /\ distribution' = dist
  /\ UNCHANGED <<bal, trades, tradesOpen, disabled, violated, rTokenVars, furnaceVars,
                 tradingDelay, backingBuffer, auctionLength, environment>>

SetTradingDelay(val) ==
  /\ tradingDelay' = val
  /\ UNCHANGED <<bal, trades, tradesOpen, disabled, violated, rTokenVars, furnaceVars,
                 distribution, backingBuffer, auctionLength, environment>>

SetBackingBuffer(val) ==
  /\ backingBuffer' = val
  /\ UNCHANGED <<bal, trades, tradesOpen, disabled, violated, rTokenVars, furnaceVars,
                 distribution, tradingDelay, auctionLength, environment>>

SetAuctionLength(val) ==
  /\ auctionLength' = val
  /\ UNCHANGED <<bal, trades, tradesOpen, disabled, violated, rTokenVars, furnaceVars,
                 distribution, tradingDelay, backingBuffer, environment>>

\* Rewards, and whatever else somebody sends; not RSR to the RToken trader, who would
\* sell it.
Receive(trader, t) ==
  /\ ~(trader = "rTokenTrader" /\ t = "rsr")
  /\ receipts < MaxReceipts /\ receipts' = receipts + 1
  /\ \E n \in 1..bal["public"][t] : bal' = Moved(bal, "public", trader, t, n)
  /\ UNCHANGED <<trades, tradesOpen, disabled, violated, rTokenVars, furnaceVars, params,
                 basketVars, pausedOrFrozen, now>>

SwitchBasket(b) ==
  /\ switches < MaxSwitches /\ switches' = switches + 1
  /\ basket' = b /\ basketTimestamp' = now
  /\ UNCHANGED <<bal, trades, tradesOpen, disabled, violated, rTokenVars, furnaceVars, params,
                 pausedOrFrozen, now, receipts>>

SetPausedOrFrozen(p) ==
  /\ pausedOrFrozen' = p
  /\ UNCHANGED <<bal, trades, tradesOpen, disabled, violated, rTokenVars, furnaceVars, params,
                 basketVars, now, receipts>>

Tick ==
  /\ now < MaxTime /\ now' = now + 1
  /\ UNCHANGED <<bal, trades, tradesOpen, disabled, violated, rTokenVars, furnaceVars, params,
                 basketVars, pausedOrFrozen, receipts>>

Next ==
  \/ \E erc20s \in TokenLists : ManageTokens(erc20s)
  \/ \E trader \in Traders \ {"backingManager"}, t \in Tokens : ManageToken(trader, t)
  \/ \E trader \in Traders, t \in Tokens :
       SettleTrade(trader, t) \/ SettleAuction(trader, t) \/ Receive(trader, t)
  \/ Melt
  \/ \E d \in BOOLEAN : SetDisabled(d)
  \/ \E dist \in Distributions : SetDistribution(dist)
  \/ \E val \in TradingDelays : SetTradingDelay(val)
  \/ \E val \in BackingBuffers : SetBackingBuffer(val)
  \/ \E val \in AuctionLengths : SetAuctionLength(val)
  \/ \E b \in Baskets \ {basket} : SwitchBasket(b)
  \/ \E p \in PauseStates : SetPausedOrFrozen(p)
  \/ Tick

Spec == Init /\ [][Next]_vars
\* Time goes on, and somebody settles trades that can be settled.
LiveSpec ==
  Spec /\ WF_vars(Tick) /\ \A trader \in Traders, t \in Tokens : WF_vars(SettleTrade(trader, t))

-----------------------------------------------------------------------------
(* Properties *)

Trade ==
  [status : {"open", "cleared"}, buy : Tokens, initBal : Nat \ {0}, minBuy : Nat,
   endTime : 0..MaxTime, sellBal : Nat, buyBal : Nat]

\* Trading.sol: "tradesOpen = len(values(trades))".
TradesCounted == tradesOpen = [trader \in Traders |-> Cardinality(OpenTrades(trader))]

\* Every field keeps its type, the counters count the trades, and the furnace has what
\* it last counted, which its next payout is a share of (Furnace.melt()).
TypeOK ==
  /\ bal \in [Accounts -> [Tokens -> Nat]]
  /\ trades \in [Traders -> [Tokens -> Trade \cup {NoTrade}]] /\ TradesCounted
  /\ distribution \in [Destinations -> Share]
  /\ lastPayout \in 0..now /\ lastPayoutBal \in 0..bal["furnace"]["rToken"]
  /\ totalSupply \in Nat /\ basketsNeeded \in Nat
  /\ basket \in Baskets /\ basketTimestamp \in 0..now

\* Tokens t that a trade holds: what it sells, or what is left of that, and what it got.
InTrade(trade, sell, t) ==
  IF trade = NoTrade THEN 0
  ELSE (IF sell = t THEN (IF trade.status = "cleared" THEN trade.sellBal ELSE trade.initBal)
        ELSE 0)
       + (IF trade.buy = t THEN trade.buyBal ELSE 0)

\* All tokens t there are, the ones that trades hold included.
Held(t) ==
  SumFunction([a \in Accounts |-> bal[a][t]])
    + SumFunction([x \in Traders \X Tokens |-> InTrade(trades[x[1]][x[2]], x[2], t)])

\* No token is lost or paid twice, whoever settles an auction first and however revenue
\* is divided (settle(), distribute(), handoutExcessAssets(), melt()); and no RSR gets to
\* the trader that would sell it for RToken ("RSR should never be sold for RToken
\* yield").
NothingStrays ==
  /\ \A t \in Tokens \ {"rToken"} :
       Held(t) = SumFunction([a \in Accounts |-> InitBalances[a][t]])
  /\ Held("rToken") = totalSupply
  /\ trades["rTokenTrader"]["rsr"] = NoTrade

\* The backing manager gives nothing away that the RToken needs: a fully backed RToken
\* stays so until the basket is switched, and the rate of baskets to RToken falls only
\* when there is not enough, down to what there is, with no capital out in a trade
\* (_manageTokens(), handoutExcessAssets(), compromiseBasketsNeeded()).
BackingKept ==
  [][/\ FullyCollateralized /\ basket' = basket => FullyCollateralized'
     /\ basketsNeeded' * totalSupply < basketsNeeded * totalSupply' =>
          /\ ~FullyCollateralized /\ OpenTrades("backingManager") = {}
          /\ basketsNeeded' = BasketsHeld]_vars

\* Once a sale has fallen short of its worst price no trader begins another until
\* governance enables the broker again, whoever settled it and in whatever order
\* (GnosisTrade.settle(), reportViolation(), openTrade()).
ViolationsStop ==
  [][violated => \A trader \in Traders, t \in Tokens :
                   ~Open(trader, t) => trades'[trader][t] = NoTrade]_vars

\* Unless the system is paused or frozen again and again, every trade ends: nothing a
\* bidder does, no other trade, and no violation keeps tokens in it (settleTrade()).
TradesEnd ==
  <>[](~pausedOrFrozen) =>
    \A trader \in Traders, t \in Tokens : []<>(trades[trader][t] = NoTrade)
=============================================================================
