---------------------------- MODULE TradingProofs ----------------------------
(***************************************************************************)
(* Proofs about Trading, for any tokens, balances, parameters and bounds.  *)
(* Two inductive invariants: IInv types the trades, counts them, and says  *)
(* that the broker is disabled from a sale that fell short on; Ledger,     *)
(* which needs it, types the balances and says that accounts and trades    *)
(* together hold what there is of each token.                              *)
(***************************************************************************)
EXTENDS Trading, ArithmeticProofs

TradesTyped ==
  /\ trades \in [Traders -> [Tokens -> Trade \cup {NoTrade}]]
  /\ now \in 0..MaxTime /\ auctionLength \in AuctionLengths /\ basket \in Baskets

\* The backing manager never has more than one trade open.
OneAtATime == tradesOpen["backingManager"] \in {0, 1}

ViolationsDisable == violated \in BOOLEAN /\ disabled \in BOOLEAN /\ (violated => disabled)

IInv == TradesTyped /\ TradesCounted /\ OneAtATime /\ ViolationsDisable

-----------------------------------------------------------------------------
(* Counting *)

LEMMA TokensFinite == IsFiniteSet(Tokens)
<1>1. Tokens = (Collaterals \cup {"rsr"}) \cup {"rToken"}
  BY DEF Tokens
<1> QED
  BY <1>1, TokenAssumption, FS_AddElement

LEMMA OpenTradesFinite ==
  ASSUME NEW trader PROVE IsFiniteSet(OpenTrades(trader)) /\ OpenTrades(trader) \subseteq Tokens
  BY TokensFinite, FS_Subset DEF OpenTrades

\* A trade has a status other than that of no trade.
LEMMA TradeIsNoNoTrade == NoTrade \notin Trade
  BY DEF NoTrade, Trade

\* The counters stay right when one more trade opens.
LEMMA CountedWhenOpened ==
  ASSUME TradesTyped, TradesCounted, NEW trader \in Traders, NEW t \in Tokens, NEW r \in Trade,
         ~Open(trader, t), trades' = [trades EXCEPT ![trader][t] = r],
         tradesOpen' = [tradesOpen EXCEPT ![trader] = @ + 1]
  PROVE  TradesCounted'
<1>1. OpenTrades(trader)' = OpenTrades(trader) \cup {t} /\ t \notin OpenTrades(trader)
  BY TradeIsNoNoTrade DEF OpenTrades, Open, TradesTyped
<1>2. Cardinality(OpenTrades(trader)') = Cardinality(OpenTrades(trader)) + 1
  BY <1>1, OpenTradesFinite, FS_AddElement
<1>3. ASSUME NEW other \in Traders, other /= trader PROVE OpenTrades(other)' = OpenTrades(other)
  BY <1>3 DEF OpenTrades, Open, TradesTyped
<1>4. tradesOpen' = [x \in Traders |->
                       IF x = trader THEN tradesOpen[trader] + 1 ELSE tradesOpen[x]]
  BY DEF TradesCounted
<1>5. tradesOpen[trader] = Cardinality(OpenTrades(trader))
      /\ \A x \in Traders : tradesOpen[x] = Cardinality(OpenTrades(x))
  BY DEF TradesCounted
<1> QED
  BY <1>2, <1>3, <1>4, <1>5 DEF TradesCounted

\* And when one is settled.
LEMMA CountedWhenSettled ==
  ASSUME TradesTyped, TradesCounted, NEW trader \in Traders, NEW t \in Tokens, Open(trader, t),
         trades' = [trades EXCEPT ![trader][t] = NoTrade],
         tradesOpen' = [tradesOpen EXCEPT ![trader] = @ - 1]
  PROVE  TradesCounted'
<1>1. OpenTrades(trader)' = OpenTrades(trader) \ {t} /\ t \in OpenTrades(trader)
  BY DEF OpenTrades, Open, TradesTyped
<1>2. Cardinality(OpenTrades(trader)') = Cardinality(OpenTrades(trader)) - 1
  BY <1>1, OpenTradesFinite, FS_RemoveElement
<1>3. ASSUME NEW other \in Traders, other /= trader PROVE OpenTrades(other)' = OpenTrades(other)
  BY <1>3 DEF OpenTrades, Open, TradesTyped
<1>4. tradesOpen' = [x \in Traders |->
                       IF x = trader THEN tradesOpen[trader] - 1 ELSE tradesOpen[x]]
  BY DEF TradesCounted
<1>5. tradesOpen[trader] = Cardinality(OpenTrades(trader))
      /\ \A x \in Traders : tradesOpen[x] = Cardinality(OpenTrades(x))
  BY DEF TradesCounted
<1> QED
  BY <1>2, <1>3, <1>4, <1>5 DEF TradesCounted

\* And when an auction is settled, which opens and closes nothing.
LEMMA CountedWhenCleared ==
  ASSUME TradesTyped, TradesCounted, NEW trader \in Traders, NEW t \in Tokens, NEW r \in Trade,
         Open(trader, t), trades' = [trades EXCEPT ![trader][t] = r],
         UNCHANGED tradesOpen
  PROVE  TradesCounted'
<1>1. ASSUME NEW x \in Traders PROVE OpenTrades(x)' = OpenTrades(x)
  BY TradeIsNoNoTrade DEF OpenTrades, Open, TradesTyped
<1> QED
  BY <1>1 DEF TradesCounted

-----------------------------------------------------------------------------
(* What a sale may bring *)

\* Auctions leave trades that are typed, with their prices as they were.
LEMMA ClearedTyped ==
  ASSUME NEW trade \in Trade, NEW r \in Cleared(trade)
  PROVE  r \in Trade /\ r.initBal = trade.initBal /\ r.minBuy = trade.minBuy /\ r.buy = trade.buy
<1>1. PICK x \in Outcomes(trade) :
        r = [trade EXCEPT !.status = "cleared", !.sellBal = trade.initBal - x[1], !.buyBal = x[2]]
  BY DEF Cleared
<1>2. x[1] \in 0..trade.initBal /\ x[2] \in 0..Min({trade.initBal, bal["public"][trade.buy]})
  BY DEF Outcomes
<1>3. trade.initBal - x[1] \in Nat /\ x[2] \in Nat
  BY <1>2 DEF Trade
<1> QED
  BY <1>1, <1>3 DEF Trade

LEMMA ProceedsTyped ==
  ASSUME NEW trader, NEW t, trades[trader][t] \in Trade, NEW p \in Proceeds(trader, t)
  PROVE  p.on \in Trade
  BY ClearedTyped DEF Proceeds

LEMMA MaxOfTwo ==
  ASSUME NEW m \in Int, NEW n \in Int
  PROVE  Max({m, n}) = IF m >= n THEN m ELSE n
  BY DEF Max

LEMMA MinOfTwo ==
  ASSUME NEW m \in Int, NEW n \in Int
  PROVE  Min({m, n}) = IF m <= n THEN m ELSE n
  BY DEF Min

\* The test of settle(), with its tolerance of one token, finds every sale that fell
\* short.
LEMMA ShortfallsAreViolations ==
  ASSUME NEW r \in Trade, FallsShort(r) PROVE Violates(r)
<1> DEFINE sold == r.initBal - r.sellBal
<1>1. r.buyBal \in Nat /\ r.initBal \in Nat /\ r.minBuy \in Nat /\ sold \in Int
  BY DEF Trade
<1>2. r.buyBal * r.initBal < r.minBuy * (sold - 1)
  BY DEF FallsShort
<1> HIDE DEF sold
<1>3. r.buyBal * r.initBal >= 0
  BY <1>1
<1>4. sold < 2 => r.minBuy * (sold - 1) <= 0
  BY <1>1
<1>5. sold >= 2
  BY <1>1, <1>2, <1>3, <1>4
<1>6. Max({sold - 1, 1}) = sold - 1
  BY <1>1, <1>5, MaxOfTwo
<1> QED
  BY <1>1, <1>2, <1>5, <1>6 DEF Violates, sold

-----------------------------------------------------------------------------
(* The inductive invariant *)

LEMMA InitIInv == Init => IInv
<1> SUFFICES ASSUME Init PROVE IInv
  OBVIOUS
<1>1. TradesTyped
  BY ParameterAssumption, TokenAssumption DEF Init, TradesTyped
<1>2. ASSUME NEW x \in Traders PROVE OpenTrades(x) = {}
  BY DEF Init, OpenTrades, Open
<1>3. TradesCounted
  BY <1>2, FS_EmptySet DEF Init, TradesCounted
<1>4. OneAtATime
  BY DEF Init, OneAtATime, Traders
<1> QED
  BY <1>1, <1>3, <1>4 DEF Init, IInv, ViolationsDisable

\* Steps that leave trades and broker alone.
LEMMA FrameIInv ==
  ASSUME IInv, UNCHANGED <<trades, tradesOpen, disabled, violated>>,
         now' \in 0..MaxTime, auctionLength' \in AuctionLengths, basket' \in Baskets
  PROVE  IInv'
<1>1. \A x : OpenTrades(x)' = OpenTrades(x)
  BY DEF OpenTrades, Open
<1> QED
  BY <1>1 DEF IInv, TradesTyped, TradesCounted, OneAtATime, ViolationsDisable

\* A trade that opens, for some amount; the backing manager's is its first.
LEMMA TryTradeIInv ==
  ASSUME IInv, NEW trader \in Traders, NEW sell \in Tokens, NEW buy \in Tokens,
         NEW amount \in Nat \ {0}, NEW minBuy \in Nat, NEW b,
         TryTrade(trader, sell, buy, amount, minBuy, b),
         trader = "backingManager" => tradesOpen["backingManager"] = 0
  PROVE  IInv'
<1> DEFINE r == [status |-> "open", buy |-> buy, initBal |-> amount, minBuy |-> minBuy,
                 endTime |-> now + auctionLength, sellBal |-> 0, buyBal |-> 0]
<1>1. trades' = [trades EXCEPT ![trader][sell] = r] /\ ~Open(trader, sell)
      /\ tradesOpen' = [tradesOpen EXCEPT ![trader] = @ + 1]
      /\ now + auctionLength <= MaxTime
      /\ UNCHANGED <<disabled, violated, now, auctionLength, basket>>
  BY DEF TryTrade, params, environment, basketVars
<1>2. now \in Nat /\ auctionLength \in Nat /\ MaxTime \in Nat
  BY ParameterAssumption DEF IInv, TradesTyped
<1>3. now + auctionLength \in 0..MaxTime
  BY <1>1, <1>2
<1>4. r \in Trade
  BY <1>3 DEF Trade
<1> HIDE DEF r
<1>5. TradesTyped'
  BY <1>1, <1>4 DEF IInv, TradesTyped
<1>6. TradesCounted'
  BY <1>1, <1>4, CountedWhenOpened DEF IInv
<1>7. OneAtATime'
  <2>1. CASE trader = "backingManager"
    BY <2>1, <1>1 DEF IInv, OneAtATime, TradesCounted
  <2>2. CASE trader /= "backingManager"
    BY <2>2, <1>1 DEF IInv, OneAtATime, TradesCounted
  <2> QED
    BY <2>1, <2>2
<1> QED
  BY <1>1, <1>5, <1>6, <1>7 DEF IInv, ViolationsDisable

LEMMA ManageTokensIInv ==
  ASSUME IInv, NEW erc20s, ManageTokens(erc20s) PROVE IInv'
<1>1. PICK status \in CollateralStatus :
        /\ MayTrade(status)
        /\ \/ HandoutExcessAssets(erc20s)
           \/ Recollateralize(status)
  BY DEF ManageTokens
<1>2. tradesOpen["backingManager"] = 0
  BY <1>1 DEF MayTrade
<1>3. now \in 0..MaxTime /\ auctionLength \in AuctionLengths /\ basket \in Baskets
      /\ basket \subseteq Tokens /\ "backingManager" \in Traders
  BY TokenAssumption DEF IInv, TradesTyped, Tokens, Traders
<1>4. CASE HandoutExcessAssets(erc20s)
  BY <1>3, <1>4, FrameIInv DEF HandoutExcessAssets, params, environment, basketVars
<1>5. CASE Recollateralize(status)
  <2>1. PICK top, bottom, enough :
          /\ enough \subseteq Sellable(top)
          /\ \/ \E buy \in Buyable(bottom, top) : TradeSurplus(enough, buy, top, status)
             \/ \E buy \in Buyable(bottom, top) : TradeRSR(buy)
             \/ CompromiseBasketsNeeded
    BY <1>5 DEF Recollateralize
  <2>2. ASSUME NEW buy \in Buyable(bottom, top), TradeSurplus(enough, buy, top, status)
        PROVE  IInv'
    <3>1. PICK t, amount :
            /\ t \in Preferred(enough, status) /\ amount \in 1..Surplus(t, top)
            /\ TryTrade("backingManager", t, buy, amount, MinBuy(t, amount, status), bal)
      BY <2>2 DEF TradeSurplus
    <3>2. t \in Tokens /\ buy \in Tokens
      BY <1>3, <2>1, <3>1 DEF Preferred, Sellable, Buyable
    <3>3. amount \in Nat \ {0} /\ MinBuy(t, amount, status) \in Nat
      BY <3>1 DEF MinBuy
    <3> QED
      BY <1>2, <1>3, <3>1, <3>2, <3>3, TryTradeIInv
  <2>3. ASSUME NEW buy \in Buyable(bottom, top), TradeRSR(buy) PROVE IInv'
    <3>1. PICK amount \in 1..RSRAvailable :
            TryTrade("backingManager", "rsr", buy, amount, amount, Seized(amount))
      BY <2>3 DEF TradeRSR
    <3>2. "rsr" \in Tokens /\ buy \in Tokens
      BY <1>3 DEF Buyable, Tokens
    <3>3. amount \in Nat \ {0}
      OBVIOUS
    <3> QED
      BY <1>2, <1>3, <3>1, <3>2, <3>3, TryTradeIInv
  <2>4. ASSUME CompromiseBasketsNeeded PROVE IInv'
    BY <1>3, <2>4, FrameIInv DEF CompromiseBasketsNeeded, params, environment, basketVars
  <2> QED
    BY <2>1, <2>2, <2>3, <2>4
<1> QED
  BY <1>1, <1>4, <1>5

LEMMA ManageTokenIInv ==
  ASSUME IInv, NEW trader \in Traders \ {"backingManager"}, NEW t \in Tokens,
         ManageToken(trader, t)
  PROVE  IInv'
<1>1. CASE Distribute(trader, t, bal[trader][t])
  BY <1>1, FrameIInv DEF Distribute, params, environment, basketVars, IInv, TradesTyped
<1>2. CASE SellRevenue(trader, t)
  <2>1. PICK amount, minBuy :
          /\ amount \in 1..bal[trader][t] /\ minBuy \in {0, amount}
          /\ TryTrade(trader, t, TokenToBuy(trader), amount, minBuy, bal)
    BY <1>2 DEF SellRevenue
  <2>2. amount \in Nat \ {0} /\ minBuy \in Nat
    BY <2>1
  <2>3. TokenToBuy(trader) \in Tokens
    BY DEF TokenToBuy, Tokens
  <2> QED
    BY <2>1, <2>2, <2>3, TryTradeIInv
<1> QED
  BY <1>1, <1>2 DEF ManageToken

LEMMA SettleAuctionIInv ==
  ASSUME IInv, NEW trader \in Traders, NEW t \in Tokens, SettleAuction(trader, t) PROVE IInv'
<1>1. PICK r \in Cleared(trades[trader][t]) : trades' = [trades EXCEPT ![trader][t] = r]
  BY DEF SettleAuction
<1>2. UNCHANGED <<tradesOpen, disabled, violated, now, auctionLength, basket>>
  BY DEF SettleAuction, params, environment, basketVars
<1>3. trades[trader][t] \in Trade /\ Open(trader, t)
  BY DEF SettleAuction, Open, NoTrade, IInv, TradesTyped
<1>4. r \in Trade
  BY <1>3, ClearedTyped
<1>5. TradesTyped'
  BY <1>1, <1>2, <1>4 DEF IInv, TradesTyped
<1>6. TradesCounted'
  BY <1>1, <1>2, <1>3, <1>4, CountedWhenCleared DEF IInv
<1> QED
  BY <1>2, <1>5, <1>6 DEF IInv, OneAtATime, ViolationsDisable

LEMMA SettleTradeIInv ==
  ASSUME IInv, NEW trader \in Traders, NEW t \in Tokens, SettleTrade(trader, t) PROVE IInv'
<1>1. trades' = [trades EXCEPT ![trader][t] = NoTrade] /\ Open(trader, t)
      /\ tradesOpen' = [tradesOpen EXCEPT ![trader] = @ - 1]
      /\ UNCHANGED <<now, auctionLength, basket>>
  BY DEF SettleTrade, params, environment, basketVars
<1>2. PICK p \in Proceeds(trader, t) :
        disabled' = (disabled \/ Violates(p.on)) /\ violated' = (violated \/ FallsShort(p.on))
  BY DEF SettleTrade
<1>3. p.on \in Trade
  BY <1>1, ProceedsTyped DEF Open, IInv, TradesTyped
<1>4. FallsShort(p.on) => Violates(p.on)
  BY <1>3, ShortfallsAreViolations
<1>5. ViolationsDisable'
  BY <1>2, <1>4 DEF IInv, ViolationsDisable
<1>6. TradesTyped'
  BY <1>1 DEF IInv, TradesTyped
<1>7. TradesCounted'
  BY <1>1, CountedWhenSettled DEF IInv
<1>8. OneAtATime'
  <2>1. t \in OpenTrades(trader)
    BY <1>1 DEF OpenTrades
  <2>2. Cardinality(OpenTrades(trader)) /= 0 /\ Cardinality(OpenTrades(trader)) \in Nat
    BY <2>1, OpenTradesFinite, FS_EmptySet, FS_CardinalityType
  <2>3. CASE trader = "backingManager"
    BY <1>1, <2>2, <2>3 DEF IInv, OneAtATime, TradesCounted
  <2>4. CASE trader /= "backingManager"
    BY <1>1, <2>4 DEF IInv, OneAtATime, TradesCounted
  <2> QED
    BY <2>3, <2>4
<1> QED
  BY <1>5, <1>6, <1>7, <1>8 DEF IInv

LEMMA SetDisabledIInv ==
  ASSUME IInv, NEW d \in BOOLEAN, SetDisabled(d) PROVE IInv'
<1>1. \A x : OpenTrades(x)' = OpenTrades(x)
  BY DEF SetDisabled, OpenTrades, Open
<1> QED
  BY <1>1 DEF SetDisabled, params, environment, basketVars, IInv, TradesTyped, TradesCounted,
              OneAtATime, ViolationsDisable

LEMMA NextIInv == IInv /\ [Next]_vars => IInv'
<1> SUFFICES ASSUME IInv, [Next]_vars PROVE IInv'
  OBVIOUS
<1>0. now \in 0..MaxTime /\ auctionLength \in AuctionLengths /\ basket \in Baskets
      /\ MaxTime \in Nat
  BY ParameterAssumption DEF IInv, TradesTyped
<1> USE DEF params, environment, basketVars
<1>1. ASSUME NEW erc20s \in TokenLists, ManageTokens(erc20s) PROVE IInv'
  BY <1>1, ManageTokensIInv
<1>2. ASSUME NEW trader \in Traders \ {"backingManager"}, NEW t \in Tokens, ManageToken(trader, t)
      PROVE  IInv'
  BY <1>2, ManageTokenIInv
<1>3. ASSUME NEW trader \in Traders, NEW t \in Tokens, SettleTrade(trader, t) PROVE IInv'
  BY <1>3, SettleTradeIInv
<1>4. ASSUME NEW trader \in Traders, NEW t \in Tokens, SettleAuction(trader, t) PROVE IInv'
  BY <1>4, SettleAuctionIInv
<1>5. ASSUME NEW trader \in Traders, NEW t \in Tokens, Receive(trader, t) PROVE IInv'
  BY <1>0, <1>5, FrameIInv DEF Receive
<1>6. CASE Melt
  BY <1>0, <1>6, FrameIInv DEF Melt
<1>7. ASSUME NEW d \in BOOLEAN, SetDisabled(d) PROVE IInv'
  BY <1>7, SetDisabledIInv
<1>8. ASSUME NEW dist \in Distributions, SetDistribution(dist) PROVE IInv'
  BY <1>0, <1>8, FrameIInv DEF SetDistribution
<1>9. ASSUME NEW val \in TradingDelays, SetTradingDelay(val) PROVE IInv'
  BY <1>0, <1>9, FrameIInv DEF SetTradingDelay
<1>10. ASSUME NEW val \in BackingBuffers, SetBackingBuffer(val) PROVE IInv'
  BY <1>0, <1>10, FrameIInv DEF SetBackingBuffer
<1>11. ASSUME NEW val \in AuctionLengths, SetAuctionLength(val) PROVE IInv'
  BY <1>0, <1>11, FrameIInv DEF SetAuctionLength
<1>12. ASSUME NEW b \in Baskets \ {basket}, SwitchBasket(b) PROVE IInv'
  BY <1>0, <1>12, FrameIInv DEF SwitchBasket
<1>13. ASSUME NEW p \in PauseStates, SetPausedOrFrozen(p) PROVE IInv'
  BY <1>0, <1>13, FrameIInv DEF SetPausedOrFrozen
<1>14. CASE Tick
  <2>1. now' \in 0..MaxTime
    BY <1>0, <1>14 DEF Tick
  <2> QED
    BY <1>0, <1>14, <2>1, FrameIInv DEF Tick
<1>15. CASE UNCHANGED vars
  BY <1>0, <1>15, FrameIInv DEF vars
<1> QED
  BY <1>1, <1>2, <1>3, <1>4, <1>5, <1>6, <1>7, <1>8, <1>9, <1>10, <1>11, <1>12, <1>13, <1>14,
     <1>15 DEF Next

\* The inductive invariant of trading holds of every behaviour (BackingManager.sol,
\* RevenueTrader.sol, Trading.sol, Broker.sol, GnosisTrade.sol).
THEOREM TradingInvariance == Spec => []IInv
  BY InitIInv, NextIInv, PTL DEF Spec

-----------------------------------------------------------------------------
(* Theorems *)

\* Trading.sol: the counter of a trader is the number of its open trades, which is what
\* the backing manager goes by before it hands out assets or takes a haircut.
THEOREM TradesAreCounted == Spec => []TradesCounted
  BY TradingInvariance, PTL DEF IInv

\* The backing manager has at most one trade open: what it sells was sized with all other
\* capital at hand (_manageTokens()).
THEOREM TradesOneAtATime == Spec => [](Cardinality(OpenTrades("backingManager")) <= 1)
<1>1. IInv => Cardinality(OpenTrades("backingManager")) <= 1
  BY DEF IInv, OneAtATime, TradesCounted, Traders
<1> QED
  BY <1>1, TradingInvariance, PTL

\* Only tryTrade() opens trades, with the broker enabled.
LEMMA OpensEnabled ==
  ASSUME IInv, [Next]_vars, NEW trader \in Traders, NEW t \in Tokens,
         ~Open(trader, t), trades'[trader][t] /= NoTrade
  PROVE  ~disabled
<1> SUFFICES ASSUME disabled PROVE trades'[trader][t] = NoTrade
  OBVIOUS
<1> USE DEF Open
<1>1. ASSUME NEW erc20s \in TokenLists, ManageTokens(erc20s) PROVE UNCHANGED trades
  <2>1. PICK status : HandoutExcessAssets(erc20s) \/ Recollateralize(status)
    BY <1>1 DEF ManageTokens
  <2>2. HandoutExcessAssets(erc20s) \/ CompromiseBasketsNeeded
        \/ (\E enough, buy, top : TradeSurplus(enough, buy, top, status))
        \/ (\E buy : TradeRSR(buy))
    BY <2>1 DEF Recollateralize
  <2>3. ASSUME NEW enough, NEW buy, NEW top PROVE ~TradeSurplus(enough, buy, top, status)
    BY DEF TradeSurplus, TryTrade
  <2>4. ASSUME NEW buy PROVE ~TradeRSR(buy)
    BY DEF TradeRSR, TryTrade
  <2> QED
    BY <2>2, <2>3, <2>4 DEF HandoutExcessAssets, CompromiseBasketsNeeded
<1>2. ASSUME NEW x \in Traders \ {"backingManager"}, NEW u \in Tokens, ManageToken(x, u)
      PROVE  UNCHANGED trades
  BY <1>2 DEF ManageToken, Distribute, SellRevenue, TryTrade
<1>3. ASSUME NEW x \in Traders, NEW u \in Tokens, SettleTrade(x, u)
      PROVE  trades'[trader][t] = NoTrade
  BY <1>3 DEF SettleTrade, IInv, TradesTyped
<1>4. ASSUME NEW x \in Traders, NEW u \in Tokens, SettleAuction(x, u)
      PROVE  trades'[trader][t] = NoTrade
  BY <1>4 DEF SettleAuction, NoTrade, IInv, TradesTyped
<1>5. CASE \/ \E x \in Traders, u \in Tokens : Receive(x, u)
           \/ Melt \/ Tick \/ UNCHANGED vars
           \/ \E d \in BOOLEAN : SetDisabled(d)
           \/ \E dist \in Distributions : SetDistribution(dist)
           \/ \E val \in TradingDelays : SetTradingDelay(val)
           \/ \E val \in BackingBuffers : SetBackingBuffer(val)
           \/ \E val \in AuctionLengths : SetAuctionLength(val)
           \/ \E b \in Baskets \ {basket} : SwitchBasket(b)
           \/ \E p \in PauseStates : SetPausedOrFrozen(p)
  BY <1>5 DEF Receive, Melt, Tick, vars, SetDisabled, SetDistribution, SetTradingDelay,
              SetBackingBuffer, SetAuctionLength, SwitchBasket, SetPausedOrFrozen
<1> QED
  BY <1>1, <1>2, <1>3, <1>4, <1>5 DEF Next

\* No trade opens from a sale that fell short until governance enables the broker
\* (reportViolation(), openTrade(), setDisabled()).
THEOREM ViolationsStopTrading == Spec => ViolationsStop
<1>1. IInv /\ [Next]_vars =>
        [violated => \A trader \in Traders, t \in Tokens :
                       ~Open(trader, t) => trades'[trader][t] = NoTrade]_vars
  BY OpensEnabled DEF IInv, ViolationsDisable
<1> QED
  BY <1>1, TradingInvariance, PTL DEF Spec, ViolationsStop

-----------------------------------------------------------------------------
(* The ledger *)

\* Balances, and the tokens t in all accounts and in all trades.
Balances == [Accounts -> [Tokens -> Nat]]
InAccounts(b, t) == SumFunction([a \in Accounts |-> b[a][t]])
InTrades(tr, t) ==
  SumFunction([x \in Traders \X Tokens |-> InTrade(tr[x[1]][x[2]], x[2], t)])

\* The fields that TradesTyped does not type.
LedgerTyped ==
  /\ bal \in Balances /\ totalSupply \in Nat /\ basketsNeeded \in Nat
  /\ distribution \in [Destinations -> Share] /\ CanSetDistribution(distribution)
  /\ backingBuffer \in BackingBuffers
  /\ lastPayout \in 0..now /\ lastPayoutBal \in 0..bal["furnace"]["rToken"]
  /\ basketTimestamp \in 0..now

\* An auction that goes on has brought nothing yet.
Unsettled ==
  \A trader \in Traders, t \in Tokens :
    Open(trader, t) /\ trades[trader][t].status = "open" => trades[trader][t].buyBal = 0

\* The RToken trader neither has RSR nor buys it.
NoRSRForRToken ==
  /\ bal["rTokenTrader"]["rsr"] = 0
  /\ \A t \in Tokens : Open("rTokenTrader", t) => trades["rTokenTrader"][t].buy = "rToken"

Ledger == LedgerTyped /\ Unsettled /\ NoRSRForRToken /\ NothingStrays

LEMMA AccountsFinite == IsFiniteSet(Accounts) /\ IsFiniteSet(Traders \X Tokens)
<1>0. \A x, y, z : IsFiniteSet({x, y, z}) /\ IsFiniteSet({x})
  <2>1. \A x : IsFiniteSet({x})
    BY FS_Singleton
  <2>2. ASSUME NEW x, NEW y, NEW z PROVE IsFiniteSet({x, y, z})
    <3>1. IsFiniteSet({x} \cup {y})
      BY <2>1, FS_Union
    <3>2. IsFiniteSet(({x} \cup {y}) \cup {z})
      BY <2>1, <3>1, FS_Union
    <3>3. ({x} \cup {y}) \cup {z} = {x, y, z}
      OBVIOUS
    <3> QED
      BY <3>2, <3>3
  <2> QED
    BY <2>1, <2>2
<1>1. IsFiniteSet(Traders) /\ IsFiniteSet(Destinations) /\ IsFiniteSet({"public"})
  BY <1>0, Zenon DEF Traders, Destinations
<1>2. IsFiniteSet(Traders \cup Destinations)
  BY <1>1, FS_Union
<1>3. IsFiniteSet(Accounts)
  BY <1>1, <1>2, FS_Union DEF Accounts
<1> QED
  BY <1>1, <1>3, TokensFinite, FS_Product

\* Accounts, traders and destinations are what their names say.
LEMMA AccountNames ==
  /\ Traders \subseteq Accounts /\ Destinations \subseteq Accounts
  /\ {"backingManager", "rsrTrader", "rTokenTrader"} \subseteq Traders
  /\ {"furnace", "stRSR", "other", "public"} \subseteq Accounts
  /\ {"furnace", "stRSR", "other"} \subseteq Destinations
  /\ Traders \cap Destinations = {} /\ "public" \notin Traders \cup Destinations
  /\ {"rsr", "rToken"} \subseteq Tokens /\ Collaterals \subseteq Tokens
  BY DEF Accounts, Traders, Destinations, Tokens

LEMMA HeldIs ==
  ASSUME NEW t PROVE /\ Held(t) = InAccounts(bal, t) + InTrades(trades, t)
                     /\ Held(t)' = InAccounts(bal', t) + InTrades(trades', t)
  BY DEF Held, InAccounts, InTrades

\* What trades hold is a number.
LEMMA InTradeType ==
  ASSUME NEW trade \in Trade \cup {NoTrade}, NEW sell, NEW t
  PROVE  InTrade(trade, sell, t) \in Nat
<1>1. CASE trade = NoTrade
  BY <1>1 DEF InTrade
<1>2. CASE trade \in Trade
  <2>1. trade.sellBal \in Nat /\ trade.initBal \in Nat /\ trade.buyBal \in Nat
    BY <1>2 DEF Trade
  <2> QED
    BY <2>1 DEF InTrade
<1> QED
  BY <1>1, <1>2

LEMMA InAccountsType ==
  ASSUME NEW b \in Balances, NEW t \in Tokens
  PROVE  InAccounts(b, t) \in Nat
<1>1. [a \in Accounts |-> b[a][t]] \in [Accounts -> Nat]
  BY DEF Balances
<1>2. [a \in Accounts |-> b[a][t]] \in [Accounts -> Int]
  BY <1>1
<1> QED
  BY <1>1, <1>2, AccountsFinite, SumType DEF InAccounts

LEMMA InTradesType ==
  ASSUME NEW tr \in [Traders -> [Tokens -> Trade \cup {NoTrade}]], NEW t
  PROVE  InTrades(tr, t) \in Nat
<1> DEFINE f == [x \in Traders \X Tokens |-> InTrade(tr[x[1]][x[2]], x[2], t)]
<1>1. f \in [Traders \X Tokens -> Nat]
  BY InTradeType
<1>2. f \in [Traders \X Tokens -> Int]
  BY <1>1
<1> HIDE DEF f
<1>3. SumFunction(f) \in Nat
  BY <1>1, <1>2, AccountsFinite, SumType
<1> QED
  BY <1>3 DEF InTrades, f

\* When one account's balance of a token changes the sum does by as much.
LEMMA OneBalanceChanges ==
  ASSUME NEW t, NEW b, NEW c, NEW a \in Accounts,
         \A x \in Accounts : b[x][t] \in Int /\ c[x][t] \in Int,
         \A x \in Accounts \ {a} : c[x][t] = b[x][t]
  PROVE  InAccounts(c, t) = InAccounts(b, t) + (c[a][t] - b[a][t])
<1> DEFINE f == [x \in Accounts |-> b[x][t]]
           g == [x \in Accounts |-> c[x][t]]
<1>1. /\ f \in [Accounts -> Int] /\ g \in [Accounts -> Int]
      /\ \A x \in Accounts \ {a} : f[x] = g[x]
      /\ f[a] = b[a][t] /\ g[a] = c[a][t]
  OBVIOUS
<1> HIDE DEF f, g
<1>2. SumFunction(g) = SumFunction(f) + (g[a] - f[a])
  BY <1>1, AccountsFinite, SumChange
<1>3. SumFunction(g) = InAccounts(c, t) /\ SumFunction(f) = InAccounts(b, t)
  BY DEF InAccounts, f, g
<1> QED
  BY <1>1, <1>2, <1>3

\* When no account's balance of a token changes neither does the sum.
LEMMA NoBalanceChanges ==
  ASSUME NEW t, NEW b, NEW c, \A x \in Accounts : c[x][t] = b[x][t]
  PROVE  InAccounts(c, t) = InAccounts(b, t)
<1>1. [x \in Accounts |-> b[x][t]] = [x \in Accounts |-> c[x][t]]
  OBVIOUS
<1> QED
  BY <1>1 DEF InAccounts

\* Two tables of trades that differ in one trade only.
TradeTables == [Traders -> [Tokens -> Trade \cup {NoTrade}]]
DifferIn(tr, ts, trader, sell) ==
  \A x \in Traders, u \in Tokens : x /= trader \/ u /= sell => ts[x][u] = tr[x][u]

\* Their trades hold what that one makes the difference.
LEMMA OneTradeChanges ==
  ASSUME NEW t, NEW tr \in TradeTables, NEW ts \in TradeTables,
         NEW trader \in Traders, NEW sell \in Tokens, DifferIn(tr, ts, trader, sell)
  PROVE  InTrades(ts, t) = InTrades(tr, t) + (InTrade(ts[trader][sell], sell, t)
                                               - InTrade(tr[trader][sell], sell, t))
<1> DEFINE f == [x \in Traders \X Tokens |-> InTrade(tr[x[1]][x[2]], x[2], t)]
           g == [x \in Traders \X Tokens |-> InTrade(ts[x[1]][x[2]], x[2], t)]
           a == <<trader, sell>>
<1>2. a \in Traders \X Tokens /\ a[1] = trader /\ a[2] = sell
  OBVIOUS
<1>3. /\ f \in [Traders \X Tokens -> Nat] /\ g \in [Traders \X Tokens -> Nat]
  <2>1. ASSUME NEW x \in Traders \X Tokens
        PROVE  /\ InTrade(tr[x[1]][x[2]], x[2], t) \in Nat
               /\ InTrade(ts[x[1]][x[2]], x[2], t) \in Nat
    <3>1. /\ tr[x[1]][x[2]] \in Trade \cup {NoTrade}
          /\ ts[x[1]][x[2]] \in Trade \cup {NoTrade}
      BY DEF TradeTables
    <3> QED
      BY <3>1, InTradeType
  <2> QED
    BY <2>1
<1>4. \A x \in (Traders \X Tokens) \ {a} : ts[x[1]][x[2]] = tr[x[1]][x[2]]
  <2>1. ASSUME NEW x \in (Traders \X Tokens) \ {a} PROVE x[1] /= trader \/ x[2] /= sell
    <3>1. x = <<x[1], x[2]>>
      OBVIOUS
    <3> QED
      BY <3>1
  <2> QED
    BY <2>1 DEF DifferIn
<1>5. /\ \A x \in (Traders \X Tokens) \ {a} : f[x] = g[x]
      /\ f[a] = InTrade(tr[trader][sell], sell, t)
      /\ g[a] = InTrade(ts[trader][sell], sell, t)
  BY <1>2, <1>4
<1>6. f \in [Traders \X Tokens -> Int] /\ g \in [Traders \X Tokens -> Int]
  BY <1>3
<1> DEFINE P == Traders \X Tokens
<1> HIDE DEF f, g, a, P
<1>7. SumFunction(g) = SumFunction(f) + (g[a] - f[a])
  <2>1. f \in [P -> Int] /\ g \in [P -> Int] /\ IsFiniteSet(P) /\ a \in P
    BY <1>2, <1>6, AccountsFinite DEF P
  <2>2. \A x \in P \ {a} : f[x] = g[x]
    BY <1>5 DEF P
  <2> QED
    BY <2>1, <2>2, SumChange
<1>8. SumFunction(g) = InTrades(ts, t) /\ SumFunction(f) = InTrades(tr, t)
  BY DEF InTrades, f, g
<1> QED
  BY <1>5, <1>7, <1>8

\* No step creates or destroys tokens, except for what it mints or melts.
Conserved ==
  \A t \in Tokens :
    Held(t)' = Held(t) + (IF t = "rToken" THEN totalSupply' - totalSupply ELSE 0)

LEMMA ConservedKeeps ==
  ASSUME IInv, Ledger, LedgerTyped', Conserved, trades'["rTokenTrader"]["rsr"] = NoTrade
  PROVE  NothingStrays'
<1>1. ASSUME NEW t \in Tokens PROVE Held(t) \in Int
  <2>1. InAccounts(bal, t) \in Nat /\ InTrades(trades, t) \in Nat
    BY InAccountsType, InTradesType DEF IInv, TradesTyped, Ledger, LedgerTyped
  <2> QED
    BY <2>1, HeldIs
<1>2. totalSupply \in Nat /\ totalSupply' \in Nat
  BY DEF Ledger, LedgerTyped
<1>3. ASSUME NEW t \in Tokens \ {"rToken"}
      PROVE  Held(t)' = SumFunction([a \in Accounts |-> InitBalances[a][t]])
  <2>1. Held(t)' = Held(t) + 0
    BY <1>3 DEF Conserved
  <2>2. Held(t)' = Held(t)
    BY <1>1, <2>1
  <2> QED
    BY <2>2 DEF Ledger, NothingStrays
<1>4. Held("rToken")' = totalSupply'
  <2>1. Held("rToken")' = Held("rToken") + (totalSupply' - totalSupply)
    BY AccountNames DEF Conserved
  <2>2. Held("rToken") = totalSupply
    BY DEF Ledger, NothingStrays
  <2> QED
    BY <1>2, <2>1, <2>2
<1> QED
  BY <1>3, <1>4 DEF NothingStrays

\* Steps that leave tokens, trades and supply alone.
LEMMA FrameLedger ==
  ASSUME IInv, IInv', Ledger,
         UNCHANGED <<bal, trades, totalSupply, basketsNeeded, lastPayout, lastPayoutBal>>,
         distribution' \in [Destinations -> Share], CanSetDistribution(distribution)',
         backingBuffer' \in BackingBuffers, basketTimestamp' \in 0..now', now <= now'
  PROVE  Ledger'
<1>1. LedgerTyped'
  <2>1. now \in Nat /\ now' \in Nat /\ lastPayout \in 0..now /\ now <= now'
    BY ParameterAssumption DEF IInv, TradesTyped, Ledger, LedgerTyped
  <2>2. lastPayout' \in 0..now'
    BY <2>1
  <2> QED
    BY <2>2 DEF Ledger, LedgerTyped
<1>2. Unsettled' /\ NoRSRForRToken'
  BY DEF Ledger, Unsettled, NoRSRForRToken, Open
<1>3. NothingStrays'
  BY DEF Ledger, NothingStrays, Held
<1> QED
  BY <1>1, <1>2, <1>3 DEF Ledger

LEMMA TryTradeLedger ==
  ASSUME IInv, IInv', Ledger, NEW trader \in Traders, NEW sell \in Tokens, NEW buy \in Tokens,
         NEW amount \in Nat \ {0}, NEW minBuy \in Nat, NEW b \in Balances,
         amount <= b[trader][sell],
         \A t \in Tokens : InAccounts(b, t) = InAccounts(bal, t),
         b["furnace"] = bal["furnace"], b["rTokenTrader"] = bal["rTokenTrader"],
         trader = "rTokenTrader" => sell /= "rsr" /\ buy = "rToken",
         TryTrade(trader, sell, buy, amount, minBuy, b)
  PROVE  Ledger'
<1> DEFINE r == [status |-> "open", buy |-> buy, initBal |-> amount, minBuy |-> minBuy,
                 endTime |-> now + auctionLength, sellBal |-> 0, buyBal |-> 0]
<1>1. /\ trades' = [trades EXCEPT ![trader][sell] = r] /\ trades[trader][sell] = NoTrade
      /\ bal' = [b EXCEPT ![trader][sell] = @ - amount]
      /\ UNCHANGED <<totalSupply, basketsNeeded, lastPayout, lastPayoutBal, distribution,
                     backingBuffer, basketTimestamp, now>>
  BY DEF TryTrade, Open, params, environment, basketVars, rTokenVars, furnaceVars
<1>2. /\ trades \in [Traders -> [Tokens -> Trade \cup {NoTrade}]]
      /\ trades' \in [Traders -> [Tokens -> Trade \cup {NoTrade}]]
  BY DEF IInv, TradesTyped
<1>3. trades'[trader][sell] = r
  BY <1>1, <1>2
<1>4. r \in Trade
  <2>1. r \in Trade \cup {NoTrade}
    BY <1>2, <1>3
  <2>2. r.status = "open" /\ NoTrade.status = "none"
    BY DEF NoTrade
  <2> QED
    BY <2>1, <2>2
<1>5. ASSUME NEW t \in Tokens PROVE InTrade(r, sell, t) = IF t = sell THEN amount ELSE 0
  <2>1. r /= NoTrade
    BY <1>4, TradeIsNoNoTrade
  <2> QED
    BY <2>1 DEF InTrade
<1>6. r.status = "open" /\ r.buyBal = 0 /\ r.buy = buy
  OBVIOUS
<1> HIDE DEF r
<1>7. /\ bal' \in Balances
      /\ \A x \in Accounts, t \in Tokens :
           bal'[x][t] = IF x = trader /\ t = sell THEN b[x][t] - amount ELSE b[x][t]
  <2>1. trader \in Accounts /\ b[trader][sell] \in Nat /\ b[trader][sell] - amount \in Nat
    BY AccountNames DEF Balances
  <2>2. bal' = [b EXCEPT ![trader] = [b[trader] EXCEPT ![sell] = b[trader][sell] - amount]]
    BY <1>1
  <2> QED
    BY <2>1, <2>2 DEF Balances
<1>8. ASSUME NEW t \in Tokens
      PROVE  InAccounts(bal', t) = InAccounts(b, t) - (IF t = sell THEN amount ELSE 0)
  <2>1. \A x \in Accounts : b[x][t] \in Int /\ bal'[x][t] \in Int
    BY <1>7 DEF Balances
  <2>2. trader \in Accounts /\ InAccounts(b, t) \in Int
    BY AccountNames, InAccountsType
  <2>3. \A x \in Accounts \ {trader} : bal'[x][t] = b[x][t]
    BY <1>7
  <2>4. InAccounts(bal', t) = InAccounts(b, t) + (bal'[trader][t] - b[trader][t])
    BY <2>1, <2>2, <2>3, OneBalanceChanges
  <2>5. bal'[trader][t] - b[trader][t] = - (IF t = sell THEN amount ELSE 0)
    BY <1>7, <2>1, <2>2
  <2> QED
    BY <2>2, <2>4, <2>5
<1>9. ASSUME NEW t \in Tokens
      PROVE  InTrades(trades', t) = InTrades(trades, t) + (IF t = sell THEN amount ELSE 0)
  <2>1. trades \in TradeTables /\ trades' \in TradeTables /\ DifferIn(trades, trades', trader, sell)
    BY <1>1, <1>2 DEF TradeTables, DifferIn
  <2>2. InTrades(trades', t) = InTrades(trades, t) + (InTrade(trades'[trader][sell], sell, t)
                                                       - InTrade(trades[trader][sell], sell, t))
    BY <2>1, OneTradeChanges
  <2>3. InTrade(trades[trader][sell], sell, t) = 0 /\ InTrades(trades, t) \in Int
    BY <1>1, <1>2, InTradesType DEF InTrade
  <2> QED
    BY <1>3, <1>5, <2>2, <2>3
<1>10. Conserved
  <2>1. ASSUME NEW t \in Tokens PROVE Held(t)' = Held(t) /\ Held(t) \in Int
    <3>1. InAccounts(bal, t) \in Int /\ InTrades(trades, t) \in Int
      BY <1>2, InAccountsType, InTradesType DEF Ledger, LedgerTyped
    <3>2. InAccounts(b, t) = InAccounts(bal, t)
      OBVIOUS
    <3> QED
      BY <1>8, <1>9, <3>1, <3>2, HeldIs
  <2>2. totalSupply' - totalSupply = 0
    BY <1>1 DEF Ledger, LedgerTyped
  <2> QED
    BY <2>1, <2>2 DEF Conserved
<1>11. LedgerTyped'
  <2>1. bal'["furnace"]["rToken"] = bal["furnace"]["rToken"]
    BY <1>7, AccountNames
  <2> QED
    BY <1>1, <1>7, <2>1 DEF Ledger, LedgerTyped, CanSetDistribution
<1>12. Unsettled'
  BY <1>1, <1>2, <1>3, <1>6 DEF Ledger, Unsettled, Open
<1>13. NoRSRForRToken' /\ trades'["rTokenTrader"]["rsr"] = NoTrade
  <2>1. bal'["rTokenTrader"]["rsr"] = 0
    BY <1>7, AccountNames DEF Ledger, NoRSRForRToken
  <2>2. trades["rTokenTrader"]["rsr"] = NoTrade
    BY DEF Ledger, NothingStrays
  <2>3. trades'["rTokenTrader"]["rsr"] = NoTrade
    BY <1>1, <1>2, <2>2, AccountNames
  <2>4. ASSUME NEW t \in Tokens, trades'["rTokenTrader"][t] /= NoTrade
        PROVE  trades'["rTokenTrader"][t].buy = "rToken"
    BY <1>1, <1>2, <1>3, <1>6, <2>4, AccountNames DEF Ledger, NoRSRForRToken, Open
  <2> QED
    BY <2>1, <2>3, <2>4 DEF NoRSRForRToken, Open
<1> QED
  BY <1>10, <1>11, <1>12, <1>13, ConservedKeeps DEF Ledger

\* A transfer from one account to another leaves the sum as it is.
LEMMA MovedConserves ==
  ASSUME NEW b \in Balances, NEW from \in Accounts, NEW to \in Accounts, from /= to,
         NEW t \in Tokens, NEW n \in 0..b[from][t]
  PROVE  /\ Moved(b, from, to, t, n) \in Balances
         /\ \A x \in Accounts, u \in Tokens : Moved(b, from, to, t, n)[x][u] =
              b[x][u] + (IF u = t /\ x = to THEN n ELSE IF u = t /\ x = from THEN - n ELSE 0)
         /\ \A u \in Tokens : InAccounts(Moved(b, from, to, t, n), u) = InAccounts(b, u)
<1> DEFINE c == [b EXCEPT ![from][t] = @ - n]
           d == [c EXCEPT ![to][t] = @ + n]
<1>1. b[from][t] \in Nat /\ b[to][t] \in Nat /\ n \in Nat /\ n <= b[from][t]
  <2>1. b[from][t] \in Nat /\ b[to][t] \in Nat
    BY DEF Balances
  <2> QED
    BY <2>1
<1>2. /\ c \in Balances
      /\ \A x \in Accounts, u \in Tokens :
           c[x][u] = IF x = from /\ u = t THEN b[x][u] - n ELSE b[x][u]
  <2>1. b[from][t] - n \in Nat
    BY <1>1
  <2>2. c = [b EXCEPT ![from] = [b[from] EXCEPT ![t] = b[from][t] - n]]
    OBVIOUS
  <2> HIDE DEF c
  <2> QED
    BY <2>1, <2>2 DEF Balances
<1>3. Moved(b, from, to, t, n) = d
  BY DEF Moved
<1> HIDE DEF c
<1>4. /\ d \in Balances
      /\ \A x \in Accounts, u \in Tokens :
           d[x][u] = IF x = to /\ u = t THEN c[x][u] + n ELSE c[x][u]
  <2>1. c[to][t] + n \in Nat
    BY <1>1, <1>2 DEF Balances
  <2>2. d = [c EXCEPT ![to] = [c[to] EXCEPT ![t] = c[to][t] + n]]
    OBVIOUS
  <2> HIDE DEF d
  <2> QED
    BY <1>2, <2>1, <2>2 DEF Balances
<1> HIDE DEF d
<1>5. ASSUME NEW u \in Tokens PROVE InAccounts(d, u) = InAccounts(b, u)
  <2>1. \A x \in Accounts : b[x][u] \in Int /\ c[x][u] \in Int /\ d[x][u] \in Int
    BY <1>2, <1>4 DEF Balances
  <2>2. InAccounts(c, u) = InAccounts(b, u) + (c[from][u] - b[from][u])
    BY <1>2, <2>1, OneBalanceChanges
  <2>3. InAccounts(d, u) = InAccounts(c, u) + (d[to][u] - c[to][u])
    BY <1>4, <2>1, OneBalanceChanges
  <2>4. InAccounts(b, u) \in Int /\ InAccounts(c, u) \in Int
    BY <1>2, InAccountsType
  <2>5. c[from][u] - b[from][u] = - (d[to][u] - c[to][u])
    BY <1>1, <1>2, <1>4, <2>1
  <2>6. c[from][u] - b[from][u] \in Int /\ d[to][u] - c[to][u] \in Int
    BY <2>1
  <2> HIDE DEF Balances
  <2> QED
    BY <2>2, <2>3, <2>4, <2>5, <2>6
<1>6. ASSUME NEW x \in Accounts, NEW u \in Tokens
      PROVE  d[x][u] = b[x][u] + (IF u = t /\ x = to THEN n
                                   ELSE IF u = t /\ x = from THEN - n ELSE 0)
  <2>1. b[x][u] \in Int
    BY DEF Balances
  <2> QED
    BY <1>1, <1>2, <1>4, <2>1
<1> QED
  BY <1>3, <1>4, <1>5, <1>6, Zenon

\* The baskets held are the least of the balances of the tokens in it.
LEMMA BasketsHeldIs ==
  ASSUME NEW b \in Balances, basket \in Baskets
  PROVE  /\ BasketsHeldIn(b) \in Nat
         /\ \A t \in basket : BasketsHeldIn(b) <= b["backingManager"][t]
         /\ \A n \in Nat : (\A t \in basket : n <= b["backingManager"][t]) => n <= BasketsHeldIn(b)
<1> DEFINE S == {b["backingManager"][t] : t \in basket}
<1>1. basket /= {} /\ basket \subseteq Tokens
  BY TokenAssumption DEF Tokens
<1>2. S \subseteq Nat /\ S /= {}
  BY <1>1, AccountNames DEF Balances
<1>3. \E m \in S : \A n \in S : m <= n
  BY <1>2, LeastNumber
<1>4. BasketsHeldIn(b) = Min(S)
  BY DEF BasketsHeldIn
<1>5. Min(S) \in S /\ \A n \in S : Min(S) <= n
  BY <1>3 DEF Min
<1> QED
  BY <1>2, <1>4, <1>5

\* The sums of shares are numbers, not both of them zero.
LEMMA SharesType ==
  ASSUME NEW dist \in [Destinations -> Share], NEW t
  PROVE  /\ [dest \in Destinations |-> SharesOf(dist, dest, t)] \in [Destinations -> Nat]
         /\ TotalShares(dist, t) \in Nat
<1> DEFINE f == [dest \in Destinations |-> SharesOf(dist, dest, t)]
<1>1. ASSUME NEW dest \in Destinations PROVE SharesOf(dist, dest, t) \in Nat
  <2>1. dist[dest] \in Share
    OBVIOUS
  <2>2. dist[dest].rTokenDist \in Nat /\ dist[dest].rsrDist \in Nat
    BY <2>1, DistributionAssumption DEF Share
  <2> QED
    BY <2>2 DEF SharesOf
<1>2. f \in [Destinations -> Nat]
  BY <1>1
<1>3. f \in [Destinations -> Int]
  BY <1>2
<1>4. IsFiniteSet(Destinations)
  BY AccountsFinite, FS_Subset, AccountNames
<1>5. TotalShares(dist, t) = SumFunction(f)
  BY DEF TotalShares
<1> HIDE DEF f
<1>6. SumFunction(f) \in Nat
  BY <1>2, <1>3, <1>4, SumType
<1> QED
  BY <1>2, <1>5, <1>6 DEF f

\* A sale of surplus, and one of RSR that is seized first as far as it is missing.
LEMMA TradeSurplusLedger ==
  ASSUME IInv, IInv', Ledger, NEW top \in Nat, NEW enough \in SUBSET Sellable(top),
         NEW buy \in Tokens, NEW status, TradeSurplus(enough, buy, top, status)
  PROVE  Ledger'
<1>1. PICK t, amount :
        /\ t \in Preferred(enough, status) /\ amount \in 1..Surplus(t, top)
        /\ TryTrade("backingManager", t, buy, amount, MinBuy(t, amount, status), bal)
  BY DEF TradeSurplus
<1>2. t \in Tokens /\ "backingManager" \in Traders /\ bal \in Balances
  BY <1>1, AccountNames DEF Preferred, Sellable, Ledger, LedgerTyped
<1>3. bal["backingManager"][t] \in Nat
  BY <1>2, AccountNames DEF Balances
<1>4. Surplus(t, top) \in Int /\ Surplus(t, top) <= bal["backingManager"][t]
  <2>1. Quantity(t) \in {0, 1}
    BY DEF Quantity
  <2> QED
    BY <1>3, <2>1 DEF Surplus
<1>5. amount \in Nat \ {0} /\ MinBuy(t, amount, status) \in Nat /\ amount <= bal["backingManager"][t]
  BY <1>1, <1>3, <1>4 DEF MinBuy
<1> QED
  BY <1>1, <1>2, <1>5, TryTradeLedger

LEMMA TradeRSRLedger ==
  ASSUME IInv, IInv', Ledger, NEW buy \in Tokens, TradeRSR(buy) PROVE Ledger'
<1>1. PICK amount \in 1..RSRAvailable :
        TryTrade("backingManager", "rsr", buy, amount, amount, Seized(amount))
  BY DEF TradeRSR
<1> DEFINE held == bal["backingManager"]["rsr"]
           missing == Max({amount - held, 0})
<1>2. held \in Nat /\ bal["stRSR"]["rsr"] \in Nat /\ bal \in Balances
  BY AccountNames DEF Ledger, LedgerTyped, Balances
<1>3. amount \in Nat \ {0} /\ amount <= held + bal["stRSR"]["rsr"]
  BY <1>1, <1>2 DEF RSRAvailable
<1>4. missing \in 0..bal["stRSR"]["rsr"] /\ amount <= held + missing
  <2>1. missing = IF amount - held >= 0 THEN amount - held ELSE 0
    <3>1. amount - held \in Int /\ 0 \in Int
      BY <1>2, <1>3
    <3> HIDE DEF held
    <3> QED
      BY <3>1, MaxOfTwo, Zenon
  <2> HIDE DEF missing
  <2> QED
    BY <1>2, <1>3, <2>1
<1>5. Seized(amount) = Moved(bal, "stRSR", "backingManager", "rsr", missing)
  BY DEF Seized
<1> HIDE DEF missing
<1>6. /\ Seized(amount) \in Balances
      /\ \A x \in Accounts, u \in Tokens : Seized(amount)[x][u] =
           bal[x][u] + (IF u = "rsr" /\ x = "backingManager" THEN missing
                        ELSE IF u = "rsr" /\ x = "stRSR" THEN - missing ELSE 0)
      /\ \A u \in Tokens : InAccounts(Seized(amount), u) = InAccounts(bal, u)
  <2> DEFINE c == Moved(bal, "stRSR", "backingManager", "rsr", missing)
  <2>1. /\ "stRSR" \in Accounts /\ "backingManager" \in Accounts
        /\ "stRSR" /= "backingManager" /\ "rsr" \in Tokens
    BY AccountNames
  <2>2. missing \in 0..bal["stRSR"]["rsr"] /\ bal \in Balances
    BY <1>2, <1>4
  <2>3. /\ c \in Balances
        /\ \A x \in Accounts, u \in Tokens : c[x][u] =
             bal[x][u] + (IF u = "rsr" /\ x = "backingManager" THEN missing
                          ELSE IF u = "rsr" /\ x = "stRSR" THEN - missing ELSE 0)
        /\ \A u \in Tokens : InAccounts(c, u) = InAccounts(bal, u)
    BY <2>1, <2>2, MovedConserves
  <2>4. c = Seized(amount)
    BY <1>5
  <2> HIDE DEF c
  <2> QED
    BY <2>3, <2>4, Zenon
<1>7. \A x \in Accounts \ {"backingManager", "stRSR"} : Seized(amount)[x] = bal[x]
  <2>1. ASSUME NEW x \in Accounts \ {"backingManager", "stRSR"}, NEW u \in Tokens
        PROVE  Seized(amount)[x][u] = bal[x][u]
    <3>1. bal[x][u] \in Nat /\ Seized(amount)[x][u] = bal[x][u] + 0
      BY <1>2, <1>6 DEF Balances
    <3> QED
      BY <3>1
  <2>2. ASSUME NEW x \in Accounts \ {"backingManager", "stRSR"}
        PROVE  Seized(amount)[x] = bal[x]
    <3>1. Seized(amount)[x] \in [Tokens -> Nat] /\ bal[x] \in [Tokens -> Nat]
      BY <1>2, <1>6 DEF Balances
    <3> QED
      BY <2>1, <3>1
  <2> QED
    BY <2>2
<1>8. amount <= Seized(amount)["backingManager"]["rsr"]
  <2>1. Seized(amount)["backingManager"]["rsr"] = held + missing
    BY <1>6, AccountNames
  <2> QED
    BY <1>4, <2>1
<1>9. /\ Seized(amount)["furnace"] = bal["furnace"]
      /\ Seized(amount)["rTokenTrader"] = bal["rTokenTrader"]
  BY <1>7, AccountNames
<1>10. "backingManager" \in Traders /\ "rsr" \in Tokens /\ "backingManager" /= "rTokenTrader"
  BY AccountNames
<1> DEFINE b == Seized(amount)
<1>11. TryTrade("backingManager", "rsr", buy, amount, amount, b)
  BY <1>1
<1>12. /\ b \in Balances /\ amount <= b["backingManager"]["rsr"]
       /\ \A u \in Tokens : InAccounts(b, u) = InAccounts(bal, u)
       /\ b["furnace"] = bal["furnace"] /\ b["rTokenTrader"] = bal["rTokenTrader"]
       /\ amount \in Nat
  BY <1>3, <1>6, <1>8, <1>9
<1> HIDE DEF b
<1> QED
  BY <1>3, <1>10, <1>11, <1>12, TryTradeLedger

LEMMA CompromiseLedger ==
  ASSUME IInv, IInv', Ledger, CompromiseBasketsNeeded PROVE Ledger'
<1>1. basketsNeeded' \in Nat
  BY BasketsHeldIs DEF CompromiseBasketsNeeded, BasketsHeld, Ledger, LedgerTyped, IInv,
     TradesTyped
<1>2. UNCHANGED <<bal, trades, totalSupply, lastPayout, lastPayoutBal, distribution,
                  backingBuffer, basketTimestamp, now>>
  BY DEF CompromiseBasketsNeeded, params, environment, basketVars, furnaceVars
<1>3. LedgerTyped'
  BY <1>1, <1>2 DEF Ledger, LedgerTyped, CanSetDistribution
<1>4. Unsettled' /\ NoRSRForRToken'
  BY <1>2 DEF Ledger, Unsettled, NoRSRForRToken, Open
<1>5. NothingStrays'
  BY <1>2 DEF Ledger, NothingStrays, Held
<1> QED
  BY <1>3, <1>4, <1>5 DEF Ledger

\* Shares of a number add up to no more than it, however they are rounded.
LEMMA SharesOfANumber ==
  ASSUME NEW m \in Nat, NEW total \in Nat \ {0}, NEW p \in Nat, NEW q \in Nat, p + q = total,
         NEW times \in {0, 1}
  PROVE  LET x == times * (m \div total) * p
             y == times * (m \div total) * q
         IN  x \in Nat /\ y \in Nat /\ x + y <= m
<1> DEFINE s == m \div total
<1>1. s \in Nat /\ total * s <= m
  BY FloorBounds
<1> HIDE DEF s
<1>2. s * p \in Nat /\ s * q \in Nat /\ s * p + s * q = total * s
  <2>1. total * s = p * s + q * s
    BY <1>1
  <2> QED
    BY <1>1, <2>1
<1>3. CASE times = 0
  BY <1>1, <1>3 DEF s
<1>4. CASE times = 1
  <2>1. times * s * p = s * p /\ times * s * q = s * q
    BY <1>1, <1>4
  <2>2. s * p + s * q <= m
    BY <1>1, <1>2
  <2> QED
    BY <1>2, <2>1, <2>2 DEF s
<1> QED
  BY <1>3, <1>4

\* What is kept for the baskets, with its buffer, is enough for them.
LEMMA BufferedIsMore ==
  ASSUME NEW n \in Nat, NEW buffer \in Nat
  PROVE  /\ RoundDiv(n * (FIX_ONE + buffer), FIX_ONE) \in Nat
         /\ n <= RoundDiv(n * (FIX_ONE + buffer), FIX_ONE)
<1>1. FIX_ONE \in Nat \ {0} /\ FIX_ONE \div 2 \in Nat
  BY ParameterAssumption
<1> DEFINE h == FIX_ONE \div 2
           m == n * (FIX_ONE + buffer) + h
<1> HIDE DEF h
<1>2. m \in Nat /\ FIX_ONE * n <= m
  <2>1. n * (FIX_ONE + buffer) = FIX_ONE * n + n * buffer /\ n * buffer \in Nat
    BY <1>1
  <2>2. h \in Nat /\ FIX_ONE * n \in Nat
    BY <1>1 DEF h
  <2> QED
    BY <2>1, <2>2
<1> HIDE DEF m
<1>3. m \div FIX_ONE \in Nat /\ n <= m \div FIX_ONE
  BY <1>1, <1>2, FloorBounds, FloorGreatest
<1> QED
  BY <1>3 DEF RoundDiv, m, h

\* A list without duplicates has each token at most once.
LEMMA TimesOnce ==
  ASSUME NEW erc20s, AllUnique(erc20s), NEW t PROVE Times(erc20s, t) \in {0, 1}
<1> DEFINE I == {i \in DOMAIN erc20s : erc20s[i] = t}
<1>1. CASE I = {}
  BY <1>1, FS_EmptySet DEF Times
<1>2. CASE I /= {}
  <2>1. PICK i : i \in I
    BY <1>2
  <2>2. I = {i}
    BY <2>1 DEF AllUnique
  <2> QED
    BY <2>2, FS_Singleton DEF Times
<1> QED
  BY <1>1, <1>2

\* What handoutExcessAssets() does: the traders' parts of the balances that are held
\* after forwarding and minting, and what stays for the basket.
HandsOut(held, minted, toRSR, toRToken) ==
  /\ held \in Balances /\ minted \in Nat
  /\ toRSR \in [Tokens -> Nat] /\ toRToken \in [Tokens -> Nat] /\ toRToken["rsr"] = 0
  /\ held["furnace"] = bal["furnace"] /\ held["rTokenTrader"] = bal["rTokenTrader"]
  /\ \A t \in Tokens :
       InAccounts(held, t) = InAccounts(bal, t) + (IF t = "rToken" THEN minted ELSE 0)
  /\ totalSupply' = totalSupply + minted
  /\ basketsNeeded' \in Nat
  /\ bal' \in Balances
  /\ \A x \in Accounts, t \in Tokens : bal'[x][t] =
       IF x = "rsrTrader" THEN held[x][t] + toRSR[t]
       ELSE IF x = "rTokenTrader" THEN held[x][t] + toRToken[t]
       ELSE IF x = "backingManager" THEN held[x][t] - toRSR[t] - toRToken[t]
       ELSE held[x][t]

KeepsEnough == \A t \in basket : basketsNeeded' <= bal'["backingManager"][t]
KeepsRate == basketsNeeded * totalSupply' <= basketsNeeded' * totalSupply

LEMMA MintsAtRate ==
  ASSUME NEW held \in Nat, NEW needed \in Nat, NEW supply \in Nat, held > needed, needed > 0
  PROVE  LET minted == ((held - needed) * supply) \div needed
         IN  minted \in Nat /\ needed * (supply + minted) <= held * supply
<1> DEFINE n == (held - needed) * supply
           minted == n \div needed
<1>1. n \in Nat
  <2>1. held - needed \in Nat
    OBVIOUS
  <2> QED
    BY <2>1
<1>2. held * supply = needed * supply + n
  OBVIOUS
<1> HIDE DEF n
<1>3. minted \in Nat /\ needed * minted <= n
  BY <1>1, FloorBounds
<1> HIDE DEF minted
<1>4. needed * (supply + minted) = needed * supply + needed * minted
  BY <1>3
<1>5. needed * (supply + minted) <= held * supply
  <2>1. needed * supply \in Nat /\ needed * minted \in Nat
    BY <1>3
  <2> QED
    BY <1>1, <1>2, <1>3, <1>4, <2>1
<1> QED
  BY <1>3, <1>5 DEF minted, n

LEMMA HandoutHandsOut ==
  ASSUME IInv, Ledger, FullyCollateralized, NEW erc20s, AllUnique(erc20s),
         HandoutExcessAssets(erc20s)
  PROVE  /\ \E held, minted, toRSR, toRToken : HandsOut(held, minted, toRSR, toRToken)
         /\ KeepsEnough /\ KeepsRate
<1> DEFINE mints == BasketsHeld > basketsNeeded
           minted == IF mints THEN RTokenToMint ELSE 0
           needed == IF mints THEN BasketsHeld ELSE basketsNeeded
           buffered == RoundDiv(needed * (FIX_ONE + backingBuffer), FIX_ONE)
           held == [RSRForwarded EXCEPT !["backingManager"]["rToken"] = @ + minted]
           total == TotalShares(distribution, "rToken") + TotalShares(distribution, "rsr")
           spare(t) == Max({held["backingManager"][t] - buffered * Quantity(t), 0})
           part(t, kind) == Times(erc20s, t) * (spare(t) \div total) * TotalShares(distribution, kind)
<1>1. /\ mints => /\ ValidRate(totalSupply + minted, basketsNeeded)
                  /\ ValidRate(totalSupply + minted, needed)
      /\ totalSupply' = totalSupply + minted /\ basketsNeeded' = needed
      /\ bal' = [held EXCEPT
          !["rsrTrader"] = [t \in Tokens |-> @[t] + part(t, "rsr")],
          !["rTokenTrader"] = [t \in Tokens |-> @[t] + part(t, "rToken")],
          !["backingManager"] = [t \in Tokens |-> @[t] - part(t, "rsr") - part(t, "rToken")]]
      /\ \A t \in Tokens : bal'["backingManager"][t] >= 0
  BY DEF HandoutExcessAssets
<1>2. /\ bal \in Balances /\ totalSupply \in Nat /\ basketsNeeded \in Nat
      /\ distribution \in [Destinations -> Share] /\ CanSetDistribution(distribution)
      /\ backingBuffer \in Nat /\ basket \in Baskets
  BY ParameterAssumption DEF Ledger, LedgerTyped, IInv, TradesTyped
<1>3. /\ BasketsHeld \in Nat /\ BasketsHeld >= basketsNeeded
      /\ \A t \in basket : BasketsHeld <= bal["backingManager"][t]
  BY <1>2, BasketsHeldIs DEF BasketsHeld, FullyCollateralized
<1>4. needed \in Nat /\ basketsNeeded <= needed /\ needed <= BasketsHeld
  BY <1>2, <1>3
<1>5. minted \in Nat /\ basketsNeeded * (totalSupply + minted) <= needed * totalSupply
  <2>1. CASE ~mints
    <3>1. minted = 0 /\ needed = basketsNeeded
      BY <2>1
    <3> HIDE DEF minted, needed
    <3> QED
      BY <1>2, <3>1
  <2>2. CASE mints /\ basketsNeeded > 0
    <3>1. minted = ((BasketsHeld - basketsNeeded) * totalSupply) \div basketsNeeded
      BY <2>2 DEF RTokenToMint
    <3>2. needed = BasketsHeld
      BY <2>2
    <3> HIDE DEF minted, needed
    <3> QED
      BY <1>2, <1>3, <2>2, <3>1, <3>2, MintsAtRate
  <2>3. CASE mints /\ ~(basketsNeeded > 0)
    <3>1. basketsNeeded = 0
      BY <1>2, <2>3
    <3>2. minted \in Nat
      BY <1>2, <1>3, <2>3, <3>1 DEF RTokenToMint
    <3> HIDE DEF minted, needed
    <3>3. basketsNeeded * (totalSupply + minted) = 0 /\ needed * totalSupply >= 0
      BY <1>2, <1>4, <3>1, <3>2
    <3> QED
      BY <3>2, <3>3
  <2> QED
    BY <2>1, <2>2, <2>3
<1>6. buffered \in Nat /\ needed <= buffered
  <2> HIDE DEF needed
  <2> QED
    BY <1>2, <1>4, BufferedIsMore
<1>7. /\ TotalShares(distribution, "rsr") \in Nat /\ TotalShares(distribution, "rToken") \in Nat
      /\ total \in Nat \ {0}
  <2>1. TotalShares(distribution, "rsr") \in Nat /\ TotalShares(distribution, "rToken") \in Nat
    BY <1>2, SharesType
  <2> QED
    BY <1>2, <2>1 DEF CanSetDistribution
<1> HIDE DEF minted, needed, buffered, mints
<1>8. /\ RSRForwarded \in Balances
      /\ \A x \in Accounts, t \in Tokens : RSRForwarded[x][t] =
           bal[x][t] + (IF t = "rsr" /\ x = "rsrTrader" THEN bal["backingManager"]["rsr"]
                        ELSE IF t = "rsr" /\ x = "backingManager"
                             THEN - bal["backingManager"]["rsr"] ELSE 0)
      /\ \A t \in Tokens : InAccounts(RSRForwarded, t) = InAccounts(bal, t)
  <2> DEFINE n == bal["backingManager"]["rsr"]
             c == Moved(bal, "backingManager", "rsrTrader", "rsr", n)
  <2>1. /\ "backingManager" \in Accounts /\ "rsrTrader" \in Accounts
        /\ "backingManager" /= "rsrTrader" /\ "rsr" \in Tokens
    BY AccountNames
  <2>2. n \in 0..bal["backingManager"]["rsr"]
    BY <1>2, <2>1 DEF Balances
  <2> HIDE DEF n
  <2>3. /\ c \in Balances
        /\ \A x \in Accounts, t \in Tokens : c[x][t] =
             bal[x][t] + (IF t = "rsr" /\ x = "rsrTrader" THEN n
                          ELSE IF t = "rsr" /\ x = "backingManager" THEN - n ELSE 0)
        /\ \A t \in Tokens : InAccounts(c, t) = InAccounts(bal, t)
    BY <1>2, <2>1, <2>2, MovedConserves
  <2>4. c = RSRForwarded
    BY DEF RSRForwarded, n
  <2> HIDE DEF c
  <2> QED
    BY <2>3, <2>4, Zenon DEF n
<1>9. /\ held \in Balances
      /\ \A x \in Accounts, t \in Tokens : held[x][t] =
           IF x = "backingManager" /\ t = "rToken" THEN RSRForwarded[x][t] + minted
           ELSE RSRForwarded[x][t]
  <2>1. RSRForwarded["backingManager"]["rToken"] + minted \in Nat
    BY <1>5, <1>8, AccountNames DEF Balances
  <2>2. held = [RSRForwarded EXCEPT !["backingManager"] = [RSRForwarded["backingManager"] EXCEPT
                  !["rToken"] = RSRForwarded["backingManager"]["rToken"] + minted]]
    OBVIOUS
  <2> HIDE DEF held
  <2> QED
    BY <1>8, <2>1, <2>2 DEF Balances
<1> HIDE DEF held
<1>10. ASSUME NEW t \in Tokens PROVE spare(t) \in Nat
  <2>1. held["backingManager"][t] \in Nat /\ Quantity(t) \in {0, 1}
    BY <1>9, AccountNames DEF Balances, Quantity
  <2>2. held["backingManager"][t] - buffered * Quantity(t) \in Int /\ 0 \in Int
    BY <1>6, <2>1
  <2> DEFINE n == held["backingManager"][t] - buffered * Quantity(t)
  <2>3. n \in Int
    BY <2>2
  <2>4. spare(t) = Max({n, 0})
    OBVIOUS
  <2> HIDE DEF n
  <2>5. Max({n, 0}) = IF n >= 0 THEN n ELSE 0
    BY <2>3, MaxOfTwo
  <2> QED
    BY <2>3, <2>4, <2>5
<1>11. ASSUME NEW t \in Tokens
       PROVE  /\ part(t, "rsr") \in Nat /\ part(t, "rToken") \in Nat
              /\ part(t, "rsr") + part(t, "rToken") <= spare(t)
  <2> DEFINE m == spare(t)
             p == TotalShares(distribution, "rsr")
             q == TotalShares(distribution, "rToken")
             times == Times(erc20s, t)
             x == times * (m \div total) * p
             y == times * (m \div total) * q
  <2>1. m \in Nat
    BY <1>10
  <2>2. times \in {0, 1}
    BY TimesOnce
  <2>3. p \in Nat /\ q \in Nat /\ p + q = total /\ total \in Nat \ {0}
    BY <1>7
  <2> HIDE DEF spare, total, m, p, q, times
  <2>4. x \in Nat /\ y \in Nat /\ x + y <= m
    BY <2>1, <2>2, <2>3, SharesOfANumber
  <2> QED
    BY <2>4 DEF m, p, q, times
<1>12. \A x \in Accounts, t \in Tokens : bal'[x][t] =
         IF x = "rsrTrader" THEN held[x][t] + part(t, "rsr")
         ELSE IF x = "rTokenTrader" THEN held[x][t] + part(t, "rToken")
         ELSE IF x = "backingManager" THEN held[x][t] - part(t, "rsr") - part(t, "rToken")
         ELSE held[x][t]
  <2> HIDE DEF part
  <2> QED
    BY <1>1, <1>9, AccountNames DEF Balances
<1>13. bal' \in Balances
  <2>1. ASSUME NEW x \in Accounts
        PROVE  bal'[x] \in [Tokens -> Nat]
    <3>1. ASSUME NEW t \in Tokens PROVE bal'[x][t] \in Nat
      <4>1. held[x][t] \in Nat /\ part(t, "rsr") \in Nat /\ part(t, "rToken") \in Nat
        BY <1>9, <1>11 DEF Balances
      <4>2. x = "backingManager" => bal'[x][t] >= 0
        BY <1>1
      <4> HIDE DEF part
      <4> QED
        BY <1>12, <4>1, <4>2
    <3>2. held[x] = [t \in Tokens |-> held[x][t]]
      BY <1>9 DEF Balances
    <3>3. bal'[x] = [t \in Tokens |-> bal'[x][t]]
      <4> HIDE DEF part
      <4> QED
        BY <1>1, <1>9, <3>2, AccountNames DEF Balances
    <3> QED
      BY <3>1, <3>3
  <2>2. bal' = [x \in Accounts |-> bal'[x]]
    <3> HIDE DEF part
    <3> QED
      BY <1>1, <1>9 DEF Balances
  <2> QED
    BY <2>1, <2>2 DEF Balances
<1>14. ASSUME NEW t \in basket PROVE needed <= bal'["backingManager"][t]
  <2> DEFINE h == held["backingManager"][t]
             s == spare(t)
             p == part(t, "rsr")
             q == part(t, "rToken")
  <2>1. t \in Tokens /\ t \in Collaterals /\ t /= "rsr" /\ t /= "rToken" /\ Quantity(t) = 1
    BY <1>2, TokenAssumption DEF Tokens, Quantity
  <2>2. h = bal["backingManager"][t] /\ h \in Nat
    <3>1. bal["backingManager"][t] \in Nat
      BY <1>2, <2>1, AccountNames DEF Balances
    <3>2. RSRForwarded["backingManager"][t] = bal["backingManager"][t] + 0
      BY <1>8, <2>1, AccountNames
    <3>3. held["backingManager"][t] = RSRForwarded["backingManager"][t]
      BY <1>9, <2>1, AccountNames
    <3> QED
      BY <3>1, <3>2, <3>3
  <2>3. s = IF h - buffered >= 0 THEN h - buffered ELSE 0
    <3>1. h - buffered * Quantity(t) = h - buffered /\ h - buffered \in Int /\ 0 \in Int
      BY <1>6, <2>1, <2>2
    <3>2. s = Max({h - buffered * Quantity(t), 0})
      OBVIOUS
    <3>3. s = Max({h - buffered, 0})
      BY <3>1, <3>2, Zenon
    <3> HIDE DEF h, s
    <3> QED
      BY <3>1, <3>3, MaxOfTwo
  <2>4. p \in Nat /\ q \in Nat /\ p + q <= s
    BY <1>11, <2>1
  <2>5. bal'["backingManager"][t] = h - p - q
    BY <1>12, <2>1, AccountNames
  <2>6. needed <= h
    BY <1>2, <1>3, <1>4, <2>2
  <2> HIDE DEF h, s, p, q
  <2> QED
    BY <1>4, <1>6, <2>2, <2>3, <2>4, <2>5, <2>6
<1>15. part("rsr", "rToken") = 0
  <2>1. held["backingManager"]["rsr"] = 0
    <3>1. bal["backingManager"]["rsr"] \in Nat
      BY <1>2, AccountNames DEF Balances
    <3>2. RSRForwarded["backingManager"]["rsr"]
            = bal["backingManager"]["rsr"] + (- bal["backingManager"]["rsr"])
      BY <1>8, AccountNames
    <3>3. held["backingManager"]["rsr"] = RSRForwarded["backingManager"]["rsr"]
      BY <1>9, AccountNames
    <3> QED
      BY <3>1, <3>2, <3>3
  <2>2. Quantity("rsr") = 0
    BY <1>2, TokenAssumption DEF Quantity
  <2>3. held["backingManager"]["rsr"] - buffered * Quantity("rsr") = 0
    BY <1>6, <2>1, <2>2
  <2>4. spare("rsr") = Max({0, 0})
    BY <2>3, Zenon
  <2>5. Max({0, 0}) = 0
    BY MaxOfTwo
  <2>6. spare("rsr") \div total = 0
    <3>1. spare("rsr") = 0
      BY <2>4, <2>5
    <3> HIDE DEF spare, total
    <3> QED
      BY <1>7, <3>1
  <2>7. Times(erc20s, "rsr") \in {0, 1}
    BY TimesOnce
  <2> HIDE DEF spare, total
  <2> QED
    BY <1>7, <2>6, <2>7
<1>16. ASSUME NEW t \in Tokens
       PROVE  InAccounts(held, t) = InAccounts(bal, t) + (IF t = "rToken" THEN minted ELSE 0)
  <2>1. \A x \in Accounts : RSRForwarded[x][t] \in Int /\ held[x][t] \in Int
    BY <1>8, <1>9 DEF Balances
  <2>2. "backingManager" \in Accounts
        /\ \A x \in Accounts \ {"backingManager"} : held[x][t] = RSRForwarded[x][t]
    BY <1>9, AccountNames
  <2>3. InAccounts(held, t) = InAccounts(RSRForwarded, t)
          + (held["backingManager"][t] - RSRForwarded["backingManager"][t])
    BY <2>1, <2>2, OneBalanceChanges
  <2>4. InAccounts(RSRForwarded, t) = InAccounts(bal, t) /\ InAccounts(bal, t) \in Int
    BY <1>2, <1>8, InAccountsType
  <2>5. held["backingManager"][t] - RSRForwarded["backingManager"][t]
          = IF t = "rToken" THEN minted ELSE 0
    BY <1>5, <1>9, <2>1, <2>2
  <2> QED
    BY <2>3, <2>4, <2>5
<1>17. held["furnace"] = bal["furnace"] /\ held["rTokenTrader"] = bal["rTokenTrader"]
  <2>1. ASSUME NEW x \in {"furnace", "rTokenTrader"} PROVE held[x] = bal[x]
    <3>1. ASSUME NEW t \in Tokens PROVE held[x][t] = bal[x][t]
      <4>1. bal[x][t] \in Nat /\ RSRForwarded[x][t] = bal[x][t] + 0
        BY <1>2, <1>8, AccountNames DEF Balances
      <4> QED
        BY <1>9, <4>1, AccountNames
    <3>2. held[x] \in [Tokens -> Nat] /\ bal[x] \in [Tokens -> Nat]
      BY <1>2, <1>9, AccountNames DEF Balances
    <3> QED
      BY <3>1, <3>2
  <2> QED
    BY <2>1
<1> DEFINE toRSR == [t \in Tokens |-> part(t, "rsr")]
           toRToken == [t \in Tokens |-> part(t, "rToken")]
<1>18. /\ toRSR \in [Tokens -> Nat] /\ toRToken \in [Tokens -> Nat] /\ toRToken["rsr"] = 0
       /\ \A t \in Tokens : toRSR[t] = part(t, "rsr") /\ toRToken[t] = part(t, "rToken")
  <2>1. \A t \in Tokens : part(t, "rsr") \in Nat /\ part(t, "rToken") \in Nat
    BY <1>11
  <2> HIDE DEF part
  <2> QED
    BY <1>15, <2>1, AccountNames
<1> HIDE DEF part, toRSR, toRToken
<1>19. HandsOut(held, minted, toRSR, toRToken)
  BY <1>1, <1>4, <1>5, <1>9, <1>12, <1>13, <1>16, <1>17, <1>18 DEF HandsOut
<1>20. KeepsEnough /\ KeepsRate
  BY <1>1, <1>5, <1>14 DEF KeepsEnough, KeepsRate
<1> QED
  BY <1>19, <1>20

LEMMA HandoutLedger ==
  ASSUME IInv, Ledger, FullyCollateralized, NEW erc20s, AllUnique(erc20s),
         HandoutExcessAssets(erc20s)
  PROVE  Ledger'
<1>1. PICK held, minted, toRSR, toRToken : HandsOut(held, minted, toRSR, toRToken)
  BY HandoutHandsOut
<1>2. UNCHANGED <<trades, distribution, backingBuffer, lastPayout, lastPayoutBal,
                  basketTimestamp, now>>
  BY DEF HandoutExcessAssets, params, environment, basketVars, furnaceVars
<1>3. /\ bal \in Balances /\ totalSupply \in Nat /\ trades \in TradeTables
      /\ held \in Balances /\ bal' \in Balances /\ minted \in Nat
      /\ toRSR \in [Tokens -> Nat] /\ toRToken \in [Tokens -> Nat]
      /\ totalSupply' = totalSupply + minted
  BY <1>1 DEF Ledger, LedgerTyped, IInv, TradesTyped, HandsOut, TradeTables
<1>4. ASSUME NEW t \in Tokens
      PROVE  InAccounts(bal', t) = InAccounts(held, t)
  <2> DEFINE p == toRSR[t]
             q == toRToken[t]
             c == [x \in Accounts |-> [u \in {t} |->
                     IF x = "rsrTrader" THEN held[x][t] + p ELSE held[x][t]]]
             d == [x \in Accounts |-> [u \in {t} |->
                     IF x = "rTokenTrader" THEN c[x][t] + q ELSE c[x][t]]]
  <2>1. p \in Nat /\ q \in Nat /\ \A x \in Accounts : held[x][t] \in Int /\ bal'[x][t] \in Int
    BY <1>3 DEF Balances
  <2>2. \A x \in Accounts : bal'[x][t] =
          IF x = "rsrTrader" THEN held[x][t] + p
          ELSE IF x = "rTokenTrader" THEN held[x][t] + q
          ELSE IF x = "backingManager" THEN held[x][t] - p - q
          ELSE held[x][t]
    BY <1>1 DEF HandsOut
  <2> HIDE DEF p, q
  <2>3. \A x \in Accounts :
          /\ c[x][t] = IF x = "rsrTrader" THEN held[x][t] + p ELSE held[x][t]
          /\ d[x][t] = IF x = "rTokenTrader" THEN c[x][t] + q ELSE c[x][t]
    OBVIOUS
  <2> HIDE DEF c, d
  <2>4. \A x \in Accounts : c[x][t] \in Int /\ d[x][t] \in Int
    BY <2>1, <2>3
  <2>5. \A x \in Accounts : bal'[x][t] = IF x = "backingManager" THEN d[x][t] - p - q ELSE d[x][t]
    BY <2>1, <2>2, <2>3
  <2>6. /\ "rsrTrader" \in Accounts /\ "rTokenTrader" \in Accounts
        /\ "backingManager" \in Accounts
    BY AccountNames
  <2>7. /\ \A x \in Accounts \ {"rsrTrader"} : c[x][t] = held[x][t]
        /\ \A x \in Accounts \ {"rTokenTrader"} : d[x][t] = c[x][t]
        /\ \A x \in Accounts \ {"backingManager"} : bal'[x][t] = d[x][t]
    BY <2>3, <2>5
  <2>8. InAccounts(c, t) = InAccounts(held, t) + (c["rsrTrader"][t] - held["rsrTrader"][t])
    BY <2>1, <2>4, <2>6, <2>7, OneBalanceChanges
  <2>9. InAccounts(d, t) = InAccounts(c, t) + (d["rTokenTrader"][t] - c["rTokenTrader"][t])
    BY <2>1, <2>4, <2>6, <2>7, OneBalanceChanges
  <2>10. InAccounts(bal', t)
           = InAccounts(d, t) + (bal'["backingManager"][t] - d["backingManager"][t])
    BY <2>1, <2>4, <2>6, <2>7, OneBalanceChanges
  <2>11. /\ c["rsrTrader"][t] - held["rsrTrader"][t] = p
         /\ d["rTokenTrader"][t] - c["rTokenTrader"][t] = q
         /\ bal'["backingManager"][t] - d["backingManager"][t] = - p - q
    BY <2>1, <2>3, <2>4, <2>5, <2>6
  <2>12. InAccounts(held, t) \in Int
    BY <1>3, InAccountsType
  <2> QED
    BY <2>1, <2>8, <2>9, <2>10, <2>11, <2>12
<1>5. Conserved
  <2>1. ASSUME NEW t \in Tokens
        PROVE  Held(t)' = Held(t) + (IF t = "rToken" THEN minted ELSE 0)
    <3>1. InAccounts(bal', t) = InAccounts(bal, t) + (IF t = "rToken" THEN minted ELSE 0)
      BY <1>1, <1>4 DEF HandsOut
    <3>2. InTrades(trades', t) = InTrades(trades, t)
      BY <1>2
    <3>3. InAccounts(bal, t) \in Int /\ InTrades(trades, t) \in Int
      BY <1>3, InAccountsType, InTradesType DEF TradeTables
    <3> QED
      BY <1>3, <3>1, <3>2, <3>3, HeldIs
  <2>2. totalSupply' - totalSupply = minted
    BY <1>3
  <2> QED
    BY <2>1, <2>2 DEF Conserved
<1>6. \A t \in Tokens : bal'["furnace"][t] = bal["furnace"][t]
  BY <1>1, AccountNames DEF HandsOut
<1>7. bal'["rTokenTrader"]["rsr"] = 0
  <2>1. bal["rTokenTrader"]["rsr"] = 0
    BY DEF Ledger, NoRSRForRToken
  <2>2. bal'["rTokenTrader"]["rsr"] = bal["rTokenTrader"]["rsr"] + toRToken["rsr"]
    BY <1>1, AccountNames DEF HandsOut
  <2> QED
    BY <1>1, <2>1, <2>2 DEF HandsOut
<1>8. LedgerTyped'
  <2>1. bal'["furnace"]["rToken"] = bal["furnace"]["rToken"]
    BY <1>6, AccountNames
  <2>2. totalSupply' \in Nat /\ basketsNeeded' \in Nat
    BY <1>1, <1>3 DEF HandsOut
  <2> QED
    BY <1>2, <1>3, <2>1, <2>2 DEF Ledger, LedgerTyped, CanSetDistribution
<1>9. Unsettled' /\ NoRSRForRToken' /\ trades'["rTokenTrader"]["rsr"] = NoTrade
  BY <1>2, <1>7 DEF Ledger, Unsettled, NoRSRForRToken, NothingStrays, Open
<1> QED
  BY <1>5, <1>8, <1>9, ConservedKeeps DEF Ledger

\* What the backing manager does.
LEMMA ManageTokensLedger ==
  ASSUME IInv, IInv', Ledger, NEW erc20s, ManageTokens(erc20s)
  PROVE  Ledger'
<1>1. PICK status \in CollateralStatus :
        \/ FullyCollateralized /\ HandoutExcessAssets(erc20s)
        \/ Recollateralize(status)
  BY DEF ManageTokens
<1>2. AllUnique(erc20s)
  BY DEF ManageTokens
<1>3. CASE FullyCollateralized /\ HandoutExcessAssets(erc20s)
  BY <1>2, <1>3, HandoutLedger
<1>4. CASE Recollateralize(status)
  <2>1. PICK top, bottom, enough :
          /\ top \in BasketsHeld..basketsNeeded /\ enough \in SUBSET Sellable(top)
          /\ \/ \E buy \in Buyable(bottom, top) : TradeSurplus(enough, buy, top, status)
             \/ \E buy \in Buyable(bottom, top) : TradeRSR(buy)
             \/ CompromiseBasketsNeeded
    BY <1>4 DEF Recollateralize
  <2>2. top \in Nat
    <3>1. BasketsHeld \in Nat /\ basketsNeeded \in Nat
      BY BasketsHeldIs DEF BasketsHeld, Ledger, LedgerTyped, IInv, TradesTyped
    <3> QED
      BY <2>1, <3>1
  <2>3. Buyable(bottom, top) \subseteq Tokens
    BY TokenAssumption DEF Buyable, IInv, TradesTyped, Tokens
  <2> QED
    BY <2>1, <2>2, <2>3, TradeSurplusLedger, TradeRSRLedger, CompromiseLedger
<1> QED
  BY <1>1, <1>3, <1>4

\* What a distribution sends, and what it leaves.
LEMMA RevenueType ==
  ASSUME Ledger, NEW t, NEW amount \in Nat, TotalShares(distribution, t) > 0
  PROVE  [dest \in Destinations |-> RevenueOf(distribution, dest, t, amount)]
           \in [Destinations -> Nat]
<1> DEFINE share == amount \div TotalShares(distribution, t)
<1>1. distribution \in [Destinations -> Share]
  BY DEF Ledger, LedgerTyped
<1>2. TotalShares(distribution, t) \in Nat \ {0}
  BY <1>1, SharesType
<1>3. share \in Nat
  BY <1>2, FloorBounds
<1> HIDE DEF share
<1>4. ASSUME NEW dest \in Destinations PROVE share * SharesOf(distribution, dest, t) \in Nat
  <2>1. [d \in Destinations |-> SharesOf(distribution, d, t)] \in [Destinations -> Nat]
    BY <1>1, SharesType
  <2>2. SharesOf(distribution, dest, t) \in Nat
    BY <2>1
  <2> QED
    BY <1>3, <2>2
<1> QED
  BY <1>4 DEF RevenueOf, share

LEMMA DistributeLedger ==
  ASSUME IInv, IInv', Ledger, NEW trader \in Traders \ {"backingManager"}, NEW t \in Tokens,
         t = TokenToBuy(trader), Distribute(trader, t, bal[trader][t])
  PROVE  Ledger'
<1> DEFINE sent == [dest \in Destinations |->
                      RevenueOf(distribution, dest, t, bal[trader][t])]
           left == bal[trader][t] - SumFunction(sent)
<1>1. /\ left >= 0
      /\ bal' = [a \in Accounts |->
           CASE a = trader -> [bal[a] EXCEPT ![t] = left]
             [] a \in Destinations -> [bal[a] EXCEPT ![t] = @ + sent[a]]
             [] OTHER -> bal[a]]
      /\ UNCHANGED <<trades, totalSupply, basketsNeeded, distribution, backingBuffer, lastPayout,
                     lastPayoutBal, basketTimestamp, now>>
  BY DEF Distribute, params, environment, basketVars, furnaceVars, rTokenVars
<1>2. /\ bal \in Balances /\ totalSupply \in Nat /\ trades \in TradeTables
      /\ trader \in Accounts /\ trader \notin Destinations
  BY AccountNames DEF Ledger, LedgerTyped, IInv, TradesTyped, TradeTables
<1>3. bal[trader][t] \in Nat
  BY <1>2 DEF Balances
<1>4. sent \in [Destinations -> Nat]
  BY <1>3, RevenueType DEF Distribute
<1>5. SumFunction(sent) \in Nat
  <2>1. sent \in [Destinations -> Int]
    BY <1>4
  <2>2. IsFiniteSet(Destinations)
    BY AccountsFinite, FS_Subset, AccountNames
  <2> HIDE DEF sent
  <2> QED
    BY <1>4, <2>1, <2>2, SumType
<1> HIDE DEF sent
<1>6. left \in Nat
  BY <1>1, <1>3, <1>5
<1>7. \A x \in Accounts, u \in Tokens : bal'[x][u] =
        IF u = t /\ x = trader THEN left
        ELSE IF u = t /\ x \in Destinations THEN bal[x][u] + sent[x] ELSE bal[x][u]
  <2> HIDE DEF left
  <2>1. ASSUME NEW x \in Accounts
        PROVE  bal'[x] = IF x = trader THEN [bal[x] EXCEPT ![t] = left]
                         ELSE IF x \in Destinations THEN [bal[x] EXCEPT ![t] = bal[x][t] + sent[x]]
                         ELSE bal[x]
    BY <1>1, <1>2
  <2>2. \A x \in Accounts : bal[x] \in [Tokens -> Nat]
    BY <1>2 DEF Balances
  <2> QED
    BY <2>1, <2>2
<1>8. bal' \in Balances
  <2> HIDE DEF left
  <2>1. ASSUME NEW x \in Accounts PROVE bal'[x] \in [Tokens -> Nat]
    <3>1. bal[x] \in [Tokens -> Nat] /\ bal[x][t] \in Nat
      BY <1>2 DEF Balances
    <3>2. x \in Destinations => bal[x][t] + sent[x] \in Nat
      BY <1>4, <3>1
    <3>3. bal'[x] = IF x = trader THEN [bal[x] EXCEPT ![t] = left]
                    ELSE IF x \in Destinations THEN [bal[x] EXCEPT ![t] = bal[x][t] + sent[x]]
                    ELSE bal[x]
      BY <1>1, <1>2
    <3> QED
      BY <1>6, <3>1, <3>2, <3>3
  <2>2. bal' = [x \in Accounts |-> bal'[x]]
    BY <1>1
  <2> QED
    BY <2>1, <2>2 DEF Balances
<1>9. ASSUME NEW u \in Tokens PROVE InAccounts(bal', u) = InAccounts(bal, u)
  <2>1. CASE u /= t
    <3>1. \A x \in Accounts : bal'[x][u] = bal[x][u]
      BY <1>7, <2>1
    <3> QED
      BY <3>1, NoBalanceChanges
  <2>2. CASE u = t
    <3> DEFINE f == [x \in Accounts |-> bal[x][t]]
               g == [x \in Accounts |-> IF x = trader THEN left ELSE bal[x][t]]
               h == [x \in Accounts |-> bal'[x][t]]
    <3>1. \A x \in Accounts : bal[x][t] \in Int /\ bal'[x][t] \in Int
      BY <1>2, <1>8 DEF Balances
    <3>2. left \in Int
      BY <1>6
    <3> HIDE DEF left
    <3>3. /\ f \in [Accounts -> Int] /\ g \in [Accounts -> Int] /\ h \in [Accounts -> Int]
          /\ sent \in [Destinations -> Int]
      BY <1>4, <3>1, <3>2
    <3>4. /\ \A x \in Accounts \ {trader} : f[x] = g[x]
          /\ g[trader] - f[trader] = left - bal[trader][t]
      BY <1>2
    <3>5. /\ \A x \in Destinations : h[x] = g[x] + sent[x]
          /\ \A x \in Accounts \ Destinations : h[x] = g[x]
      BY <1>2, <1>7, AccountNames
    <3>6. InAccounts(bal', u) = SumFunction(h) /\ InAccounts(bal, u) = SumFunction(f)
      BY <2>2 DEF InAccounts
    <3> HIDE DEF f, g, h
    <3>7. SumFunction(g) = SumFunction(f) + (g[trader] - f[trader])
      BY <1>2, <3>3, <3>4, AccountsFinite, SumChange
    <3>8. SumFunction(h) = SumFunction(g) + SumFunction(sent)
      <4>1. Destinations \in SUBSET Accounts /\ IsFiniteSet(Accounts)
        BY AccountNames, AccountsFinite
      <4> QED
        BY <3>3, <3>5, <4>1, SumSpread
    <3>9. SumFunction(f) \in Int
      BY <3>3, AccountsFinite, SumType
    <3>10. left = bal[trader][t] - SumFunction(sent)
      BY DEF left
    <3> QED
      BY <1>3, <1>5, <3>4, <3>6, <3>7, <3>8, <3>9, <3>10
  <2> QED
    BY <2>1, <2>2
<1>10. Conserved
  <2>1. ASSUME NEW u \in Tokens PROVE Held(u)' = Held(u) /\ Held(u) \in Int
    <3>1. InAccounts(bal, u) \in Int /\ InTrades(trades, u) \in Int
      BY <1>2, InAccountsType, InTradesType DEF TradeTables
    <3>2. InTrades(trades', u) = InTrades(trades, u)
      BY <1>1
    <3> QED
      BY <1>9, <3>1, <3>2, HeldIs
  <2>2. totalSupply' - totalSupply = 0
    BY <1>1, <1>2
  <2> QED
    BY <2>1, <2>2 DEF Conserved
<1>11. LedgerTyped'
  <2>1. bal'["furnace"]["rToken"] >= bal["furnace"]["rToken"]
        /\ bal["furnace"]["rToken"] \in Nat /\ bal'["furnace"]["rToken"] \in Nat
    <3> HIDE DEF left
    <3>1. bal["furnace"]["rToken"] \in Nat /\ bal'["furnace"]["rToken"] \in Nat
      BY <1>2, <1>8, AccountNames DEF Balances
    <3>2. "furnace" \in Destinations /\ "furnace" \in Accounts /\ "furnace" /= trader
          /\ "rToken" \in Tokens
      BY <1>2, AccountNames
    <3>3. sent["furnace"] \in Nat
      BY <1>4, <3>2
    <3> QED
      BY <1>7, <3>1, <3>2, <3>3
  <2>2. lastPayoutBal' \in 0..bal'["furnace"]["rToken"]
    BY <1>1, <2>1 DEF Ledger, LedgerTyped
  <2> QED
    BY <1>1, <1>8, <2>2 DEF Ledger, LedgerTyped, CanSetDistribution
<1>12. Unsettled' /\ NoRSRForRToken' /\ trades'["rTokenTrader"]["rsr"] = NoTrade
  <2>1. ~("rsr" = t /\ "rTokenTrader" = trader)
    BY DEF TokenToBuy
  <2>2. bal'["rTokenTrader"]["rsr"] = bal["rTokenTrader"]["rsr"]
    <3> HIDE DEF left
    <3> QED
      BY <1>7, <2>1, AccountNames
  <2> QED
    BY <1>1, <2>2 DEF Ledger, Unsettled, NoRSRForRToken, NothingStrays, Open
<1> QED
  BY <1>10, <1>11, <1>12, ConservedKeeps DEF Ledger

\* What the revenue traders do.
LEMMA ManageTokenLedger ==
  ASSUME IInv, IInv', Ledger, NEW trader \in Traders \ {"backingManager"}, NEW t \in Tokens,
         ManageToken(trader, t)
  PROVE  Ledger'
<1>1. bal[trader][t] > 0 /\ ( \/ t = TokenToBuy(trader) /\ Distribute(trader, t, bal[trader][t])
                              \/ t /= TokenToBuy(trader) /\ SellRevenue(trader, t) )
  BY DEF ManageToken
<1>2. CASE t = TokenToBuy(trader) /\ Distribute(trader, t, bal[trader][t])
  BY <1>2, DistributeLedger
<1>3. CASE t /= TokenToBuy(trader) /\ SellRevenue(trader, t)
  <2>1. PICK amount, minBuy :
          /\ amount \in 1..bal[trader][t] /\ minBuy \in {0, amount}
          /\ TryTrade(trader, t, TokenToBuy(trader), amount, minBuy, bal)
    BY <1>3 DEF SellRevenue
  <2>2. bal \in Balances /\ trader \in Traders
    BY DEF Ledger, LedgerTyped
  <2>3. bal[trader][t] \in Nat
    BY <2>2, AccountNames DEF Balances
  <2>4. amount \in Nat \ {0} /\ minBuy \in Nat /\ amount <= bal[trader][t]
    BY <2>1, <2>3
  <2>5. TokenToBuy(trader) \in Tokens
    BY AccountNames DEF TokenToBuy
  <2>6. trader = "rTokenTrader" => t /= "rsr" /\ TokenToBuy(trader) = "rToken"
    BY <1>1, <2>3 DEF TokenToBuy, Ledger, NoRSRForRToken
  <2> DEFINE b == bal
             buy == TokenToBuy(trader)
  <2>7. TryTrade(trader, t, buy, amount, minBuy, b)
    BY <2>1
  <2>8. /\ b \in Balances /\ amount <= b[trader][t] /\ buy \in Tokens
        /\ \A u \in Tokens : InAccounts(b, u) = InAccounts(bal, u)
        /\ b["furnace"] = bal["furnace"] /\ b["rTokenTrader"] = bal["rTokenTrader"]
        /\ trader = "rTokenTrader" => t /= "rsr" /\ buy = "rToken"
    BY <2>2, <2>4, <2>5, <2>6
  <2> HIDE DEF b, buy
  <2> QED
    BY <2>2, <2>4, <2>7, <2>8, TryTradeLedger
<1> QED
  BY <1>1, <1>2, <1>3

\* An auction's outcome r, with balances b, leaves as many tokens in accounts and trade
\* together as there were; only the bidders' balances change.
SoldFor(trade, sell, r, b) ==
  /\ r \in Trade /\ r.status = "cleared" /\ r.buy = trade.buy
  /\ b \in Balances /\ \A x \in Accounts \ {"public"} : b[x] = bal[x]
  /\ \A u \in Tokens : InAccounts(b, u) + InTrade(r, sell, u)
                         = InAccounts(bal, u) + InTrade(trade, sell, u)

LEMMA PaidIsSoldFor ==
  ASSUME bal \in Balances, NEW trade \in Trade, NEW sell \in Tokens, NEW r \in Cleared(trade),
         trade.status = "open", trade.buyBal = 0
  PROVE  SoldFor(trade, sell, r, Paid(sell, r))
<1> DEFINE b == Paid(sell, r)
           buy == trade.buy
<1>1. PICK x \in Outcomes(trade) :
        r = [trade EXCEPT !.status = "cleared", !.sellBal = trade.initBal - x[1], !.buyBal = x[2]]
  BY DEF Cleared
<1>2. r \in Trade /\ r.initBal = trade.initBal /\ r.buy = buy
  BY ClearedTyped
<1>3. /\ buy \in Tokens /\ trade.initBal \in Nat
      /\ r.status = "cleared" /\ r.sellBal = trade.initBal - x[1] /\ r.buyBal = x[2]
  BY <1>1 DEF Trade
<1>4. "public" \in Accounts /\ \A u \in Tokens : bal["public"][u] \in Nat
  BY AccountNames DEF Balances
<1>5. x[1] \in Nat /\ x[1] <= trade.initBal /\ x[2] \in Nat /\ x[2] <= bal["public"][buy]
  <2>1. x[1] \in 0..trade.initBal /\ x[2] \in 0..Min({trade.initBal, bal["public"][trade.buy]})
    BY DEF Outcomes
  <2>2. trade.initBal \in Int /\ bal["public"][trade.buy] \in Int
    BY <1>3, <1>4
  <2>3. Min({trade.initBal, bal["public"][trade.buy]})
          = IF trade.initBal <= bal["public"][trade.buy] THEN trade.initBal
            ELSE bal["public"][trade.buy]
    BY <2>2, MinOfTwo
  <2> QED
    BY <1>3, <1>4, <2>1, <2>2, <2>3
<1> HIDE DEF buy
<1>6. r.initBal - r.sellBal = x[1] /\ r.sellBal \in Nat
  BY <1>2, <1>3, <1>5
<1>7. b = [bal EXCEPT !["public"] =
        [u \in Tokens |-> bal["public"][u] + (IF u = sell THEN r.initBal - r.sellBal ELSE 0)
                                           - (IF u = r.buy THEN r.buyBal ELSE 0)]]
  BY DEF Paid
<1> HIDE DEF b
<1>8. ASSUME NEW u \in Tokens
      PROVE  /\ bal["public"][u] + (IF u = sell THEN r.initBal - r.sellBal ELSE 0)
                  - (IF u = r.buy THEN r.buyBal ELSE 0)
                = bal["public"][u] + (IF u = sell THEN x[1] ELSE 0)
                  - (IF u = buy THEN x[2] ELSE 0)
             /\ bal["public"][u] + (IF u = sell THEN x[1] ELSE 0)
                  - (IF u = buy THEN x[2] ELSE 0) \in Nat
  BY <1>2, <1>3, <1>4, <1>5, <1>6
<1>9. /\ b \in Balances
      /\ \A a \in Accounts, u \in Tokens : b[a][u] =
           IF a = "public" THEN bal["public"][u] + (IF u = sell THEN x[1] ELSE 0)
                                  - (IF u = buy THEN x[2] ELSE 0)
           ELSE bal[a][u]
  <2>1. b = [bal EXCEPT !["public"] =
          [u \in Tokens |-> bal["public"][u] + (IF u = sell THEN x[1] ELSE 0)
                              - (IF u = buy THEN x[2] ELSE 0)]]
    BY <1>7, <1>8
  <2>2. [u \in Tokens |-> bal["public"][u] + (IF u = sell THEN x[1] ELSE 0)
                              - (IF u = buy THEN x[2] ELSE 0)] \in [Tokens -> Nat]
    BY <1>8
  <2> QED
    BY <1>4, <2>1, <2>2 DEF Balances
<1>10. buy \in Tokens
  BY <1>3 DEF buy
<1>11. ASSUME NEW u \in Tokens
       PROVE  InAccounts(b, u) = InAccounts(bal, u) + ((IF u = sell THEN x[1] ELSE 0)
                                                        - (IF u = buy THEN x[2] ELSE 0))
  <2>1. \A a \in Accounts : bal[a][u] \in Int /\ b[a][u] \in Int
    BY <1>9 DEF Balances
  <2>2. \A a \in Accounts \ {"public"} : b[a][u] = bal[a][u]
    BY <1>9
  <2>3. InAccounts(b, u) = InAccounts(bal, u) + (b["public"][u] - bal["public"][u])
    BY <1>4, <2>1, <2>2, OneBalanceChanges
  <2>4. b["public"][u] = bal["public"][u] + (IF u = sell THEN x[1] ELSE 0)
                          - (IF u = buy THEN x[2] ELSE 0)
    BY <1>4, <1>9
  <2>6. b["public"][u] - bal["public"][u]
          = (IF u = sell THEN x[1] ELSE 0) - (IF u = buy THEN x[2] ELSE 0)
    BY <1>4, <1>5, <2>4
  <2> QED
    BY <2>3, <2>6
<1>12. ASSUME NEW u \in Tokens
       PROVE  InTrade(r, sell, u) = (IF u = sell THEN trade.initBal - x[1] ELSE 0)
                                     + (IF u = buy THEN x[2] ELSE 0)
  <2>1. r /= NoTrade
    BY <1>2, TradeIsNoNoTrade
  <2> QED
    BY <1>2, <1>3, <2>1 DEF InTrade
<1>13. ASSUME NEW u \in Tokens
       PROVE  InTrade(trade, sell, u) = IF u = sell THEN trade.initBal ELSE 0
  <2>1. trade /= NoTrade
    BY TradeIsNoNoTrade
  <2> QED
    BY <1>3, <2>1 DEF InTrade
<1>14. ASSUME NEW u \in Tokens
       PROVE  InAccounts(b, u) + InTrade(r, sell, u)
                = InAccounts(bal, u) + InTrade(trade, sell, u)
  <2>1. InAccounts(bal, u) \in Int
    BY InAccountsType
  <2> DEFINE m == trade.initBal
             n == InAccounts(bal, u)
  <2>2. m \in Int /\ x[1] \in Int /\ x[2] \in Int /\ n \in Int
    BY <1>3, <1>5, <2>1
  <2>3. /\ InAccounts(b, u) = n + ((IF u = sell THEN x[1] ELSE 0) - (IF u = buy THEN x[2] ELSE 0))
        /\ InTrade(r, sell, u) = (IF u = sell THEN m - x[1] ELSE 0) + (IF u = buy THEN x[2] ELSE 0)
        /\ InTrade(trade, sell, u) = IF u = sell THEN m ELSE 0
    BY <1>11, <1>12, <1>13
  <2> HIDE DEF m, n
  <2>4. InAccounts(b, u) + InTrade(r, sell, u) = n + InTrade(trade, sell, u)
    BY <2>2, <2>3
  <2> QED
    BY <2>4 DEF n
<1>15. ASSUME NEW a \in Accounts \ {"public"} PROVE b[a] = bal[a]
  <2>1. \A u \in Tokens : b[a][u] = bal[a][u]
    BY <1>9
  <2>2. b[a] \in [Tokens -> Nat] /\ bal[a] \in [Tokens -> Nat]
    BY <1>9 DEF Balances
  <2> QED
    BY <2>1, <2>2
<1>16. SoldFor(trade, sell, r, b)
  BY <1>2, <1>3, <1>9, <1>14, <1>15 DEF SoldFor, buy
<1> QED
  BY <1>16 DEF b

LEMMA SettleAuctionLedger ==
  ASSUME IInv, IInv', Ledger, NEW trader \in Traders, NEW t \in Tokens,
         SettleAuction(trader, t)
  PROVE  Ledger'
<1> DEFINE trade == trades[trader][t]
<1>1. PICK r \in Cleared(trade) :
        trades' = [trades EXCEPT ![trader][t] = r] /\ bal' = Paid(t, r)
  BY DEF SettleAuction
<1>2. UNCHANGED <<totalSupply, basketsNeeded, distribution, backingBuffer, lastPayout,
                  lastPayoutBal, basketTimestamp, now>>
  BY DEF SettleAuction, params, environment, basketVars, furnaceVars, rTokenVars
<1>3. /\ trade \in Trade /\ Open(trader, t) /\ trade.status = "open"
      /\ trades \in TradeTables /\ trades' \in TradeTables
  BY DEF SettleAuction, Open, NoTrade, IInv, TradesTyped, TradeTables
<1>4. trade.buyBal = 0 /\ bal \in Balances
  BY <1>3 DEF Ledger, Unsettled, LedgerTyped
<1>5. SoldFor(trade, t, r, bal')
  <2> HIDE DEF trade
  <2> QED
    BY <1>1, <1>3, <1>4, PaidIsSoldFor
<1>6. trades'[trader][t] = r
  BY <1>1, <1>3 DEF TradeTables
<1>7. bal' \in Balances /\ bal["furnace"] = bal'["furnace"]
      /\ bal["rTokenTrader"] = bal'["rTokenTrader"]
  BY <1>5, AccountNames DEF SoldFor
<1>8. Conserved
  <2>1. ASSUME NEW u \in Tokens PROVE Held(u)' = Held(u) /\ Held(u) \in Int
    <3>1. /\ InAccounts(bal, u) \in Int /\ InTrades(trades, u) \in Int
          /\ InAccounts(bal', u) \in Int /\ InTrades(trades', u) \in Int
      BY <1>3, <1>4, <1>7, InAccountsType, InTradesType DEF TradeTables
    <3>2. DifferIn(trades, trades', trader, t)
      BY <1>1, <1>3 DEF TradeTables, DifferIn
    <3>3. InTrades(trades', u) = InTrades(trades, u) + (InTrade(trades'[trader][t], t, u)
                                                         - InTrade(trades[trader][t], t, u))
      BY <1>3, <3>2, OneTradeChanges
    <3>4. InAccounts(bal', u) + InTrade(r, t, u) = InAccounts(bal, u) + InTrade(trade, t, u)
      BY <1>5 DEF SoldFor
    <3>5. InTrade(r, t, u) \in Int /\ InTrade(trade, t, u) \in Int
      BY <1>3, <1>5, InTradeType DEF SoldFor
    <3> QED
      BY <1>6, <3>1, <3>3, <3>4, <3>5, HeldIs
  <2>2. totalSupply' - totalSupply = 0
    BY <1>2 DEF Ledger, LedgerTyped
  <2> QED
    BY <2>1, <2>2 DEF Conserved
<1>9. LedgerTyped'
  BY <1>2, <1>7 DEF Ledger, LedgerTyped, CanSetDistribution
<1>10. r.status = "cleared" /\ r.buy = trade.buy
  BY <1>5 DEF SoldFor
<1>11. Unsettled'
  BY <1>1, <1>3, <1>6, <1>10 DEF Ledger, Unsettled, Open, TradeTables
<1>12. NoRSRForRToken' /\ trades'["rTokenTrader"]["rsr"] = NoTrade
  <2>1. trades["rTokenTrader"]["rsr"] = NoTrade
    BY DEF Ledger, NothingStrays
  <2>2. trades'["rTokenTrader"]["rsr"] = NoTrade
    BY <1>1, <1>3, <2>1 DEF Open, TradeTables
  <2>3. \A u \in Tokens : trades'["rTokenTrader"][u] /= NoTrade
          => trades'["rTokenTrader"][u].buy = "rToken"
    BY <1>1, <1>3, <1>6, <1>10, AccountNames DEF Ledger, NoRSRForRToken, Open, TradeTables
  <2> QED
    BY <1>7, <2>2, <2>3 DEF Ledger, NoRSRForRToken, Open
<1> QED
  BY <1>8, <1>9, <1>11, <1>12, ConservedKeeps DEF Ledger

LEMMA SettleTradeLedger ==
  ASSUME IInv, IInv', Ledger, NEW trader \in Traders, NEW t \in Tokens,
         SettleTrade(trader, t)
  PROVE  Ledger'
<1> DEFINE trade == trades[trader][t]
<1>1. PICK p \in Proceeds(trader, t) :
        bal' = [p.b EXCEPT ![trader] =
          [u \in Tokens |-> @[u] + (IF u = t THEN p.on.sellBal ELSE 0)
                                 + (IF u = p.on.buy THEN p.on.buyBal ELSE 0)]]
  BY DEF SettleTrade
<1>2. /\ trades' = [trades EXCEPT ![trader][t] = NoTrade] /\ Open(trader, t)
      /\ UNCHANGED <<totalSupply, basketsNeeded, distribution, backingBuffer, lastPayout,
                     lastPayoutBal, basketTimestamp, now>>
  BY DEF SettleTrade, params, environment, basketVars, furnaceVars, rTokenVars
<1>3. /\ trade \in Trade /\ trades \in TradeTables /\ trades' \in TradeTables
      /\ trader \in Accounts /\ trader /= "public" /\ trader /= "furnace"
      /\ bal \in Balances
  BY <1>2, AccountNames DEF Open, IInv, TradesTyped, TradeTables, Ledger, LedgerTyped
<1> DEFINE r == p.on
           b == p.b
<1>4. SoldFor(trade, t, r, b)
  <2>1. CASE trade.status = "cleared"
    <3>1. r = trade /\ b = bal
      BY <1>1, <2>1 DEF Proceeds
    <3> HIDE DEF trade, r, b
    <3> QED
      BY <1>3, <2>1, <3>1 DEF SoldFor
  <2>2. CASE trade.status = "open"
    <3>1. r \in Cleared(trade) /\ b = Paid(t, r)
      BY <1>1, <2>2 DEF Proceeds
    <3>2. trade.buyBal = 0
      BY <1>2, <2>2 DEF Ledger, Unsettled
    <3> HIDE DEF trade, r, b
    <3> QED
      BY <1>3, <2>2, <3>1, <3>2, PaidIsSoldFor
  <2>3. trade.status \in {"open", "cleared"}
    BY <1>3 DEF Trade
  <2> QED
    BY <2>1, <2>2, <2>3
<1>5. bal' = [b EXCEPT ![trader] =
        [u \in Tokens |-> b[trader][u] + (IF u = t THEN r.sellBal ELSE 0)
                               + (IF u = r.buy THEN r.buyBal ELSE 0)]]
  BY <1>1
<1> HIDE DEF r, b
<1>6. /\ r \in Trade /\ r.status = "cleared" /\ r.buy = trade.buy
      /\ b \in Balances /\ \A x \in Accounts \ {"public"} : b[x] = bal[x]
      /\ \A u \in Tokens : InAccounts(b, u) + InTrade(r, t, u)
                             = InAccounts(bal, u) + InTrade(trade, t, u)
  BY <1>4 DEF SoldFor
<1>7. ASSUME NEW u \in Tokens
      PROVE  /\ InTrade(r, t, u) \in Nat
             /\ b[trader][u] + (IF u = t THEN r.sellBal ELSE 0) + (IF u = r.buy THEN r.buyBal ELSE 0)
                  = b[trader][u] + InTrade(r, t, u)
  <2>1. r.sellBal \in Nat /\ r.buyBal \in Nat /\ b[trader][u] \in Nat /\ r /= NoTrade
    BY <1>3, <1>6, TradeIsNoNoTrade DEF Trade, Balances
  <2>2. InTrade(r, t, u) = (IF u = t THEN r.sellBal ELSE 0) + (IF u = r.buy THEN r.buyBal ELSE 0)
    BY <1>6, <2>1 DEF InTrade
  <2> QED
    BY <2>1, <2>2
<1>8. bal' = [b EXCEPT ![trader] = [u \in Tokens |-> b[trader][u] + InTrade(r, t, u)]]
  BY <1>5, <1>7
<1>9. bal' \in Balances /\ \A x \in Accounts, u \in Tokens :
        bal'[x][u] = IF x = trader THEN b[x][u] + InTrade(r, t, u) ELSE b[x][u]
  <2>1. \A u \in Tokens : b[trader][u] + InTrade(r, t, u) \in Nat
    BY <1>3, <1>6, <1>7 DEF Balances
  <2>2. [u \in Tokens |-> b[trader][u] + InTrade(r, t, u)] \in [Tokens -> Nat]
    BY <2>1
  <2> QED
    BY <1>3, <1>6, <1>8, <2>2 DEF Balances
<1>10. ASSUME NEW u \in Tokens
       PROVE  InAccounts(bal', u) = InAccounts(b, u) + InTrade(r, t, u)
  <2>1. \A x \in Accounts : b[x][u] \in Int /\ bal'[x][u] \in Int
    BY <1>6, <1>9 DEF Balances
  <2>2. \A x \in Accounts \ {trader} : bal'[x][u] = b[x][u]
    BY <1>9
  <2>3. InAccounts(bal', u) = InAccounts(b, u) + (bal'[trader][u] - b[trader][u])
    BY <1>3, <2>1, <2>2, OneBalanceChanges
  <2>4. bal'[trader][u] - b[trader][u] = InTrade(r, t, u)
    BY <1>3, <1>7, <1>9, <2>1
  <2> QED
    BY <2>3, <2>4
<1>11. Conserved
  <2>1. ASSUME NEW u \in Tokens PROVE Held(u)' = Held(u) /\ Held(u) \in Int
    <3>1. /\ InAccounts(bal, u) \in Int /\ InTrades(trades, u) \in Int
          /\ InAccounts(bal', u) \in Int /\ InTrades(trades', u) \in Int
      BY <1>3, <1>9, InAccountsType, InTradesType DEF TradeTables
    <3>2. DifferIn(trades, trades', trader, t) /\ trades'[trader][t] = NoTrade
      BY <1>2, <1>3 DEF TradeTables, DifferIn
    <3>3. InTrades(trades', u) = InTrades(trades, u) + (InTrade(trades'[trader][t], t, u)
                                                         - InTrade(trades[trader][t], t, u))
      BY <1>3, <3>2, OneTradeChanges
    <3>4. InAccounts(b, u) + InTrade(r, t, u) = InAccounts(bal, u) + InTrade(trade, t, u)
      BY <1>6
    <3>5. InTrade(trade, t, u) \in Int /\ InTrade(trades'[trader][t], t, u) = 0
      <4>1. InTrade(NoTrade, t, u) = 0
        BY DEF InTrade
      <4> QED
        BY <1>3, <3>2, <4>1, InTradeType
    <3>6. InAccounts(bal', u) = InAccounts(bal, u) + InTrade(trade, t, u)
      BY <1>10, <3>4
    <3> QED
      BY <3>1, <3>3, <3>5, <3>6, HeldIs
  <2>2. totalSupply' - totalSupply = 0
    BY <1>2 DEF Ledger, LedgerTyped
  <2> QED
    BY <2>1, <2>2 DEF Conserved
<1>12. LedgerTyped'
  <2>1. bal'["furnace"]["rToken"] = bal["furnace"]["rToken"]
    BY <1>3, <1>6, <1>9, AccountNames
  <2> QED
    BY <1>2, <1>9, <2>1 DEF Ledger, LedgerTyped, CanSetDistribution
<1>13. Unsettled'
  BY <1>2, <1>3 DEF Ledger, Unsettled, Open, TradeTables
<1>14. NoRSRForRToken' /\ trades'["rTokenTrader"]["rsr"] = NoTrade
  <2>1. trades["rTokenTrader"]["rsr"] = NoTrade /\ bal["rTokenTrader"]["rsr"] = 0
    BY DEF Ledger, NothingStrays, NoRSRForRToken
  <2>2. trades'["rTokenTrader"]["rsr"] = NoTrade
    BY <1>2, <1>3, <2>1, AccountNames DEF TradeTables
  <2>3. \A u \in Tokens : trades'["rTokenTrader"][u] /= NoTrade
          => trades'["rTokenTrader"][u].buy = "rToken"
    BY <1>2, <1>3, AccountNames DEF Ledger, NoRSRForRToken, Open, TradeTables
  <2>4. bal'["rTokenTrader"]["rsr"] = 0
    <3>1. b["rTokenTrader"]["rsr"] = 0 /\ "rTokenTrader" \in Accounts /\ "rsr" \in Tokens
      BY <1>6, <2>1, AccountNames
    <3>2. trader = "rTokenTrader" => InTrade(r, t, "rsr") = 0
      <4>1. trader = "rTokenTrader" => t /= "rsr" /\ trade.buy = "rToken"
        BY <1>2, <2>1 DEF Ledger, NoRSRForRToken, Open
      <4> HIDE DEF trade
      <4> QED
        BY <1>6, <4>1 DEF InTrade
    <3> QED
      BY <1>9, <3>1, <3>2
  <2> QED
    BY <2>2, <2>3, <2>4 DEF NoRSRForRToken, Open
<1> QED
  BY <1>11, <1>12, <1>13, <1>14, ConservedKeeps DEF Ledger

\* A payout of the furnace is part of what it counted last, and of the supply.
LEMMA MeltAmount ==
  ASSUME Ledger, NEW periods \in Nat, NEW amount,
         amount = ((FIX_ONE - FixPowU(FIX_ONE, FIX_ONE - ratio, periods)) * lastPayoutBal)
                    \div FIX_ONE
  PROVE  amount \in Nat /\ amount <= lastPayoutBal
<1> DEFINE q == FIX_ONE - FixPowU(FIX_ONE, FIX_ONE - ratio, periods)
<1>1. FIX_ONE \in Nat \ {0} /\ ratio \in 0..FIX_ONE /\ FIX_ONE - ratio \in 0..FIX_ONE
  BY ParameterAssumption
<1>2. FixPowU(FIX_ONE, FIX_ONE - ratio, periods) \in 0..FIX_ONE
  <2> DEFINE one == FIX_ONE
             x == FIX_ONE - ratio
  <2>1. one \in Nat \ {0} /\ x \in 0..one
    BY <1>1
  <2> HIDE DEF one, x
  <2>2. FixPowU(one, x, periods) \in 0..one
    BY <2>1, PowerOfFraction
  <2> QED
    BY <2>2 DEF one, x
<1>3. q \in Nat /\ q <= FIX_ONE
  BY <1>1, <1>2
<1>4. lastPayoutBal \in Nat
  <2>1. bal["furnace"]["rToken"] \in Nat
    BY AccountNames DEF Ledger, LedgerTyped, Balances
  <2> QED
    BY <2>1 DEF Ledger, LedgerTyped
<1> HIDE DEF q
<1>5. q * lastPayoutBal \in Nat /\ q * lastPayoutBal <= FIX_ONE * lastPayoutBal
  BY <1>1, <1>3, <1>4, ProductMono
<1> DEFINE n == q * lastPayoutBal
<1>6. n \in Nat /\ n <= FIX_ONE * lastPayoutBal /\ amount = n \div FIX_ONE
  BY <1>5 DEF q
<1> HIDE DEF n
<1>7. amount \in Nat /\ FIX_ONE * amount <= n
  BY <1>1, <1>6, FloorBounds
<1>8. FIX_ONE * amount <= FIX_ONE * lastPayoutBal
  <2>1. FIX_ONE * amount \in Int /\ FIX_ONE * lastPayoutBal \in Int
    BY <1>1, <1>4, <1>7
  <2> DEFINE y == FIX_ONE * amount
             z == FIX_ONE * lastPayoutBal
  <2>2. y \in Int /\ z \in Int /\ y <= n /\ n <= z
    BY <1>6, <1>7, <2>1
  <2> HIDE DEF y, z
  <2>3. y <= z
    BY <1>6, <2>2
  <2> QED
    BY <2>3 DEF y, z
<1> QED
  BY <1>1, <1>4, <1>7, <1>8, CancelLeq

\* Melting what the furnace has.
MeltIs(periods, amount) ==
  LET left == bal["furnace"]["rToken"] - amount
  IN /\ periods = (now - lastPayout) \div period
     /\ amount = ((FIX_ONE - FixPowU(FIX_ONE, FIX_ONE - ratio, periods)) * lastPayoutBal)
                   \div FIX_ONE
     /\ left >= 0
     /\ lastPayout' = lastPayout + periods * period
     /\ lastPayoutBal' = left
     /\ bal' = [bal EXCEPT !["furnace"]["rToken"] = left]
     /\ totalSupply' = totalSupply - amount

LEMMA MeltLedger ==
  ASSUME IInv, IInv', Ledger, Melt PROVE Ledger' /\ totalSupply' <= totalSupply
<1>1. PICK periods, amount : MeltIs(periods, amount)
  BY DEF Melt, MeltIs, LastPayoutBal
<1>2. UNCHANGED <<trades, basketsNeeded, distribution, backingBuffer, basketTimestamp, now>>
  BY DEF Melt, params, environment, basketVars
<1>3. /\ bal \in Balances /\ totalSupply \in Nat /\ trades \in TradeTables
      /\ "furnace" \in Accounts /\ "rToken" \in Tokens /\ "furnace" /= "rTokenTrader"
      /\ now \in Nat /\ lastPayout \in 0..now /\ period \in Nat \ {0}
  BY ParameterAssumption, AccountNames DEF Ledger, LedgerTyped, IInv, TradesTyped, TradeTables
<1>4. periods \in Nat /\ period * periods <= now - lastPayout
  <2>1. now - lastPayout \in Nat
    BY <1>3
  <2> DEFINE n == now - lastPayout
  <2>2. n \in Nat /\ periods = n \div period
    BY <1>1, <2>1 DEF MeltIs
  <2> HIDE DEF n
  <2>3. periods \in Nat /\ period * periods <= n
    BY <1>3, <2>2, FloorBounds
  <2> QED
    BY <2>3 DEF n
<1>5. lastPayout' \in 0..now'
  <2>1. periods * period = period * periods /\ periods * period \in Nat
    BY <1>3, <1>4
  <2>2. lastPayout' = lastPayout + periods * period
    BY <1>1 DEF MeltIs
  <2> QED
    BY <1>2, <1>3, <1>4, <2>1, <2>2
<1>6. amount \in Nat
  BY <1>1, <1>4, MeltAmount DEF MeltIs
<1> DEFINE left == bal["furnace"]["rToken"] - amount
<1>7. bal["furnace"]["rToken"] \in Nat /\ left \in Nat /\ amount <= bal["furnace"]["rToken"]
  <2>1. bal["furnace"]["rToken"] \in Nat
    BY <1>3 DEF Balances
  <2> QED
    BY <1>1, <1>6, <2>1 DEF MeltIs
<1>8. bal' \in Balances /\ \A x \in Accounts, u \in Tokens :
        bal'[x][u] = IF x = "furnace" /\ u = "rToken" THEN left ELSE bal[x][u]
  <2>1. bal' = [bal EXCEPT !["furnace"] = [bal["furnace"] EXCEPT !["rToken"] = left]]
    BY <1>1 DEF MeltIs
  <2> HIDE DEF left
  <2> QED
    BY <1>3, <1>7, <2>1 DEF Balances
<1>9. ASSUME NEW u \in Tokens
      PROVE  InAccounts(bal', u) = InAccounts(bal, u) - (IF u = "rToken" THEN amount ELSE 0)
  <2>1. \A x \in Accounts : bal[x][u] \in Int /\ bal'[x][u] \in Int
    BY <1>3, <1>8 DEF Balances
  <2>2. \A x \in Accounts \ {"furnace"} : bal'[x][u] = bal[x][u]
    BY <1>8
  <2>3. InAccounts(bal', u) = InAccounts(bal, u) + (bal'["furnace"][u] - bal["furnace"][u])
    BY <1>3, <2>1, <2>2, OneBalanceChanges
  <2>4. bal'["furnace"][u] - bal["furnace"][u] = - (IF u = "rToken" THEN amount ELSE 0)
    <3>1. bal'["furnace"][u] = IF u = "rToken" THEN left ELSE bal["furnace"][u]
      BY <1>3, <1>8
    <3> QED
      BY <1>3, <1>6, <1>7, <2>1, <3>1
  <2>5. InAccounts(bal, u) \in Int
    BY <1>3, InAccountsType
  <2> QED
    BY <1>6, <2>3, <2>4, <2>5
<1>10. amount <= totalSupply
  <2> DEFINE f == [x \in Accounts |-> bal[x]["rToken"]]
  <2>1. f \in [Accounts -> Nat] /\ f["furnace"] = bal["furnace"]["rToken"]
    BY <1>3 DEF Balances
  <2>2. InAccounts(bal, "rToken") = SumFunction(f)
    BY DEF InAccounts
  <2> HIDE DEF f
  <2>3. f["furnace"] <= SumFunction(f)
    BY <1>3, <2>1, AccountsFinite, SumAtLeast
  <2>4. InAccounts(bal, "rToken") \in Nat /\ InTrades(trades, "rToken") \in Nat
    BY <1>3, InAccountsType, InTradesType DEF TradeTables
  <2>5. totalSupply = InAccounts(bal, "rToken") + InTrades(trades, "rToken")
    BY HeldIs DEF Ledger, NothingStrays
  <2> QED
    BY <1>3, <1>6, <1>7, <2>1, <2>2, <2>3, <2>4, <2>5
<1>11. totalSupply' = totalSupply - amount /\ totalSupply' \in Nat
  BY <1>1, <1>3, <1>6, <1>10 DEF MeltIs
<1>12. Conserved
  <2>1. ASSUME NEW u \in Tokens
        PROVE  Held(u)' = Held(u) + (IF u = "rToken" THEN - amount ELSE 0)
    <3>1. InAccounts(bal, u) \in Int /\ InTrades(trades, u) \in Int
      BY <1>3, InAccountsType, InTradesType DEF TradeTables
    <3>2. InTrades(trades', u) = InTrades(trades, u)
      BY <1>2
    <3> QED
      BY <1>6, <1>9, <3>1, <3>2, HeldIs
  <2>2. totalSupply' - totalSupply = - amount
    BY <1>3, <1>6, <1>11
  <2> QED
    BY <2>1, <2>2 DEF Conserved
<1>13. LedgerTyped'
  <2>1. lastPayoutBal' \in 0..bal'["furnace"]["rToken"]
    <3>1. lastPayoutBal' = left /\ bal'["furnace"]["rToken"] = left
      BY <1>1, <1>3, <1>8 DEF MeltIs
    <3> HIDE DEF left
    <3> QED
      BY <1>7, <3>1
  <2> QED
    BY <1>2, <1>5, <1>8, <1>11, <2>1 DEF Ledger, LedgerTyped, CanSetDistribution
<1>14. bal'["rTokenTrader"]["rsr"] = bal["rTokenTrader"]["rsr"]
  BY <1>3, <1>8, AccountNames
<1>15. Unsettled' /\ NoRSRForRToken' /\ trades'["rTokenTrader"]["rsr"] = NoTrade
  BY <1>2, <1>14 DEF Ledger, Unsettled, NoRSRForRToken, NothingStrays, Open
<1>16. Ledger'
  BY <1>12, <1>13, <1>15, ConservedKeeps DEF Ledger
<1> QED
  BY <1>3, <1>6, <1>11, <1>16

LEMMA ReceiveLedger ==
  ASSUME IInv, IInv', Ledger, NEW trader \in Traders, NEW t \in Tokens, Receive(trader, t)
  PROVE  Ledger'
<1>1. PICK n \in 1..bal["public"][t] : bal' = Moved(bal, "public", trader, t, n)
  BY DEF Receive
<1>2. UNCHANGED <<trades, totalSupply, basketsNeeded, distribution, backingBuffer, lastPayout,
                  lastPayoutBal, basketTimestamp, now>> /\ ~(trader = "rTokenTrader" /\ t = "rsr")
  BY DEF Receive, params, basketVars, furnaceVars, rTokenVars
<1>3. /\ bal \in Balances /\ totalSupply \in Nat /\ trades \in TradeTables
      /\ trader \in Accounts /\ "public" \in Accounts /\ trader /= "public"
      /\ trader /= "furnace" /\ "furnace" /= "public" /\ "furnace" \in Accounts
  BY AccountNames DEF Ledger, LedgerTyped, IInv, TradesTyped, TradeTables
<1>4. n \in 0..bal["public"][t]
  BY <1>1
<1> DEFINE c == Moved(bal, "public", trader, t, n)
<1>5. /\ c \in Balances
      /\ \A x \in Accounts, u \in Tokens : c[x][u] =
           bal[x][u] + (IF u = t /\ x = trader THEN n
                        ELSE IF u = t /\ x = "public" THEN - n ELSE 0)
      /\ \A u \in Tokens : InAccounts(c, u) = InAccounts(bal, u)
  BY <1>3, <1>4, MovedConserves
<1>6. bal' = c
  BY <1>1
<1> HIDE DEF c
<1>7. Conserved
  <2>1. ASSUME NEW u \in Tokens PROVE Held(u)' = Held(u) /\ Held(u) \in Int
    <3>1. InAccounts(bal, u) \in Int /\ InTrades(trades, u) \in Int
      BY <1>3, InAccountsType, InTradesType DEF TradeTables
    <3>2. InTrades(trades', u) = InTrades(trades, u)
      BY <1>2
    <3> QED
      BY <1>5, <1>6, <3>1, <3>2, HeldIs
  <2>2. totalSupply' - totalSupply = 0
    BY <1>2, <1>3
  <2> QED
    BY <2>1, <2>2 DEF Conserved
<1>8. bal'["furnace"]["rToken"] = bal["furnace"]["rToken"]
      /\ bal'["rTokenTrader"]["rsr"] = bal["rTokenTrader"]["rsr"]
  <2>1. bal["furnace"]["rToken"] \in Nat /\ bal["rTokenTrader"]["rsr"] \in Nat
    BY <1>3, AccountNames DEF Balances
  <2>2. /\ c["furnace"]["rToken"] = bal["furnace"]["rToken"] + 0
        /\ c["rTokenTrader"]["rsr"] = bal["rTokenTrader"]["rsr"] + 0
    BY <1>2, <1>3, <1>5, AccountNames
  <2> QED
    BY <1>6, <2>1, <2>2
<1>9. LedgerTyped'
  BY <1>2, <1>5, <1>6, <1>8 DEF Ledger, LedgerTyped, CanSetDistribution
<1>10. Unsettled' /\ NoRSRForRToken' /\ trades'["rTokenTrader"]["rsr"] = NoTrade
  BY <1>2, <1>8 DEF Ledger, Unsettled, NoRSRForRToken, NothingStrays, Open
<1> QED
  BY <1>7, <1>9, <1>10, ConservedKeeps DEF Ledger

LEMMA InitLedger == Init => Ledger
<1> SUFFICES ASSUME Init PROVE Ledger
  OBVIOUS
<1>1. bal \in Balances /\ bal = InitBalances
  BY TokenAssumption DEF Init, Balances
<1>2. IInv
  BY InitIInv
<1>3. \A trader \in Traders, t \in Tokens : trades[trader][t] = NoTrade
  BY DEF Init
<1>4. ASSUME NEW t PROVE InTrades(trades, t) = 0
  <2>1. \A x \in Traders \X Tokens : InTrade(trades[x[1]][x[2]], x[2], t) = 0
    BY <1>3 DEF InTrade
  <2>2. [x \in Traders \X Tokens |-> InTrade(trades[x[1]][x[2]], x[2], t)]
          = [x \in Traders \X Tokens |-> 0]
    BY <2>1
  <2> DEFINE P == Traders \X Tokens
  <2>3. IsFiniteSet(P)
    BY AccountsFinite
  <2> HIDE DEF P
  <2>4. SumFunction([x \in P |-> 0]) = 0
    BY <2>3, SumZero
  <2> QED
    BY <2>2, <2>4 DEF InTrades, P
<1>5. ASSUME NEW t \in Tokens PROVE Held(t) = InAccounts(bal, t) /\ InAccounts(bal, t) \in Nat
  <2>1. InAccounts(bal, t) \in Nat
    BY <1>1, InAccountsType
  <2> QED
    BY <1>4, <2>1, HeldIs
<1>6. totalSupply = InAccounts(bal, "rToken") /\ "rToken" \in Tokens
  BY AccountNames DEF Init, InAccounts
<1>7. LedgerTyped
  <2>1. totalSupply \in Nat
    BY <1>5, <1>6
  <2>2. basketsNeeded \in Nat
    BY <1>1, <1>2, BasketsHeldIs DEF Init, BasketsHeld, IInv, TradesTyped
  <2>3. distribution \in [Destinations -> Share] /\ CanSetDistribution(distribution)
    BY DistributionAssumption DEF Init
  <2>4. lastPayoutBal \in 0..bal["furnace"]["rToken"]
    <3>1. bal["furnace"]["rToken"] \in Nat
      BY <1>1, AccountNames DEF Balances
    <3> QED
      BY <3>1 DEF Init
  <2>5. backingBuffer \in BackingBuffers /\ lastPayout \in 0..now /\ basketTimestamp \in 0..now
    BY DEF Init
  <2> QED
    BY <1>1, <2>1, <2>2, <2>3, <2>4, <2>5 DEF LedgerTyped
<1>8. Unsettled
  BY <1>3 DEF Unsettled, Open
<1>9. NoRSRForRToken
  BY <1>1, <1>3, TokenAssumption, AccountNames DEF NoRSRForRToken, Open
<1>10. NothingStrays
  <2>1. ASSUME NEW t \in Tokens
        PROVE  Held(t) = SumFunction([a \in Accounts |-> InitBalances[a][t]])
    BY <1>1, <1>5 DEF InAccounts
  <2>2. Held("rToken") = totalSupply
    BY <1>5, <1>6
  <2>3. trades["rTokenTrader"]["rsr"] = NoTrade
    BY <1>3, AccountNames
  <2> QED
    BY <2>1, <2>2, <2>3 DEF NothingStrays
<1> QED
  BY <1>7, <1>8, <1>9, <1>10 DEF Ledger

LEMMA NextLedger == IInv /\ Ledger /\ [Next]_vars => Ledger'
<1> SUFFICES ASSUME IInv, Ledger, [Next]_vars PROVE Ledger'
  OBVIOUS
<1>0. IInv'
  BY NextIInv
<1> DEFINE Frame ==
      /\ UNCHANGED <<bal, trades, totalSupply, basketsNeeded, lastPayout, lastPayoutBal>>
      /\ distribution' \in [Destinations -> Share] /\ CanSetDistribution(distribution)'
      /\ backingBuffer' \in BackingBuffers /\ basketTimestamp' \in 0..now' /\ now <= now'
<1>1. Frame => Ledger'
  BY <1>0, FrameLedger
<1>2. /\ distribution \in [Destinations -> Share] /\ CanSetDistribution(distribution)
      /\ backingBuffer \in BackingBuffers /\ basketTimestamp \in 0..now /\ now \in Nat
  BY ParameterAssumption DEF Ledger, LedgerTyped, IInv, TradesTyped
<1> USE DEF params, environment, basketVars, rTokenVars, furnaceVars
<1>3. ASSUME NEW erc20s \in TokenLists, ManageTokens(erc20s) PROVE Ledger'
  BY <1>0, <1>3, ManageTokensLedger
<1>4. ASSUME NEW trader \in Traders \ {"backingManager"}, NEW t \in Tokens, ManageToken(trader, t)
      PROVE  Ledger'
  BY <1>0, <1>4, ManageTokenLedger
<1>5. ASSUME NEW trader \in Traders, NEW t \in Tokens, SettleTrade(trader, t) PROVE Ledger'
  BY <1>0, <1>5, SettleTradeLedger
<1>6. ASSUME NEW trader \in Traders, NEW t \in Tokens, SettleAuction(trader, t) PROVE Ledger'
  BY <1>0, <1>6, SettleAuctionLedger
<1>7. ASSUME NEW trader \in Traders, NEW t \in Tokens, Receive(trader, t) PROVE Ledger'
  BY <1>0, <1>7, ReceiveLedger
<1>8. CASE Melt
  BY <1>0, <1>8, MeltLedger
<1>9. ASSUME NEW dist \in Distributions, SetDistribution(dist) PROVE Ledger'
  <2>1. dist \in [Destinations -> Share] /\ CanSetDistribution(dist)
    BY DistributionAssumption
  <2>2. Frame
    BY <1>2, <1>9, <2>1 DEF SetDistribution, CanSetDistribution
  <2> QED
    BY <1>1, <2>2
<1>10. ASSUME NEW val \in BackingBuffers, SetBackingBuffer(val) PROVE Ledger'
  BY <1>1, <1>2, <1>10 DEF SetBackingBuffer, CanSetDistribution
<1>11. ASSUME NEW val \in AuctionLengths, SetAuctionLength(val) PROVE Ledger'
  BY <1>1, <1>2, <1>11 DEF SetAuctionLength, CanSetDistribution
<1>12. ASSUME NEW val \in TradingDelays, SetTradingDelay(val) PROVE Ledger'
  BY <1>1, <1>2, <1>12 DEF SetTradingDelay, CanSetDistribution
<1>13. ASSUME NEW d \in BOOLEAN, SetDisabled(d) PROVE Ledger'
  BY <1>1, <1>2, <1>13 DEF SetDisabled, CanSetDistribution
<1>14. ASSUME NEW b \in Baskets \ {basket}, SwitchBasket(b) PROVE Ledger'
  BY <1>1, <1>2, <1>14 DEF SwitchBasket, CanSetDistribution
<1>15. ASSUME NEW p \in PauseStates, SetPausedOrFrozen(p) PROVE Ledger'
  BY <1>1, <1>2, <1>15 DEF SetPausedOrFrozen, CanSetDistribution
<1>16. CASE Tick
  <2>1. basketTimestamp' \in 0..now' /\ now <= now'
    BY <1>2, <1>16 DEF Tick
  <2> QED
    BY <1>1, <1>2, <1>16, <2>1 DEF Tick, CanSetDistribution
<1>17. CASE UNCHANGED vars
  BY <1>1, <1>2, <1>17 DEF vars, CanSetDistribution
<1> QED
  BY <1>3, <1>4, <1>5, <1>6, <1>7, <1>8, <1>9, <1>10, <1>11, <1>12, <1>13, <1>14, <1>15, <1>16,
     <1>17 DEF Next

\* The ledger of balances and trades is right in every behaviour.
THEOREM LedgerInvariance == Spec => []Ledger
  BY InitLedger, NextLedger, TradingInvariance, PTL DEF Spec

\* Every field keeps its type, each trader's counter counts its trades, and the furnace
\* has what its next payout is a share of (Furnace.melt(), Trading.sol).
THEOREM TradingTypeCorrect == Spec => []TypeOK
<1>1. IInv /\ Ledger => TypeOK
  BY DEF IInv, TradesTyped, Ledger, LedgerTyped, Balances, TypeOK
<1> QED
  BY <1>1, LedgerInvariance, TradingInvariance, PTL

\* No token is lost, made or paid twice, by whatever order of auctions, settlements,
\* distributions, handouts and melting, and RSR is never sold for RToken (settle(),
\* distribute(), handoutExcessAssets(), melt()).
THEOREM NothingIsLost == Spec => []NothingStrays
<1>1. Ledger => NothingStrays
  BY DEF Ledger
<1> QED
  BY <1>1, LedgerInvariance, PTL

-----------------------------------------------------------------------------
(* Backing *)

\* What BackingKept says of a step.
KeepsBacking ==
  /\ FullyCollateralized /\ basket' = basket => FullyCollateralized'
  /\ basketsNeeded' * totalSupply < basketsNeeded * totalSupply' =>
       /\ ~FullyCollateralized /\ OpenTrades("backingManager") = {}
       /\ basketsNeeded' = BasketsHeld

\* Enough of every token of the basket is enough.
LEMMA EnoughIsCollateralized ==
  ASSUME IInv, Ledger', basket' = basket, KeepsEnough PROVE FullyCollateralized'
<1> DEFINE b == bal'
<1>1. b \in Balances /\ basketsNeeded' \in Nat /\ basket \in Baskets
  BY DEF Ledger, LedgerTyped, IInv, TradesTyped
<1>2. \A t \in basket : basketsNeeded' <= b["backingManager"][t]
  BY DEF KeepsEnough
<1>3. BasketsHeldIn(b) = BasketsHeld'
  BY DEF BasketsHeld, BasketsHeldIn
<1> HIDE DEF b
<1>4. BasketsHeldIn(b) \in Nat /\ basketsNeeded' <= BasketsHeldIn(b)
  BY <1>1, <1>2, BasketsHeldIs
<1> QED
  BY <1>1, <1>3, <1>4 DEF FullyCollateralized

\* Steps that take nothing from the backing manager and mint nothing.
LEMMA QuietKeepsBacking ==
  ASSUME IInv, Ledger, Ledger', basketsNeeded' = basketsNeeded, totalSupply' <= totalSupply,
         \A t \in Tokens : bal["backingManager"][t] <= bal'["backingManager"][t]
  PROVE  KeepsBacking
<1>1. /\ bal \in Balances /\ bal' \in Balances /\ basketsNeeded \in Nat
      /\ totalSupply \in Nat /\ totalSupply' \in Nat
  BY DEF Ledger, LedgerTyped
<1>2. ASSUME FullyCollateralized, basket' = basket PROVE FullyCollateralized'
  <2>1. BasketsHeld \in Nat /\ \A t \in basket : BasketsHeld <= bal["backingManager"][t]
    BY <1>1, BasketsHeldIs DEF BasketsHeld, IInv, TradesTyped
  <2>2. basketsNeeded <= BasketsHeld
    BY <1>1, <1>2, <2>1 DEF FullyCollateralized
  <2>3. ASSUME NEW t \in basket PROVE basketsNeeded' <= bal'["backingManager"][t]
    <3>1. t \in Tokens
      BY TokenAssumption DEF IInv, TradesTyped, Tokens
    <3>2. bal["backingManager"][t] \in Nat /\ bal'["backingManager"][t] \in Nat
      BY <1>1, <3>1, AccountNames DEF Balances
    <3>3. BasketsHeld <= bal["backingManager"][t]
      BY <2>1
    <3>4. bal["backingManager"][t] <= bal'["backingManager"][t]
      BY <3>1
    <3> QED
      BY <1>1, <2>1, <2>2, <3>2, <3>3, <3>4
  <2>4. KeepsEnough
    BY <2>3 DEF KeepsEnough
  <2> QED
    BY <1>2, <2>4, EnoughIsCollateralized
<1>3. basketsNeeded * totalSupply' <= basketsNeeded' * totalSupply
      /\ basketsNeeded * totalSupply' \in Nat /\ basketsNeeded' * totalSupply \in Nat
  BY <1>1, ProductMono
<1>4. ~(basketsNeeded' * totalSupply < basketsNeeded * totalSupply')
  <2> DEFINE m == basketsNeeded * totalSupply'
             n == basketsNeeded' * totalSupply
  <2>1. m \in Nat /\ n \in Nat /\ m <= n
    BY <1>3
  <2> HIDE DEF m, n
  <2>2. ~(n < m)
    BY <2>1
  <2> QED
    BY <2>2 DEF m, n
<1> QED
  BY <1>2, <1>4 DEF KeepsBacking

LEMMA ManageTokensKeepsBacking ==
  ASSUME IInv, Ledger, Ledger', NEW erc20s, ManageTokens(erc20s) PROVE KeepsBacking
<1>1. PICK status \in CollateralStatus :
        /\ MayTrade(status)
        /\ \/ FullyCollateralized /\ HandoutExcessAssets(erc20s)
           \/ ~FullyCollateralized /\ Recollateralize(status)
  BY DEF ManageTokens
<1>2. AllUnique(erc20s)
  BY DEF ManageTokens
<1>3. basketsNeeded \in Nat /\ totalSupply \in Nat /\ basketsNeeded' \in Nat /\ totalSupply' \in Nat
  BY DEF Ledger, LedgerTyped
<1>4. CASE FullyCollateralized /\ HandoutExcessAssets(erc20s)
  <2>1. KeepsEnough /\ KeepsRate
    BY <1>2, <1>4, HandoutHandsOut
  <2>2. basket' = basket
    BY <1>4 DEF HandoutExcessAssets, environment, basketVars
  <2>3. FullyCollateralized'
    BY <2>1, <2>2, EnoughIsCollateralized
  <2> DEFINE m == basketsNeeded * totalSupply'
             n == basketsNeeded' * totalSupply
  <2>4. m <= n
    BY <2>1 DEF KeepsRate
  <2>5. m \in Nat /\ n \in Nat
    <3>1. \A x, y \in Nat : x * y \in Nat
      OBVIOUS
    <3> QED
      BY <1>3, <3>1, Zenon
  <2> HIDE DEF m, n
  <2>6. ~(n < m)
    BY <2>4, <2>5
  <2> QED
    BY <2>3, <2>6 DEF KeepsBacking, m, n
<1>5. CASE ~FullyCollateralized /\ Recollateralize(status)
  <2>1. (basketsNeeded' = basketsNeeded /\ totalSupply' = totalSupply) \/ CompromiseBasketsNeeded
    <3>1. PICK enough, top, bottom :
             \/ \E buy \in Buyable(bottom, top) : TradeSurplus(enough, buy, top, status)
             \/ \E buy \in Buyable(bottom, top) : TradeRSR(buy)
             \/ CompromiseBasketsNeeded
      BY <1>5 DEF Recollateralize
    <3>2. ASSUME NEW buy, TradeSurplus(enough, buy, top, status)
          PROVE  basketsNeeded' = basketsNeeded /\ totalSupply' = totalSupply
      BY <3>2 DEF TradeSurplus, TryTrade, rTokenVars
    <3>3. ASSUME NEW buy, TradeRSR(buy)
          PROVE  basketsNeeded' = basketsNeeded /\ totalSupply' = totalSupply
      BY <3>3 DEF TradeRSR, TryTrade, rTokenVars
    <3> QED
      BY <3>1, <3>2, <3>3
  <2>2. CASE basketsNeeded' = basketsNeeded /\ totalSupply' = totalSupply
    <3> DEFINE n == basketsNeeded * totalSupply
    <3>1. n \in Int /\ basketsNeeded' * totalSupply = n /\ basketsNeeded * totalSupply' = n
      BY <1>3, <2>2
    <3> HIDE DEF n
    <3>2. ~(n < n)
      BY <3>1
    <3> QED
      BY <1>5, <3>1, <3>2 DEF KeepsBacking
  <2>3. CASE CompromiseBasketsNeeded
    <3>1. tradesOpen["backingManager"] = 0
      BY <1>1 DEF MayTrade
    <3>2. Cardinality(OpenTrades("backingManager")) = 0
      BY <3>1, AccountNames DEF IInv, TradesCounted
    <3>3. OpenTrades("backingManager") = {}
      BY <3>2, OpenTradesFinite, FS_EmptySet
    <3>4. basketsNeeded' = BasketsHeld
      BY <2>3 DEF CompromiseBasketsNeeded
    <3> QED
      BY <1>5, <3>3, <3>4 DEF KeepsBacking
  <2> QED
    BY <2>1, <2>2, <2>3
<1> QED
  BY <1>1, <1>4, <1>5

\* Others take nothing from the backing manager.
LEMMA ManageTokenKeepsBacking ==
  ASSUME IInv, Ledger, Ledger', NEW trader \in Traders \ {"backingManager"}, NEW t \in Tokens,
         ManageToken(trader, t)
  PROVE  KeepsBacking
<1>1. bal \in Balances /\ totalSupply \in Nat /\ "backingManager" \in Accounts
      /\ trader \in Accounts /\ "backingManager" \notin Destinations
  BY AccountNames DEF Ledger, LedgerTyped
<1>2. /\ bal'["backingManager"] = bal["backingManager"]
      /\ UNCHANGED <<totalSupply, basketsNeeded>>
  <2>1. CASE Distribute(trader, t, bal[trader][t])
    BY <1>1, <2>1 DEF Distribute, rTokenVars
  <2>2. CASE SellRevenue(trader, t)
    <3>1. PICK amount, minBuy : TryTrade(trader, t, TokenToBuy(trader), amount, minBuy, bal)
      BY <2>2 DEF SellRevenue
    <3> QED
      BY <1>1, <3>1 DEF TryTrade, rTokenVars, Balances
  <2> QED
    BY <2>1, <2>2 DEF ManageToken
<1>3. \A u \in Tokens : bal["backingManager"][u] \in Int
  BY <1>1 DEF Balances
<1>4. \A u \in Tokens : bal["backingManager"][u] <= bal'["backingManager"][u]
  BY <1>2, <1>3
<1> QED
  BY <1>1, <1>2, <1>4, QuietKeepsBacking

LEMMA SettleAuctionKeepsBacking ==
  ASSUME IInv, Ledger, Ledger', NEW trader \in Traders, NEW t \in Tokens,
         SettleAuction(trader, t)
  PROVE  KeepsBacking
<1>1. bal \in Balances /\ totalSupply \in Nat /\ "backingManager" \in Accounts
  BY AccountNames DEF Ledger, LedgerTyped
<1>2. bal'["backingManager"] = bal["backingManager"] /\ UNCHANGED <<totalSupply, basketsNeeded>>
  BY <1>1 DEF SettleAuction, Paid, Balances, rTokenVars
<1>3. \A u \in Tokens : bal["backingManager"][u] \in Int
  BY <1>1 DEF Balances
<1>4. \A u \in Tokens : bal["backingManager"][u] <= bal'["backingManager"][u]
  BY <1>2, <1>3
<1> QED
  BY <1>1, <1>2, <1>4, QuietKeepsBacking

LEMMA SettleTradeKeepsBacking ==
  ASSUME IInv, Ledger, Ledger', NEW trader \in Traders, NEW t \in Tokens,
         SettleTrade(trader, t)
  PROVE  KeepsBacking
<1>1. bal \in Balances /\ totalSupply \in Nat /\ "backingManager" \in Accounts
      /\ trader \in Accounts
  BY AccountNames DEF Ledger, LedgerTyped
<1>2. PICK p \in Proceeds(trader, t) :
        bal' = [p.b EXCEPT ![trader] =
          [u \in Tokens |-> @[u] + (IF u = t THEN p.on.sellBal ELSE 0)
                                 + (IF u = p.on.buy THEN p.on.buyBal ELSE 0)]]
  BY DEF SettleTrade
<1>3. UNCHANGED <<totalSupply, basketsNeeded>>
  BY DEF SettleTrade, rTokenVars
<1>4. trades[trader][t] \in Trade
  BY DEF SettleTrade, Open, IInv, TradesTyped
<1>5. p.on.sellBal \in Nat /\ p.on.buyBal \in Nat
  <2>1. p.on \in Trade
    BY <1>4, ProceedsTyped
  <2> QED
    BY <2>1 DEF Trade
<1>6. p.b["backingManager"] = bal["backingManager"] /\ DOMAIN p.b = Accounts
  <2>1. CASE p.b = bal
    BY <1>1, <2>1 DEF Balances
  <2>2. ASSUME NEW r, p.b = Paid(t, r)
        PROVE  p.b["backingManager"] = bal["backingManager"] /\ DOMAIN p.b = Accounts
    BY <1>1, <2>2 DEF Paid, Balances
  <2>3. p.b = bal \/ \E r : p.b = Paid(t, r)
    BY <1>2 DEF Proceeds
  <2> QED
    BY <2>1, <2>2, <2>3
<1>7. \A u \in Tokens : bal["backingManager"][u] \in Nat
  BY <1>1 DEF Balances
<1>8. ASSUME NEW u \in Tokens
      PROVE  bal["backingManager"][u] <= bal'["backingManager"][u]
  <2>1. CASE trader = "backingManager"
    <3>1. bal'["backingManager"][u] =
            bal["backingManager"][u] + (IF u = t THEN p.on.sellBal ELSE 0)
                                 + (IF u = p.on.buy THEN p.on.buyBal ELSE 0)
      BY <1>1, <1>2, <1>6, <2>1
    <3> QED
      BY <1>5, <1>7, <3>1
  <2>2. CASE trader /= "backingManager"
    BY <1>1, <1>2, <1>6, <1>7, <2>2
  <2> QED
    BY <2>1, <2>2
<1> QED
  BY <1>1, <1>3, <1>8, QuietKeepsBacking

LEMMA ReceiveKeepsBacking ==
  ASSUME IInv, Ledger, Ledger', NEW trader \in Traders, NEW t \in Tokens, Receive(trader, t)
  PROVE  KeepsBacking
<1>1. PICK n \in 1..bal["public"][t] : bal' = Moved(bal, "public", trader, t, n)
  BY DEF Receive
<1>2. /\ bal \in Balances /\ totalSupply \in Nat /\ UNCHANGED <<totalSupply, basketsNeeded>>
      /\ trader \in Accounts /\ "public" \in Accounts /\ trader /= "public"
      /\ "backingManager" \in Accounts /\ "backingManager" /= "public"
  BY AccountNames DEF Ledger, LedgerTyped, Receive, rTokenVars
<1>3. n \in 0..bal["public"][t] /\ n \in Nat
  BY <1>1
<1> DEFINE c == Moved(bal, "public", trader, t, n)
<1>4. \A x \in Accounts, u \in Tokens : c[x][u] =
        bal[x][u] + (IF u = t /\ x = trader THEN n
                     ELSE IF u = t /\ x = "public" THEN - n ELSE 0)
  BY <1>2, <1>3, MovedConserves
<1>5. bal' = c
  BY <1>1
<1> HIDE DEF c
<1>6. ASSUME NEW u \in Tokens PROVE bal["backingManager"][u] <= bal'["backingManager"][u]
  <2>1. bal["backingManager"][u] \in Nat
    BY <1>2 DEF Balances
  <2> QED
    BY <1>2, <1>3, <1>4, <1>5, <2>1
<1> QED
  BY <1>2, <1>6, QuietKeepsBacking

LEMMA NextKeepsBacking ==
  ASSUME IInv, Ledger, [Next]_vars PROVE KeepsBacking
<1>0. Ledger' /\ bal \in Balances /\ totalSupply \in Nat
  BY NextLedger DEF Ledger, LedgerTyped
<1>1. UNCHANGED <<bal, totalSupply, basketsNeeded>> => KeepsBacking
  <2> SUFFICES ASSUME UNCHANGED <<bal, totalSupply, basketsNeeded>> PROVE KeepsBacking
    OBVIOUS
  <2>1. \A u \in Tokens : bal["backingManager"][u] <= bal'["backingManager"][u]
    BY <1>0, AccountNames DEF Balances
  <2> QED
    BY <1>0, <2>1, QuietKeepsBacking
<1> USE DEF rTokenVars
<1>2. ASSUME NEW erc20s \in TokenLists, ManageTokens(erc20s) PROVE KeepsBacking
  BY <1>0, <1>2, ManageTokensKeepsBacking
<1>3. ASSUME NEW trader \in Traders \ {"backingManager"}, NEW t \in Tokens, ManageToken(trader, t)
      PROVE  KeepsBacking
  BY <1>0, <1>3, ManageTokenKeepsBacking
<1>4. ASSUME NEW trader \in Traders, NEW t \in Tokens, SettleTrade(trader, t) PROVE KeepsBacking
  BY <1>0, <1>4, SettleTradeKeepsBacking
<1>5. ASSUME NEW trader \in Traders, NEW t \in Tokens, SettleAuction(trader, t) PROVE KeepsBacking
  BY <1>0, <1>5, SettleAuctionKeepsBacking
<1>6. ASSUME NEW trader \in Traders, NEW t \in Tokens, Receive(trader, t) PROVE KeepsBacking
  BY <1>0, <1>6, ReceiveKeepsBacking
<1>7. CASE Melt
  <2>1. totalSupply' <= totalSupply
    BY <1>7, MeltLedger, NextIInv
  <2>2. basketsNeeded' = basketsNeeded /\ \A t : bal'["backingManager"][t] = bal["backingManager"][t]
    BY <1>0, <1>7 DEF Melt, Balances
  <2>3. \A u \in Tokens : bal["backingManager"][u] <= bal'["backingManager"][u]
    BY <1>0, <2>2, AccountNames DEF Balances
  <2> QED
    BY <1>0, <2>1, <2>2, <2>3, QuietKeepsBacking
<1>8. CASE \/ Tick \/ UNCHANGED vars
           \/ \E d \in BOOLEAN : SetDisabled(d)
           \/ \E dist \in Distributions : SetDistribution(dist)
           \/ \E val \in TradingDelays : SetTradingDelay(val)
           \/ \E val \in BackingBuffers : SetBackingBuffer(val)
           \/ \E val \in AuctionLengths : SetAuctionLength(val)
           \/ \E b \in Baskets \ {basket} : SwitchBasket(b)
           \/ \E p \in PauseStates : SetPausedOrFrozen(p)
  BY <1>1, <1>8 DEF Tick, vars, SetDisabled, SetDistribution, SetTradingDelay,
                    SetBackingBuffer, SetAuctionLength, SwitchBasket, SetPausedOrFrozen
<1> QED
  BY <1>2, <1>3, <1>4, <1>5, <1>6, <1>7, <1>8 DEF Next

\* The backing manager gives nothing away that the RToken needs, and lets the rate of
\* baskets to RToken fall only when it has not enough and no capital is out in a trade
\* (_manageTokens(), handoutExcessAssets(), compromiseBasketsNeeded()).
THEOREM BackingIsKept == Spec => BackingKept
<1>1. IInv /\ Ledger /\ [Next]_vars =>
        [/\ FullyCollateralized /\ basket' = basket => FullyCollateralized'
         /\ basketsNeeded' * totalSupply < basketsNeeded * totalSupply' =>
              /\ ~FullyCollateralized /\ OpenTrades("backingManager") = {}
              /\ basketsNeeded' = BasketsHeld]_vars
  BY NextKeepsBacking DEF KeepsBacking
<1> QED
  BY <1>1, LedgerInvariance, TradingInvariance, PTL DEF Spec, BackingKept
=============================================================================
