------------------------------- MODULE Backtest -------------------------------
(***************************************************************************)
(* core/backtest.py: the simulation of one RSI strategy over daily closes  *)
(* (_simulate), its trade statistics (_compute_metrics) and the folds of   *)
(* walk_forward_backtest, each simulated from the initial cash.  A bar is  *)
(* one step; closes and RSI values are any of the given ones, so a run is  *)
(* any price history.  run_backtest is the case of a single fold.          *)
(*                                                                         *)
(* Money, shares and rates are fixed-point as in Portfolio, against whose  *)
(* specification the simulated orders are checked at the end.              *)
(***************************************************************************)
EXTENDS Integers

CONSTANTS
  Asset,         \* the symbol backtested
  Closes,        \* positive closing prices
  BadClose,      \* a close that is not positive
  Rsis,          \* RSI values; NoRsi where it is undefined
  NoRsi,
  Bars,          \* bars of the price history
  FoldCounts,    \* numbers of folds, 1 for run_backtest
  InitialCash,   \* initial_cash
  StopLossPct,   \* stop_loss_pct
  CommissionPM, SlippagePM, ShareScale,
  Amounts        \* the order sizes the book below may be asked for

ASSUME BacktestAssumption ==
  /\ Closes \subseteq Nat \ {0} /\ BadClose \in Int /\ BadClose <= 0
  /\ Rsis \subseteq 0..100 /\ NoRsi \notin 0..100
  /\ Bars \in Nat /\ FoldCounts \subseteq Nat \ {0}
  /\ \A n \in FoldCounts : 2 * n <= Bars
  /\ InitialCash \in Nat \ {0} /\ ShareScale \in Nat \ {0}
  /\ StopLossPct \in 1..100
  \* Commission and slippage fit into the 5 percent the allocation leaves, and a
  \* position is not stopped out by its own slippage.
  /\ CommissionPM \in 0..50 /\ SlippagePM \in 0..999
  /\ SlippagePM * 100 < StopLossPct * (1000 + SlippagePM)
  \* As in Portfolio: one unit of money buys a share quantum at every price.
  /\ \A p \in Closes : (p * (1000 + SlippagePM)) \div 1000 <= ShareScale

VARIABLES
  strategy,
  folds,      \* the number of folds
  fold,       \* the one being simulated
  bar,        \* the next bar
  done,       \* the fold has been settled
  cash,
  shares,     \* position_shares, 0 when not in a position
  entry,      \* position_price: with slippage
  cost,       \* position_cost: with commission
  bought,     \* the quote of the BUY, what _compute_metrics sees of it
  last,       \* the last close
  equity,     \* the last point of the equity curve
  realized,   \* sum of the pnl of the SELLs of the fold
  judged      \* of the last SELL: its shares, its pnl, and whether it counts as a win

btvars == <<strategy, folds, fold, bar, done, cash, shares, entry, cost, bought, last,
            equity, realized, judged>>

InPosition == shares > 0

\* n folds of equal size, the last one with the rest.
FoldStart(i) == (i - 1) * (Bars \div folds)
FoldEnd(i) == IF i < folds THEN i * (Bars \div folds) ELSE Bars

-----------------------------------------------------------------------------
(* Orders. *)

Commission(x) == (x * CommissionPM) \div 1000
BuyPx(px) == (px * (1000 + SlippagePM)) \div 1000
SellPx(px) == (px * (1000 - SlippagePM)) \div 1000
Value(n, px) == (n * px) \div ShareScale

Alloc == (cash * 95) \div 100

FreeBuy(px) ==
  /\ cash' = cash - Alloc
  /\ shares' = (Alloc * ShareScale) \div BuyPx(px)
  /\ entry' = BuyPx(px)
  /\ cost' = Alloc
  /\ bought' = px
  /\ UNCHANGED <<realized, judged>>

BuyIn(px) ==
  /\ cash' = cash - (Alloc + Commission(Alloc))
  /\ shares' = (Alloc * ShareScale) \div BuyPx(px)
  /\ entry' = BuyPx(px)
  /\ cost' = Alloc + Commission(Alloc)
  /\ bought' = px
  /\ UNCHANGED <<realized, judged>>

\* _compute_metrics judges a trade by its two quotes, with the costs of both legs.
QuoteRose(px) == px > bought
CountsAsWin(px) ==
  px * (1000 - SlippagePM) * (1000 - CommissionPM)
    > bought * (1000 + SlippagePM) * (1000 + CommissionPM)

\* The trade a SELL records.
Recorded(net, px) ==
  /\ realized' = realized + (net - cost)
  /\ judged' = [shares |-> shares, pnl |-> net - cost, win |-> CountsAsWin(px)]

SellAll(px) ==
  LET proceeds == Value(shares, SellPx(px))
      net == proceeds - Commission(proceeds)
  IN /\ cash' = cash + net
     /\ Recorded(net, px)
     /\ shares' = 0 /\ entry' = 0 /\ cost' = 0 /\ bought' = 0

NoOrder == UNCHANGED <<cash, shares, entry, cost, bought, realized, judged>>

-----------------------------------------------------------------------------
(* _simulate. *)

BuySignal(rsi) ==
  /\ rsi # NoRsi
  /\ IF strategy = "multi" THEN rsi < 28 /\ rsi < 32 ELSE rsi < 30

SellSignal(rsi) ==
  /\ rsi # NoRsi
  /\ IF strategy = "multi" THEN rsi > 72 /\ rsi > 68 ELSE rsi > 70

NeverStopped(px) == FALSE
StoppedOut(px) == InPosition /\ (entry - px) * 100 >= StopLossPct * entry

BuysBack(px) ==
  LET net == Value(shares, SellPx(px)) - Commission(Value(shares, SellPx(px)))
      alloc == ((cash + net) * 95) \div 100
  IN /\ Recorded(net, px)
     /\ cash' = cash + net - (alloc + Commission(alloc))
     /\ shares' = (alloc * ShareScale) \div BuyPx(px)
     /\ entry' = BuyPx(px) /\ cost' = alloc + Commission(alloc) /\ bought' = px

NoLockOut(px, rsi) ==
  IF StoppedOut(px) THEN IF BuySignal(rsi) THEN BuysBack(px) ELSE SellAll(px)
  ELSE IF BuySignal(rsi) /\ ~InPosition /\ cash > 1 THEN BuyIn(px)
  ELSE IF SellSignal(rsi) /\ InPosition THEN SellAll(px)
  ELSE NoOrder

\* A stop-loss exit, the signal's order, or none: a bar that stops a position out
\* does not buy again.
Order(px, rsi) ==
  IF StoppedOut(px) THEN SellAll(px)
  ELSE IF BuySignal(rsi) /\ ~InPosition /\ cash > 1 THEN BuyIn(px)
  ELSE IF SellSignal(rsi) /\ InPosition THEN SellAll(px)
  ELSE NoOrder

Bar ==
  /\ bar < FoldEnd(fold)
  /\ bar' = bar + 1
  /\ \E px \in Closes \cup {BadClose} :
       /\ last' = px
       /\ \/ /\ px <= 0
             /\ NoOrder /\ UNCHANGED equity
          \/ /\ px > 0
             /\ \E rsi \in Rsis \cup {NoRsi} : Order(px, rsi)
             /\ equity' = cash' + Value(shares', px)
  /\ UNCHANGED <<strategy, folds, fold, done>>

UnrecordedSettle ==
  /\ bar = FoldEnd(fold) /\ ~done
  /\ done' = TRUE
  /\ \/ /\ InPosition /\ last > 0 
        /\ cash' = cash + Value(shares, SellPx(last))
        /\ equity' = cash'
        /\ UNCHANGED <<shares, entry, cost, bought, realized, judged>>
     \/ ~(InPosition /\ last > 0) /\ NoOrder /\ UNCHANGED equity
  /\ UNCHANGED <<strategy, folds, fold, bar, last>>

\* After the last bar: a position is closed at its close, unless that is bad.
Settle ==
  /\ bar = FoldEnd(fold) /\ ~done
  /\ done' = TRUE
  /\ \/ InPosition /\ last > 0 /\ SellAll(last) /\ equity' = cash'
     \/ ~(InPosition /\ last > 0) /\ NoOrder /\ UNCHANGED equity
  /\ UNCHANGED <<strategy, folds, fold, bar, last>>

NoTrade == [shares |-> 0, pnl |-> 0, win |-> FALSE]

\* The next fold starts from the initial cash.
NextFold ==
  /\ done /\ fold < folds
  /\ fold' = fold + 1
  /\ bar' = FoldStart(fold + 1)
  /\ done' = FALSE
  /\ cash' = InitialCash /\ equity' = InitialCash
  /\ shares' = 0 /\ entry' = 0 /\ cost' = 0 /\ bought' = 0
  /\ last' = BadClose /\ realized' = 0 /\ judged' = NoTrade
  /\ UNCHANGED <<strategy, folds>>

Init ==
  /\ strategy \in {"simple", "multi"}
  /\ folds \in FoldCounts
  /\ fold = 1 /\ bar = 0 /\ done = FALSE
  /\ cash = InitialCash /\ equity = InitialCash
  /\ shares = 0 /\ entry = 0 /\ cost = 0 /\ bought = 0
  /\ last = BadClose /\ realized = 0 /\ judged = NoTrade

Next == Bar \/ Settle \/ NextFold

Spec == Init /\ [][Next]_btvars

-----------------------------------------------------------------------------
(* Properties. *)

\* The book the live program keeps, seen in the backtest: one symbol, never
\* saved, and a new life for every fold.
BookPositions ==
  [s \in {Asset} |->
    [shares |-> shares, avgPrice |-> entry, layers |-> IF InPosition THEN 1 ELSE 0,
     openedAt |-> 0, tpTaken |-> FALSE]]
BookWatermarks == [s \in {Asset} |-> entry]

Book == INSTANCE Portfolio WITH
  Symbols <- {Asset}, Quotes <- Closes, Fills <- Closes, SellPcts <- {100}, Days <- {0},
  InitialBalance <- InitialCash, DeathThreshold <- 0, MaxPyramidLayers <- 1,
  SaveMayFail <- TRUE,
  positions <- BookPositions, highWatermarks <- BookWatermarks,
  peakValue <- InitialCash, isDead <- FALSE, saved <- [exists |-> FALSE]

\* Every simulated order is an order of Portfolio.buy or Portfolio.sell, with the
\* same commission, slippage, share count and limits, although _simulate computes
\* them by itself: what a strategy earns in the backtest, it would have earned
\* in the live book at the same prices.
BacktestUsesBook == Book!Spec

\* The cash of a fold is what its recorded trades say: the initial cash, plus the
\* pnl of the SELLs, less the cost of the open position, the forced exit at the
\* end included.
CashIsRealized == cash + cost = InitialCash + realized

\* The prices of the two legs are rounded to a unit of money each, their totals to
\* two.
Rounding == 2 * (judged.shares \div ShareScale) + 4

\* The win rate, computed from quotes, agrees with the recorded pnl of each trade
\* (up to rounding): a trade that lost money to costs is no win.
WinsEarnMoney ==
  /\ judged.win => judged.pnl > -Rounding
  /\ judged.pnl > Rounding => judged.win

\* A bar that closes beyond the stop of a position ends without one: it is sold,
\* whatever the RSI says, and the RSI that a fall leaves oversold does not buy it
\* back on the same bar.  So a position never ends a bar that had a close with a loss
\* of the stop-loss percentage of its entry price.
StopBoundsLoss ==
  [][bar' = bar + 1 /\ last' > 0 =>
       /\ InPosition /\ (entry - last') * 100 >= StopLossPct * entry => shares' = 0
       /\ shares' > 0 => (entry' - last') * 100 < StopLossPct * entry']_btvars

\* "each run settles to cash": a finished fold holds no position, and its last
\* equity is its cash, unless the history ended in a bad close.
SettlesToCash == done /\ last > 0 => ~InPosition /\ equity = cash
=============================================================================
