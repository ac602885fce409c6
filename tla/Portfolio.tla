------------------------------ MODULE Portfolio ------------------------------
(***************************************************************************)
(* The Portfolio class of core/data.py: cash, open positions, the high     *)
(* watermark of every position, the peak value, the death flag and the     *)
(* JSON file the last successful save_state left on disk.  A method is one *)
(* action: it changes the book under one RLock, and save_state, which a    *)
(* buy or a sell calls after it has let the lock go (lines 177, 224),      *)
(* finds the same book, because only the agent's thread trades.            *)
(*                                                                         *)
(* Floating-point amounts are fixed-point integers: money in whole units,  *)
(* shares in quanta of 1/ShareScale, rates in per mille, every quotient    *)
(* rounded down.  A position with no shares stands for an absent key of    *)
(* the `positions` dict, a watermark of 0 for an absent key of             *)
(* `high_watermarks`, a quote of 0 for a symbol fetch_prices omitted.      *)
(* Spec is what the class promises to any caller: every method, with any   *)
(* argument, in any order, and a process restart between any two of them.  *)
(***************************************************************************)
EXTENDS Integers, FiniteSets, FiniteSetsExt

CONSTANTS
  Symbols,           \* the tradable symbols
  Quotes,            \* the positive prices a feed may report
  Fills,             \* the prices a caller may trade at: quotes, with slippage
  Amounts,           \* the order sizes a caller may ask for
  SellPcts,          \* the percentages a caller may ask to sell
  Days,              \* the calendar days of the run, an initial part of Nat
  InitialBalance,    \* config.INITIAL_BALANCE
  DeathThreshold,    \* config.DEATH_THRESHOLD
  MaxPyramidLayers,  \* config.MAX_PYRAMID_LAYERS
  CommissionPM,      \* config.COMMISSION_PCT, in per mille
  SlippagePM,        \* config.SLIPPAGE_PCT, in per mille
  ShareScale,        \* share quanta per share
  SaveMayFail        \* whether writing the state file may raise

ASSUME PortfolioAssumption ==
  /\ IsFiniteSet(Symbols)
  /\ Quotes \subseteq Nat \ {0}
  /\ Fills \subseteq Nat \ {0}
  /\ (IsFiniteSet(Amounts) /\ Amounts \subseteq Nat) \/ Amounts = Nat
  /\ SellPcts \subseteq Nat
  /\ Days \subseteq Nat
  /\ InitialBalance \in Nat \ {0}
  /\ DeathThreshold \in Nat
  /\ MaxPyramidLayers \in Nat \ {0}
  /\ CommissionPM \in 0..1000
  /\ SlippagePM \in 0..999
  /\ SaveMayFail \in BOOLEAN

\* The smallest order the class accepts (one unit of money) buys at least one
\* share quantum at every fill, so rounding never turns a BUY into nothing.
ASSUME ShareScaleAssumption ==
  /\ ShareScale \in Nat \ {0}
  /\ \A p \in Fills : (p * (1000 + SlippagePM)) \div 1000 <= ShareScale

NoQuote == 0

VARIABLES
  cash,
  positions,       \* symbol -> [shares, avgPrice, layers, openedAt, tpTaken]
  highWatermarks,  \* symbol -> highest quote seen since the position opened
  peakValue,
  isDead,
  saved            \* the state file, or NoFile before the first save

pvars == <<cash, positions, highWatermarks, peakValue, isDead, saved>>

NoPosition ==
  [shares |-> 0, avgPrice |-> 0, layers |-> 0, openedAt |-> 0, tpTaken |-> FALSE]

Position ==
  [shares : Nat, avgPrice : Nat, layers : 0..MaxPyramidLayers,
   openedAt : Nat, tpTaken : BOOLEAN]

NoFile == [exists |-> FALSE]

Held == {s \in Symbols : positions[s].shares > 0}

-----------------------------------------------------------------------------
(* Arithmetic of an order. *)

Commission(x) == (x * CommissionPM) \div 1000
AllCash == cash
MaxAffordable == (cash * 1000) \div (1000 + CommissionPM)
BuyPx(px) == (px * (1000 + SlippagePM)) \div 1000
SellPx(px) == (px * (1000 - SlippagePM)) \div 1000
Worth(shares, px) == (shares * px) \div ShareScale

\* An order is cut to what cash covers once the commission is reserved.
Spend(amount) == IF amount <= MaxAffordable THEN amount ELSE MaxAffordable
SharesFor(spend, px) == (spend * ShareScale) \div BuyPx(px)
SharesSold(s, pct) == (positions[s].shares * pct) \div 100
Proceeds(s, pct, px) == Worth(SharesSold(s, pct), SellPx(px))

\* A symbol without a quote is valued at its average entry price.
MarkPrice(s, prices) ==
  IF prices[s] = NoQuote THEN positions[s].avgPrice ELSE prices[s]

TotalValue(prices) ==
  cash + MapThenSumSet(LAMBDA s : Worth(positions[s].shares, MarkPrice(s, prices)), Held)

-----------------------------------------------------------------------------
(* Operations. *)

\* save_state: written to a temporary file and renamed over the old one, so the
\* file is either the new snapshot or the previous one.  Watermarks are kept
\* for open positions only; isDead is not saved.
SaveState ==
  \/ saved' = [exists |-> TRUE,
               cash |-> cash',
               positions |-> positions',
               highWatermarks |->
                 [s \in Symbols |-> IF positions'[s].shares > 0
                                    THEN highWatermarks'[s] ELSE 0],
               peakValue |-> peakValue']
  \/ /\ SaveMayFail
     /\ UNCHANGED saved

\* When Portfolio.buy succeeds: a valid price, at least one unit of money to
\* spend and, on a pyramid add, a layer to spare.
CanBuy(s, amount, px) ==
  /\ px > 0
  /\ Spend(amount) >= 1
  /\ s \in Held => positions[s].layers < MaxPyramidLayers

\* The share-weighted average entry price after adding to position p.
AverageOverOldShares(p, bought, px) ==
  (p.shares * p.avgPrice + bought * BuyPx(px)) \div p.shares
AveragePrice(p, bought, px) ==
  (p.shares * p.avgPrice + bought * BuyPx(px)) \div (p.shares + bought)

Pyramided(p, bought, px) ==
  [shares |-> p.shares + bought, avgPrice |-> AveragePrice(p, bought, px),
   layers |-> p.layers + 1, openedAt |-> p.openedAt, tpTaken |-> p.tpTaken]

Opened(bought, px, day) ==
  [shares |-> bought, avgPrice |-> BuyPx(px), layers |-> 1,
   openedAt |-> day, tpTaken |-> FALSE]

\* A watermark only rises; a missing quote is below every mark.
FollowQuote(high, quote) == IF quote = NoQuote THEN high ELSE quote
Raised(high, quote) == IF quote > high THEN quote ELSE high

\* Portfolio.buy, success path.
Buy(s, amount, px, day) ==
  LET spend == Spend(amount)
      bought == SharesFor(spend, px)
  IN /\ CanBuy(s, amount, px)
     /\ cash' = cash - (spend + Commission(spend))
     /\ IF s \in Held
        THEN /\ positions' = [positions EXCEPT ![s] = Pyramided(@, bought, px)]
             /\ UNCHANGED highWatermarks
        ELSE /\ positions' = [positions EXCEPT ![s] = Opened(bought, px, day)]
             /\ highWatermarks' = [highWatermarks EXCEPT ![s] = Raised(@, BuyPx(px))]
     /\ UNCHANGED <<peakValue, isDead>>
     /\ SaveState

\* When Portfolio.sell succeeds.
CanSell(s, pct, px) ==
  /\ px > 0
  /\ 0 < pct /\ pct <= 100
  /\ s \in Held

WatermarksKept(s, pct) == highWatermarks
WatermarksAfterSell(s, pct) ==
  IF pct >= 100 THEN [highWatermarks EXCEPT ![s] = 0] ELSE highWatermarks

\* Portfolio.sell, success path: a full exit drops the position and its
\* watermark, a partial one keeps layers, average price and watermark.
Sell(s, pct, px) ==
  LET proceeds == Proceeds(s, pct, px)
  IN /\ CanSell(s, pct, px)
     /\ cash' = cash + (proceeds - Commission(proceeds))
     /\ positions' = IF pct >= 100
                     THEN [positions EXCEPT ![s] = NoPosition]
                     ELSE [positions EXCEPT ![s].shares = @ - SharesSold(s, pct)]
     /\ highWatermarks' = WatermarksAfterSell(s, pct)
     /\ UNCHANGED <<peakValue, isDead>>
     /\ SaveState

MarkForgotten(s) == s \in Held /\ UNCHANGED pvars

\* mark_take_profit changes memory only: no save follows it.
MarkTakeProfit(s) ==
  /\ s \in Held
  /\ positions' = [positions EXCEPT ![s].tpTaken = TRUE]
  /\ UNCHANGED <<cash, highWatermarks, peakValue, isDead, saved>>

\* update_watermarks, also memory only.
UpdateWatermarks(prices) ==
  /\ highWatermarks' =
       [s \in Symbols |-> IF s \in Held THEN Raised(highWatermarks[s], prices[s])
                          ELSE highWatermarks[s]]
  /\ UNCHANGED <<cash, positions, peakValue, isDead, saved>>

\* record_value (the value_history it appends to is display data).
RecordValue(prices) ==
  /\ peakValue' = IF TotalValue(prices) > peakValue
                  THEN TotalValue(prices) ELSE peakValue
  /\ UNCHANGED <<cash, positions, highWatermarks, isDead, saved>>

CheckDeath(prices) ==
  /\ isDead' = (TotalValue(prices) < DeathThreshold)
  /\ UNCHANGED <<cash, positions, highWatermarks, peakValue, saved>>

FreshBook ==
  /\ cash' = InitialBalance
  /\ positions' = [s \in Symbols |-> NoPosition]
  /\ highWatermarks' = [s \in Symbols |-> 0]
  /\ peakValue' = InitialBalance

LoadedBook ==
  /\ cash' = saved.cash
  /\ positions' = saved.positions
  /\ highWatermarks' =
       [s \in Symbols |-> IF saved.positions[s].shares > 0
                          THEN saved.highWatermarks[s] ELSE 0]
  /\ peakValue' = saved.peakValue

\* The process stops, at any point, and starts again: Portfolio() then
\* load_state() in start_controller.
Restart ==
  /\ IF saved.exists THEN LoadedBook ELSE FreshBook
  /\ isDead' = FALSE
  /\ UNCHANGED saved

-----------------------------------------------------------------------------
Init ==
  /\ cash = InitialBalance
  /\ positions = [s \in Symbols |-> NoPosition]
  /\ highWatermarks = [s \in Symbols |-> 0]
  /\ peakValue = InitialBalance
  /\ isDead = FALSE
  /\ saved = NoFile

PriceTables == [Symbols -> Quotes \cup {NoQuote}]

Trade ==
  \E s \in Symbols, px \in Fills :
    \/ \E a \in Amounts, d \in Days : Buy(s, a, px, d)
    \/ \E pct \in SellPcts : Sell(s, pct, px)

Next ==
  \/ Trade
  \/ \E s \in Symbols : MarkTakeProfit(s)
  \/ \E prices \in PriceTables :
       \/ UpdateWatermarks(prices)
       \/ RecordValue(prices)
       \/ CheckDeath(prices)
  \/ Restart

Spec == Init /\ [][Next]_pvars

-----------------------------------------------------------------------------
(* Properties. *)

BookType(c, p, hw) ==
  /\ c \in Nat
  /\ p \in [Symbols -> Position]
  /\ hw \in [Symbols -> Nat]

\* The type invariant of the book and of its copy on disk.  That cash is a
\* natural number is the solvency of the account: no sequence of orders, with
\* any commission, overdraws it.
LedgerTypeOK ==
  /\ BookType(cash, positions, highWatermarks)
  /\ isDead \in BOOLEAN
  /\ \/ saved = NoFile
     \/ /\ saved.exists
        /\ BookType(saved.cash, saved.positions, saved.highWatermarks)

\* The whole type invariant: LedgerTypeOK and the peak, a sum over positions.
TypeOK ==
  /\ LedgerTypeOK
  /\ peakValue \in Nat
  /\ saved.exists => saved.peakValue \in Nat

Consistent(p, hw) ==
  \A s \in Symbols :
    /\ p[s].shares = 0 => p[s] = NoPosition /\ hw[s] = 0
    /\ p[s].shares > 0 => p[s].layers >= 1 /\ p[s].avgPrice > 0 /\ hw[s] > 0

\* A position and its watermark live and die together, in memory and on disk:
\* a closed position leaves no watermark behind for the next position on the
\* same symbol to inherit (it would be stopped out at once), an open one has a
\* watermark (or its trailing stop would fall back to the entry price), between
\* one and MaxPyramidLayers layers and a positive average price.
BookConsistent ==
  /\ Consistent(positions, highWatermarks)
  /\ saved.exists => Consistent(saved.positions, saved.highWatermarks)

\* No order makes money by itself: whatever the price, a BUY or a SELL leaves
\* cash plus the position marked at that price no higher than before (up to
\* one unit, the rounding of the fixed-point sum).  A slippage applied on the
\* wrong side, or a commission credited, breaks it.
TradesNeverCreateValue ==
  [][\A s \in Symbols : positions'[s].shares # positions[s].shares =>
       \A px \in Fills :
         (\/ \E a \in Amounts, d \in Days : Buy(s, a, px, d)
          \/ \E pct \in SellPcts : Sell(s, pct, px))
         => cash' + Worth(positions'[s].shares, px)
              <= cash + Worth(positions[s].shares, px) + 1]_pvars

\* An average entry price stays between the lowest and the highest fill the
\* symbol has had: pyramiding never moves the basis outside the range of the
\* old average and the new fill.
AverageBetweenFills ==
  [][\A s \in Held : positions'[s].shares > positions[s].shares =>
       \A px \in Fills, a \in Amounts, d \in Days :
       Buy(s, a, px, d)
       => LET old == positions[s].avgPrice
              new == positions'[s].avgPrice
          IN \/ old <= new /\ new <= BuyPx(px)
             \/ BuyPx(px) <= new /\ new <= old]_pvars

\* A watermark of a position that stays open never goes down within one life
\* of the process: neither a pyramid add nor a partial sale lowers the level
\* the trailing stop is measured from.
WatermarkNeverLowered ==
  [][~Restart => \A s \in Symbols :
       s \in Held /\ s \in Held' => highWatermarks'[s] >= highWatermarks[s]]_pvars
=============================================================================
