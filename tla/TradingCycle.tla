---------------------------- MODULE TradingCycle ----------------------------
(***************************************************************************)
(* One agent cycle after another over the Portfolio: fetch_data,           *)
(* risk_check, then execute or skip with the exit-guard sweep both of them *)
(* run, record_value, check_death and save_memory (agents/shared/nodes.py, *)
(* driven by runtime/controller.py).  A single thread runs the cycle, so   *)
(* the interleavings that matter are process stops: every write to the     *)
(* state file and every INSERT into the trades table is a step of its own, *)
(* and Reboot may come between any two of them.                            *)
(*                                                                         *)
(* The decision the arbitrator hands to risk_check is any decision: the    *)
(* guards must hold whatever the specialists vote.                         *)
(***************************************************************************)
EXTENDS Portfolio

CONSTANTS
  NoSymbol,           \* the empty symbol of a HOLD
  Allocs,             \* allocation_pct values a decision may carry
  EarningsStates,     \* situations of the earnings calendar
  VolFactors,         \* volatility sizing factors, in percent
  SlipPM,             \* random fill slippage, in per mille of the quote
  OneDollar,          \* the price 1.0, below which a quote is suspect
  MaxPositions,       \* config.MAX_POSITIONS
  MaxAllocPct,        \* config.MAX_ALLOC_PCT
  StopLossPct,        \* config.STOP_LOSS_PCT
  TakeProfitPct,      \* config.TAKE_PROFIT_PCT
  TakeProfitSellPct,  \* config.TAKE_PROFIT_SELL_PCT
  TimeStopDays,       \* config.TIME_STOP_DAYS
  TimeStopBandPct,    \* config.TIME_STOP_BAND_PCT
  MaxDrawdownPct,     \* config.MAX_DRAWDOWN_BLOCK_PCT
  InsertMayFail,      \* whether an INSERT may give up after its retries
  MaxCycles,          \* bound on the cycles of one behaviour
  MaxRestarts         \* bound on the process stops of one behaviour

ASSUME CycleAssumption ==
  /\ NoSymbol \notin Symbols
  /\ Allocs \subseteq Nat
  /\ EarningsStates \subseteq {"clear", "week", "imminent"}
  /\ VolFactors \subseteq {50, 75, 100}
  /\ SlipPM \subseteq -999..1000
  /\ \A q \in Quotes, d \in SlipPM : (q * (1000 + d)) \div 1000 \in Fills
  /\ OneDollar \in Nat
  /\ StopLossPct \in Nat
  /\ MaxPositions \in Nat
  /\ MaxAllocPct \in Nat
  /\ TakeProfitSellPct \in 1..99
  /\ {100, TakeProfitSellPct} \subseteq SellPcts
  /\ Amounts = Nat
  /\ MaxCycles \in Nat /\ MaxRestarts \in Nat
  /\ InsertMayFail \in BOOLEAN

VARIABLES
  phase,      \* the graph node about to run
  prices,     \* the quotes of this cycle
  decision,   \* the arbitrated decision, then risk_check's verdict on it
  pv,         \* portfolio value execute read before the sweep
  unlogged,   \* a trade made but not yet in the trades table, or NoTrade
  ledger,     \* cash implied by the trades rows of this portfolio's life
  day,
  cycle, restarts,
  \* History, read by the properties only.
  rowLost,    \* some trade of this life never reached the trades table
  takeProfits \* take-profit sales of each open position

cvars == <<phase, prices, decision, pv, unlogged, ledger, day, cycle, restarts,
           rowLost, takeProfits>>
vars == <<pvars, cvars>>

NoPrices == [s \in Symbols |-> NoQuote]
NoTrade == [kind |-> "none"]

Hold == [action |-> "HOLD", symbol |-> NoSymbol, alloc |-> 0, sellPct |-> 100,
         passed |-> FALSE]

Decisions ==
  {Hold}
  \cup [action : {"BUY"}, symbol : Symbols, alloc : Allocs, sellPct : {100},
        passed : {FALSE}]
  \cup [action : {"SELL"}, symbol : Symbols, alloc : {0}, sellPct : SellPcts,
        passed : {FALSE}]

FillPrices(q) == {(q * (1000 + d)) \div 1000 : d \in SlipPM}

\* A fill costs far less than the stop-loss distance: a position is not past its
\* trailing stop the moment it is opened.
ASSUME SlippageAssumption ==
  \A q \in Quotes : \A px \in FillPrices(q) :
    (BuyPx(px) - q) * 100 < StopLossPct * BuyPx(px)

GoTo(p) == phase' = p

-----------------------------------------------------------------------------
(* fetch_data.  A feed may omit any symbol; time passes between cycles.    *)

RunsRegardless == TRUE
MayRun == ~isDead

FetchData ==
  /\ phase = "fetch_data"
  /\ MayRun
  /\ cycle < MaxCycles
  /\ prices' \in PriceTables
  /\ day' \in {d \in Days : d >= day}
  /\ cycle' = cycle + 1
  /\ GoTo("risk_check")
  /\ UNCHANGED <<pvars, decision, pv, unlogged, ledger, restarts, rowLost,
                 takeProfits>>

-----------------------------------------------------------------------------
(* risk_check. *)

\* A damping factor lowers the allocation but not below 5%.
Damped(alloc, factor) ==
  LET scaled == (alloc * factor) \div 100
      floored == IF scaled > 5 THEN scaled ELSE 5
  IN IF floored < alloc THEN floored ELSE alloc

Unclamped(alloc) == alloc
Clamped(alloc) == IF alloc > MaxAllocPct THEN MaxAllocPct ELSE alloc

\* Clamp, then the earnings-week and the volatility damping.
SizedAlloc(alloc, earnings, vol) ==
  Damped(Damped(Clamped(alloc), IF earnings = "week" THEN 65 ELSE 100), vol)

OrderAmount(value, alloc) == (value * alloc) \div 100

\* A pyramid add may take the position to 1.5 times MaxAllocPct at most.
UncappedPyramid(s, alloc, value) == TRUE
WithinPyramidCap(s, alloc, value) ==
  (Worth(positions[s].shares, prices[s]) * 100 + alloc * value) * 2
    <= 3 * MaxAllocPct * value

UncappedPositions(s) == TRUE
RoomFor(s) == s \in Held \/ Cardinality(Held) < MaxPositions

BuyPasses(s, alloc, earnings) ==
  LET value == TotalValue(prices)
  IN /\ earnings # "imminent"
     /\ OrderAmount(value, alloc) <= cash
     /\ s \in Held => /\ positions[s].layers < MaxPyramidLayers
                      /\ WithinPyramidCap(s, alloc, value)
     /\ RoomFor(s)
     /\ prices[s] # NoQuote
     /\ value * 10 >= InitialBalance * 7

SellPasses(s, pct) ==
  /\ s \in Held
  /\ 0 < pct /\ pct <= 100
  /\ prices[s] # NoQuote

Passes(d, earnings) ==
  CASE d.action = "BUY"  -> BuyPasses(d.symbol, d.alloc, earnings)
    [] d.action = "SELL" -> SellPasses(d.symbol, d.sellPct)
    [] OTHER             -> TRUE

\* A rejected decision is only a reason to log: it is reset to Hold here.
RiskCheck ==
  /\ phase = "risk_check"
  /\ \E d \in Decisions, earnings \in EarningsStates, vol \in VolFactors :
       LET sized == IF d.action = "BUY"
                    THEN [d EXCEPT !.alloc = SizedAlloc(@, earnings, vol)] ELSE d
       IN decision' = IF Passes(sized, earnings)
                      THEN [sized EXCEPT !.passed = TRUE] ELSE Hold
  /\ GoTo("start_node")
  /\ UNCHANGED <<pvars, prices, pv, unlogged, ledger, day, cycle, restarts, rowLost,
                 takeProfits>>

-----------------------------------------------------------------------------
(* execute and skip both begin with _run_exit_guards; execute reads the    *)
(* portfolio value it sizes orders with before the sweep sells anything.   *)

SweepOnlyOnPass == IF decision.passed THEN "stops" ELSE "record_value"
FirstStep == "stops"

StartNode ==
  /\ phase = "start_node"
  /\ pv' = IF decision.passed THEN TotalValue(prices) ELSE 0
  /\ UpdateWatermarks(prices)
  /\ GoTo(FirstStep)
  /\ UNCHANGED <<prices, decision, unlogged, ledger, day, cycle, restarts, rowLost,
                 takeProfits>>

\* A quote of at most one dollar is believed only for a position opened at
\* such a price.
Plausible(s) ==
  prices[s] > OneDollar \/ (positions[s].avgPrice <= OneDollar /\ prices[s] > 0)

TrailingHigh(s) ==
  IF highWatermarks[s] > 0 THEN highWatermarks[s] ELSE positions[s].avgPrice

StopTriggered(s) ==
  /\ s \in Held
  /\ prices[s] # NoQuote
  /\ Plausible(s)
  /\ (TrailingHigh(s) - prices[s]) * 100 >= StopLossPct * TrailingHigh(s)

\* (price / avg - 1) compared with a percentage, cross-multiplied.
GainAtLeast(s, pct) ==
  (prices[s] - positions[s].avgPrice) * 100 >= pct * positions[s].avgPrice

GainWithin(s, pct) ==
  /\ (prices[s] - positions[s].avgPrice) * 100 < pct * positions[s].avgPrice
  /\ (positions[s].avgPrice - prices[s]) * 100 < pct * positions[s].avgPrice

TakeProfitDue(s) ==
  /\ s \in Held
  /\ prices[s] # NoQuote
  /\ GainAtLeast(s, TakeProfitPct)
  /\ ~positions[s].tpTaken

TimeStopDue(s) ==
  /\ s \in Held
  /\ prices[s] # NoQuote
  /\ ~TakeProfitDue(s)
  /\ GainWithin(s, TimeStopBandPct)
  /\ day - positions[s].openedAt > TimeStopDays

SaleRow(kind, s, pct, px) ==
  [kind |-> kind, symbol |-> s, action |-> "SELL", amount |-> Proceeds(s, pct, px)]

\* A sale of the sweep: Portfolio.sell, then _persist_auto_exit (InsertRow).
SweepSale(kind, s, pct) ==
  \E px \in FillPrices(prices[s]) :
    /\ Sell(s, pct, px)
    /\ unlogged' = SaleRow(kind, s, pct, px)

StopOut(s) ==
  /\ phase = "stops" /\ unlogged = NoTrade
  /\ StopTriggered(s)
  /\ SweepSale("stop", s, 100)
  /\ takeProfits' = [takeProfits EXCEPT ![s] = 0]
  /\ UNCHANGED <<phase, prices, decision, pv, ledger, day, cycle, restarts, rowLost>>

EndStops ==
  /\ phase = "stops" /\ unlogged = NoTrade
  /\ \A s \in Symbols : ~StopTriggered(s)
  /\ GoTo("exits")
  /\ UNCHANGED <<pvars, prices, decision, pv, unlogged, ledger, day, cycle, restarts,
                 rowLost, takeProfits>>

TakeProfit(s) ==
  /\ phase = "exits" /\ unlogged = NoTrade
  /\ TakeProfitDue(s)
  /\ SweepSale("take_profit", s, TakeProfitSellPct)
  /\ takeProfits' = [takeProfits EXCEPT ![s] = @ + 1]
  /\ GoTo("mark")
  /\ UNCHANGED <<prices, decision, pv, ledger, day, cycle, restarts, rowLost>>

\* mark_take_profit follows the sale, and so the sale's save_state.
Mark(s) ==
  /\ phase = "mark"
  /\ unlogged.symbol = s
  /\ MarkTakeProfit(s)
  /\ GoTo("exits")
  /\ UNCHANGED <<prices, decision, pv, unlogged, ledger, day, cycle, restarts, rowLost,
                 takeProfits>>

TimeStop(s) ==
  /\ phase = "exits" /\ unlogged = NoTrade
  /\ TimeStopDue(s)
  /\ SweepSale("time_stop", s, 100)
  /\ takeProfits' = [takeProfits EXCEPT ![s] = 0]
  /\ UNCHANGED <<phase, prices, decision, pv, ledger, day, cycle, restarts, rowLost>>

EndExits ==
  /\ phase = "exits" /\ unlogged = NoTrade
  /\ \A s \in Symbols : ~TakeProfitDue(s) /\ ~TimeStopDue(s)
  /\ GoTo(IF decision.passed THEN "act" ELSE "record_value")
  /\ UNCHANGED <<pvars, prices, decision, pv, unlogged, ledger, day, cycle, restarts,
                 rowLost, takeProfits>>

-----------------------------------------------------------------------------
(* The arbitrated decision itself. *)

DecidedAmount == OrderAmount(pv, Clamped(decision.alloc))

InDrawdown == (peakValue - pv) * 100 >= MaxDrawdownPct * peakValue

ActUnchanged == UNCHANGED <<prices, decision, pv, ledger, day, cycle, restarts, rowLost>>

\* HOLD, a BUY stopped by the drawdown guard, a BUY the portfolio refuses, or a
\* SELL of what the sweep has just sold: nothing is traded.
ActWithoutTrade ==
  /\ phase = "act"
  /\ \/ decision.action = "HOLD"
     \/ /\ decision.action = "BUY"
        /\ \/ InDrawdown
           \/ \E px \in FillPrices(prices[decision.symbol]) :
                ~CanBuy(decision.symbol, DecidedAmount, px)
     \/ /\ decision.action = "SELL"
        /\ decision.symbol \notin Held
  /\ GoTo("record_value")
  /\ UNCHANGED <<pvars, unlogged, takeProfits>>
  /\ ActUnchanged

ActBuy ==
  /\ phase = "act"
  /\ decision.action = "BUY"
  /\ ~InDrawdown
  /\ \E px \in FillPrices(prices[decision.symbol]) :
       LET amount == DecidedAmount
       IN /\ Buy(decision.symbol, amount, px, day)
          /\ unlogged' = [kind |-> "decision", symbol |-> decision.symbol,
                           action |-> "BUY", amount |-> Spend(amount)]
  /\ GoTo("record_value")
  /\ UNCHANGED takeProfits
  /\ ActUnchanged

ActSell ==
  /\ phase = "act"
  /\ decision.action = "SELL"
  /\ \E px \in FillPrices(prices[decision.symbol]) :
       /\ Sell(decision.symbol, decision.sellPct, px)
       /\ unlogged' = SaleRow("decision", decision.symbol, decision.sellPct, px)
  /\ takeProfits' = IF decision.sellPct = 100
                    THEN [takeProfits EXCEPT ![decision.symbol] = 0] ELSE takeProfits
  /\ GoTo("record_value")
  /\ ActUnchanged

Record ==
  /\ phase = "record_value"
  /\ RecordValue(prices)
  /\ GoTo("check_death")
  /\ UNCHANGED <<prices, decision, pv, unlogged, ledger, day, cycle, restarts, rowLost,
                 takeProfits>>

Death ==
  /\ phase = "check_death"
  /\ CheckDeath(prices)
  /\ GoTo("save_memory")
  /\ UNCHANGED <<prices, decision, pv, unlogged, ledger, day, cycle, restarts, rowLost,
                 takeProfits>>

\* The cycle is over; _agent_loop starts another unless the portfolio is dead.
EndCycle ==
  /\ phase = "save_memory" /\ unlogged = NoTrade
  /\ GoTo("fetch_data")
  /\ prices' = NoPrices /\ decision' = Hold /\ pv' = 0
  /\ UNCHANGED <<pvars, unlogged, ledger, day, cycle, restarts, rowLost, takeProfits>>

-----------------------------------------------------------------------------
(* The trades table, and what _reconcile_portfolio_state replays of it.    *)

GrossEffect(row) == IF row.action = "BUY" THEN -row.amount ELSE row.amount
CashEffect(row) ==
  IF row.action = "BUY" THEN -(row.amount + Commission(row.amount))
                        ELSE row.amount - Commission(row.amount)

\* _persist_auto_exit, or save_memory for the decided trade.
InsertRow ==
  /\ unlogged # NoTrade
  /\ phase = IF unlogged.kind = "decision" THEN "save_memory"
             ELSE IF unlogged.kind = "stop" THEN "stops" ELSE "exits"
  /\ unlogged' = NoTrade
  /\ \/ /\ ledger' = ledger + CashEffect(unlogged)
        /\ UNCHANGED rowLost
     \/ /\ InsertMayFail
        /\ rowLost' = TRUE
        /\ UNCHANGED ledger
  /\ UNCHANGED <<pvars, phase, prices, decision, pv, day, cycle, restarts, takeProfits>>

-----------------------------------------------------------------------------
\* The process stops and start_controller runs again.  Without a state file the
\* portfolio starts a new life (created_at is now), whose ledger is empty.
Reboot ==
  /\ restarts < MaxRestarts
  /\ Restart
  /\ restarts' = restarts + 1
  /\ GoTo("fetch_data")
  /\ prices' = NoPrices /\ decision' = Hold /\ pv' = 0 /\ unlogged' = NoTrade
  /\ ledger' = IF saved.exists THEN ledger ELSE InitialBalance
  /\ rowLost' = (saved.exists /\ (rowLost \/ unlogged # NoTrade))
  /\ takeProfits' = [s \in Symbols |-> IF positions'[s].shares > 0
                                       THEN takeProfits[s] ELSE 0]
  /\ UNCHANGED <<day, cycle>>

CycleInit ==
  /\ Init
  /\ phase = "fetch_data"
  /\ prices = NoPrices
  /\ decision = Hold
  /\ pv = 0
  /\ unlogged = NoTrade
  /\ ledger = InitialBalance
  /\ day \in {d \in Days : \A e \in Days : d <= e}
  /\ cycle = 0 /\ restarts = 0
  /\ rowLost = FALSE
  /\ takeProfits = [s \in Symbols |-> 0]

CycleNext ==
  \/ FetchData \/ RiskCheck \/ StartNode
  \/ \E s \in Symbols : StopOut(s) \/ TakeProfit(s) \/ Mark(s) \/ TimeStop(s)
  \/ EndStops \/ EndExits
  \/ ActWithoutTrade \/ ActBuy \/ ActSell
  \/ Record \/ Death \/ EndCycle
  \/ InsertRow
  \/ Reboot

CycleSpec == CycleInit /\ [][CycleNext]_vars

-----------------------------------------------------------------------------
(* Properties. *)

Phases == {"fetch_data", "risk_check", "start_node", "stops", "exits", "mark", "act",
           "record_value", "check_death", "save_memory"}

Rows ==
  [kind : {"stop", "take_profit", "time_stop", "decision"}, symbol : Symbols,
   action : {"BUY", "SELL"}, amount : Nat]

\* The type invariant of the cycle; a decision that passed risk_check carries an
\* allocation within MaxAllocPct and names a symbol unless it is a HOLD.
CycleTypeOK ==
  /\ LedgerTypeOK
  /\ phase \in Phases
  /\ prices \in PriceTables
  /\ decision.action \in {"HOLD", "BUY", "SELL"}
  /\ decision.action # "HOLD" => decision.symbol \in Symbols
  /\ decision.action = "BUY" => decision.alloc \in 0..MaxAllocPct
  /\ unlogged \in Rows \cup {NoTrade}
  /\ ledger \in Int
  /\ day \in Days
  /\ cycle \in 0..MaxCycles /\ restarts \in 0..MaxRestarts
  /\ rowLost \in BOOLEAN
  /\ takeProfits \in [Symbols -> Nat]

\* The number of open positions never exceeds MaxPositions.  Portfolio.buy does
\* not check it: only risk_check does, before the sweep, on the positions of
\* that moment, and the order is placed several steps later.
PositionLimit == Cardinality(Held) <= MaxPositions

\* A position this cycle adds to at a quote the exit guards do not believe: the
\* order is placed all the same, and may pull the average below a dollar.
AddedOnSuspectQuote(s) ==
  decision.action = "BUY" /\ decision.symbol = s /\ prices[s] <= OneDollar

\* Whatever risk_check said of the cycle's decision, when the cycle records its
\* value no open position with a believable quote is still past its trailing
\* stop: "a risk_check rejection never leaves existing positions unprotected"
\* (_run_exit_guards), and the order placed after the sweep reopens no breach,
\* a position added to at a suspect quote excepted.
StopLossHonoured ==
  phase \in {"record_value", "check_death", "save_memory"}
    => \A s \in Symbols : StopTriggered(s) => AddedOnSuspectQuote(s)

\* Sizing and the checks made before the sweep still bound the order placed after
\* it: what a new position costs is at most MaxAllocPct of the value execute read,
\* and what a pyramided one is worth together with the cost of the add at most 1.5
\* times that, the commission apart.  The shares are worth, at the fill, no more
\* than they cost.
ExposureCapped ==
  [][\A s \in Symbols : positions'[s].shares > positions[s].shares /\ restarts' = restarts
       => LET cost == unlogged'.amount
              exposure == Worth(positions[s].shares, prices[s]) + cost
              bought == positions'[s].shares - positions[s].shares
          IN /\ IF s \in Held THEN exposure * 200 <= 3 * MaxAllocPct * pv
                              ELSE exposure * 100 <= MaxAllocPct * pv
             /\ \E px \in FillPrices(prices[s]) : Worth(bought, px) <= cost]_vars

\* A dead portfolio trades no more in this process: death is noticed at the end
\* of a cycle, and no order is placed between that moment and the next start.
DeathStopsTrading ==
  [][isDead /\ restarts' = restarts => UNCHANGED <<cash, positions>>]_vars

\* What _reconcile_portfolio_state computes from the trades table equals the
\* cash of the portfolio whenever every trade of this life was recorded: its
\* drift warning means a row was lost (a stop or a failed INSERT between the
\* order and the row), never a mistake of the replay itself.
LedgerMatchesCash ==
  ~SaveMayFail /\ ~rowLost /\ unlogged = NoTrade => ledger = cash

\* A position takes its partial profit once, plus at most once for each process
\* stop: the flag that says so is set after the sale's save, so a stop before
\* the next order forgets it.
TakeProfitOncePerStart ==
  ~SaveMayFail => \A s \in Symbols : takeProfits[s] <= 1 + restarts
=============================================================================
