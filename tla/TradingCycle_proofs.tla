-------------------------- MODULE TradingCycle_proofs --------------------------
(***************************************************************************)
(* Proofs about the trading cycle, for every number of symbols, every      *)
(* decision of the arbitrator, every price feed and a process stop at any  *)
(* point: its steps are steps of the book (CycleImplementsPortfolio), it   *)
(* never holds more than MaxPositions positions (PositionLimit), honours   *)
(* its stops, keeps its exposure capped, and accounts for its cash in the  *)
(* rows of its trades.                                                     *)
(*                                                                         *)
(* Portfolio.buy accepts any symbol: the limit rests on risk_check alone,  *)
(* which counts the positions before the exit sweep, several steps and     *)
(* several sales before the order is placed. The invariant therefore       *)
(* carries the room risk_check saw across the sweep (RoomKept), and the    *)
(* limit itself into the state file a restart reads (FileWithinLimit). The *)
(* caps on the exposure are carried in the same way: the sweep only sells, *)
(* so an order that fitted under its caps still fits.                      *)
(***************************************************************************)
EXTENDS TradingCycle, Portfolio_proofs

IsBook(p) == p = [s \in Symbols |-> p[s]]
HeldIn(p) == {s \in Symbols : p[s].shares > 0}
WithinLimit(p) == IsBook(p) /\ Cardinality(HeldIn(p)) <= MaxPositions

FileWithinLimit == saved.exists => WithinLimit(saved.positions)

\* A BUY that passed risk_check still has room when it is executed.
RoomKept ==
  phase \in {"start_node", "stops", "exits", "mark", "act"} /\ decision.action = "BUY"
    => RoomFor(decision.symbol)

OrderNamesSymbol == decision.action = "BUY" => decision.symbol \in Symbols

LimitInvariant ==
  /\ WithinLimit(positions)
  /\ FileWithinLimit
  /\ OrderNamesSymbol
  /\ RoomKept

-----------------------------------------------------------------------------
\* The positions are finitely many, in memory and in any set of them.
LEMMA HeldFinite ==
  ASSUME NEW S, S \subseteq Symbols
  PROVE  IsFiniteSet(S) /\ Cardinality(S) \in Nat
BY PortfolioAssumption, FS_Subset, FS_CardinalityType

\* Fewer positions: the limit stands, and there is still room for the order.
LEMMA FewerKeepsRoom ==
  ASSUME WithinLimit(positions), HeldIn(positions') \subseteq HeldIn(positions),
         NEW s \in Symbols, RoomFor(s)
  PROVE  RoomFor(s)'
<1> DEFINE old == HeldIn(positions)
           new == HeldIn(positions')
<1>1. /\ IsFiniteSet(old) /\ Cardinality(old) \in Nat
      /\ IsFiniteSet(new) /\ Cardinality(new) \in Nat
  BY HeldFinite DEF HeldIn
<1>2. Cardinality(new) <= Cardinality(old) /\ (Cardinality(new) = Cardinality(old) => new = old)
  BY <1>1, FS_Subset
<1>3. Held = old /\ Held' = new
  BY DEF Held, HeldIn
<1>4. Cardinality(old) <= MaxPositions /\ MaxPositions \in Nat
  BY CycleAssumption DEF WithinLimit
<1> HIDE DEF old, new
<1>5. CASE new = old
  BY <1>3, <1>5 DEF RoomFor
<1>6. CASE new # old
  BY <1>1, <1>2, <1>3, <1>4, <1>6 DEF RoomFor
<1> QED BY <1>5, <1>6

\* What save_state writes obeys the limit when memory does.
LEMMA SaveKeepsLimit ==
  ASSUME FileWithinLimit, WithinLimit(positions'), SaveState
  PROVE  FileWithinLimit'
<1>1. CASE UNCHANGED saved
  BY <1>1 DEF FileWithinLimit
<1>2. CASE saved'.positions = positions'
  BY <1>2 DEF FileWithinLimit
<1> QED BY <1>1, <1>2 DEF SaveState

\* Portfolio.buy of a symbol there is room for.
LEMMA BuyKeepsLimit ==
  ASSUME WithinLimit(positions), FileWithinLimit,
         NEW s \in Symbols, RoomFor(s), NEW amount, NEW px, NEW d, Buy(s, amount, px, d)
  PROVE  WithinLimit(positions') /\ FileWithinLimit'
<1>1. PICK q : positions' = [positions EXCEPT ![s] = q]
  BY DEF Buy
<1> DEFINE old == HeldIn(positions)
           new == HeldIn(positions')
<1>2. IsBook(positions') /\ new \subseteq old \cup {s}
  BY <1>1 DEF WithinLimit, IsBook, HeldIn
<1>3. IsFiniteSet(old) /\ Cardinality(old) \in Nat
      /\ IsFiniteSet(old \cup {s}) /\ IsFiniteSet(new) /\ Cardinality(new) \in Nat
  BY HeldFinite, FS_AddElement DEF HeldIn
<1>4. Cardinality(new) <= Cardinality(old \cup {s})
  BY <1>2, <1>3, FS_Subset
<1>5. Cardinality(old \cup {s}) = IF s \in old THEN Cardinality(old) ELSE Cardinality(old) + 1
  BY <1>3, FS_AddElement
<1>6. Cardinality(old) <= MaxPositions /\ MaxPositions \in Nat
      /\ (s \in old \/ Cardinality(old) < MaxPositions)
  BY CycleAssumption DEF WithinLimit, RoomFor, Held, HeldIn
<1>7. Cardinality(new) <= MaxPositions
  <2> HIDE DEF old, new
  <2> QED BY <1>3, <1>4, <1>5, <1>6
<1>8. WithinLimit(positions')
  BY <1>2, <1>7 DEF WithinLimit
<1> QED BY <1>8, SaveKeepsLimit DEF Buy

\* An update that opens no position.
LEMMA NoNewPosition ==
  ASSUME WithinLimit(positions), IsBook(positions'),
         HeldIn(positions') \subseteq HeldIn(positions)
  PROVE  WithinLimit(positions')
<1>1. IsFiniteSet(HeldIn(positions)) /\ Cardinality(HeldIn(positions)) \in Nat
      /\ Cardinality(HeldIn(positions')) \in Nat
  BY HeldFinite DEF HeldIn
<1>2. Cardinality(HeldIn(positions')) <= Cardinality(HeldIn(positions))
  BY <1>1, FS_Subset
<1> QED BY <1>1, <1>2, CycleAssumption DEF WithinLimit

\* Portfolio.sell.
LEMMA SellKeepsLimit ==
  ASSUME WithinLimit(positions), FileWithinLimit,
         NEW s \in Symbols, NEW pct, NEW px, Sell(s, pct, px)
  PROVE  /\ WithinLimit(positions') /\ FileWithinLimit'
         /\ HeldIn(positions') \subseteq HeldIn(positions)
<1>1. PICK q : positions' = [positions EXCEPT ![s] = q]
  BY DEF Sell
<1>2. s \in HeldIn(positions)
  BY DEF Sell, CanSell, Held, HeldIn
<1>3. IsBook(positions') /\ HeldIn(positions') \subseteq HeldIn(positions)
  BY <1>1, <1>2 DEF WithinLimit, IsBook, HeldIn
<1>4. WithinLimit(positions')
  BY <1>3, NoNewPosition
<1> QED BY <1>3, <1>4, SaveKeepsLimit DEF Sell

\* mark_take_profit.
LEMMA MarkKeepsLimit ==
  ASSUME WithinLimit(positions), FileWithinLimit, NEW s \in Symbols, MarkTakeProfit(s)
  PROVE  /\ WithinLimit(positions') /\ FileWithinLimit'
         /\ HeldIn(positions') \subseteq HeldIn(positions)
<1>1. PICK q : positions' = [positions EXCEPT ![s] = q]
  BY DEF MarkTakeProfit
<1>2. s \in HeldIn(positions) /\ saved' = saved
  BY DEF MarkTakeProfit, Held, HeldIn
<1>3. IsBook(positions') /\ HeldIn(positions') \subseteq HeldIn(positions)
  BY <1>1, <1>2 DEF WithinLimit, IsBook, HeldIn
<1> QED BY <1>2, <1>3, NoNewPosition DEF FileWithinLimit

\* The room risk_check saw survives every step that only closes positions.
LEMMA RoomSurvives ==
  ASSUME WithinLimit(positions), RoomKept,
         phase \in {"start_node", "stops", "exits", "mark", "act"},
         UNCHANGED decision, OrderNamesSymbol,
         HeldIn(positions') \subseteq HeldIn(positions)
  PROVE  RoomKept'
BY FewerKeepsRoom DEF RoomKept, OrderNamesSymbol

-----------------------------------------------------------------------------
(* One lemma per kind of step. *)

\* Steps that leave the positions and the state file alone.
LEMMA QuietStepKeepsInvariant ==
  ASSUME LimitInvariant, FetchData \/ StartNode \/ EndStops \/ EndExits
                         \/ ActWithoutTrade \/ Record \/ Death \/ EndCycle \/ InsertRow
  PROVE  LimitInvariant'
<1>1. UNCHANGED <<positions, saved>>
  BY DEF FetchData, StartNode, EndStops, EndExits, ActWithoutTrade, Record, Death, EndCycle,
         InsertRow, UpdateWatermarks, RecordValue, CheckDeath, pvars
<1>2. WithinLimit(positions') /\ FileWithinLimit'
      /\ HeldIn(positions') \subseteq HeldIn(positions)
  BY <1>1 DEF LimitInvariant, FileWithinLimit
<1>3. CASE EndCycle
  <2>1. decision'.action = "HOLD"
    BY <1>3 DEF EndCycle, Hold
  <2> QED BY <1>2, <2>1 DEF LimitInvariant, OrderNamesSymbol, RoomKept
<1>4. CASE FetchData \/ Record \/ Death \/ ActWithoutTrade
  <2>1. decision' = decision /\ phase' \in {"risk_check", "record_value", "check_death", "save_memory"}
    BY <1>4 DEF FetchData, Record, Death, ActWithoutTrade, ActUnchanged, GoTo
  <2> QED BY <1>2, <2>1 DEF LimitInvariant, OrderNamesSymbol, RoomKept
<1>5. CASE StartNode \/ EndStops
  <2>1. decision' = decision /\ phase \in {"start_node", "stops"}
    BY <1>5 DEF StartNode, EndStops
  <2> QED BY <1>2, <2>1, RoomSurvives DEF LimitInvariant, OrderNamesSymbol
<1>6. CASE EndExits
  <2>1. decision' = decision /\ phase = "exits"
    BY <1>6 DEF EndExits
  <2> QED BY <1>2, <2>1, RoomSurvives DEF LimitInvariant, OrderNamesSymbol
<1>7. CASE InsertRow
  <2>1. decision' = decision /\ phase' = phase
    BY <1>7 DEF InsertRow
  <2>2. CASE phase \in {"start_node", "stops", "exits", "mark", "act"}
    BY <1>2, <2>1, <2>2, RoomSurvives DEF LimitInvariant, OrderNamesSymbol
  <2>3. CASE phase \notin {"start_node", "stops", "exits", "mark", "act"}
    BY <1>2, <2>1, <2>3 DEF LimitInvariant, OrderNamesSymbol, RoomKept
  <2> QED BY <2>2, <2>3
<1> QED BY <1>3, <1>4, <1>5, <1>6, <1>7

\* risk_check: a BUY is passed on only with room for it.
LEMMA RiskCheckKeepsInvariant ==
  ASSUME LimitInvariant, RiskCheck
  PROVE  LimitInvariant'
<1>1. positions' = positions /\ saved' = saved
  BY DEF RiskCheck, pvars
<1>2. PICK d \in Decisions, earnings \in EarningsStates, vol \in VolFactors :
        LET sized == IF d.action = "BUY"
                     THEN [d EXCEPT !.alloc = SizedAlloc(@, earnings, vol)] ELSE d
        IN decision' = IF Passes(sized, earnings)
                       THEN [sized EXCEPT !.passed = TRUE] ELSE Hold
  BY DEF RiskCheck
<1>3. decision'.action = "BUY" => decision'.symbol \in Symbols /\ RoomFor(decision'.symbol)
  <2> DEFINE sized == IF d.action = "BUY"
                      THEN [d EXCEPT !.alloc = SizedAlloc(@, earnings, vol)] ELSE d
  <2> SUFFICES ASSUME decision'.action = "BUY"
               PROVE  decision'.symbol \in Symbols /\ RoomFor(decision'.symbol)
    OBVIOUS
  <2>1. Passes(sized, earnings) /\ decision' = [sized EXCEPT !.passed = TRUE]
    BY <1>2 DEF Hold
  <2>2. d.action \in {"HOLD", "BUY", "SELL"} /\ (d.action = "BUY" => d.symbol \in Symbols)
    <3>1. CASE d = Hold
      BY <3>1 DEF Hold
    <3>2. CASE d # Hold
      BY <1>2, <3>2 DEF Decisions
    <3> QED BY <3>1, <3>2
  <2>3. sized.action = d.action /\ sized.symbol = d.symbol
    BY DEF Decisions, Hold
  <2>4. decision'.action = sized.action /\ decision'.symbol = sized.symbol
    BY <2>1 DEF Decisions, Hold
  <2> HIDE DEF sized
  <2>5. RoomFor(sized.symbol)
    BY <2>1, <2>4 DEF Passes, BuyPasses
  <2> QED BY <2>2, <2>3, <2>4, <2>5
<1>4. decision'.action = "BUY" => RoomFor(decision.symbol)'
  BY <1>1, <1>3 DEF RoomFor, Held
<1> QED BY <1>1, <1>3, <1>4
        DEF LimitInvariant, FileWithinLimit, OrderNamesSymbol, RoomKept

\* The sales of the exit sweep and its take-profit mark: positions only go.
LEMMA SweepKeepsInvariant ==
  ASSUME LimitInvariant, NEW s \in Symbols,
         StopOut(s) \/ TakeProfit(s) \/ Mark(s) \/ TimeStop(s)
  PROVE  LimitInvariant'
<1>1. /\ WithinLimit(positions') /\ FileWithinLimit'
      /\ HeldIn(positions') \subseteq HeldIn(positions)
  BY SellKeepsLimit, MarkKeepsLimit
     DEF LimitInvariant, StopOut, TakeProfit, Mark, TimeStop, SweepSale
<1>2. decision' = decision /\ phase \in {"stops", "exits", "mark"}
  BY DEF StopOut, TakeProfit, Mark, TimeStop
<1> QED BY <1>1, <1>2, RoomSurvives DEF LimitInvariant, OrderNamesSymbol

\* The decided order.
LEMMA ActKeepsInvariant ==
  ASSUME LimitInvariant, ActBuy \/ ActSell
  PROVE  LimitInvariant'
<1>1. decision' = decision /\ phase' = "record_value"
  BY DEF ActBuy, ActSell, ActUnchanged, GoTo
<1>2. CASE ActBuy
  <2>1. PICK px, amount : Buy(decision.symbol, amount, px, day)
    BY <1>2 DEF ActBuy
  <2>2. decision.symbol \in Symbols /\ RoomFor(decision.symbol)
    BY <1>2 DEF ActBuy, LimitInvariant, OrderNamesSymbol, RoomKept
  <2>3. WithinLimit(positions') /\ FileWithinLimit'
    BY <2>1, <2>2, BuyKeepsLimit DEF LimitInvariant
  <2> QED BY <1>1, <2>3 DEF LimitInvariant, OrderNamesSymbol, RoomKept
<1>3. CASE ActSell
  <2>1. PICK px, pct : Sell(decision.symbol, pct, px)
    BY <1>3 DEF ActSell
  <2>2. decision.symbol \in Symbols
    BY <2>1 DEF Sell, CanSell, Held
  <2>3. WithinLimit(positions') /\ FileWithinLimit'
    BY <2>1, <2>2, SellKeepsLimit DEF LimitInvariant
  <2> QED BY <1>1, <2>3 DEF LimitInvariant, OrderNamesSymbol, RoomKept
<1> QED BY <1>2, <1>3

\* A process stop: the state file obeyed the limit too.
LEMMA RebootKeepsInvariant ==
  ASSUME LimitInvariant, Reboot
  PROVE  LimitInvariant'
<1>1. saved' = saved /\ decision' = Hold /\ phase' = "fetch_data"
  BY DEF Reboot, Restart, GoTo
<1>2. WithinLimit(positions')
  <2>1. CASE saved.exists
    BY <2>1 DEF Reboot, Restart, LoadedBook, LimitInvariant, FileWithinLimit
  <2>2. CASE ~saved.exists
    <3>1. positions' = [s \in Symbols |-> NoPosition]
      BY <2>2 DEF Reboot, Restart, FreshBook
    <3>2. IsBook(positions') /\ HeldIn(positions') = {}
      BY <3>1 DEF IsBook, HeldIn, NoPosition
    <3> QED BY <3>2, FS_EmptySet, CycleAssumption DEF WithinLimit
  <2> QED BY <2>1, <2>2
<1> QED BY <1>1, <1>2 DEF LimitInvariant, FileWithinLimit, OrderNamesSymbol, RoomKept, Hold

-----------------------------------------------------------------------------
\* The inductive invariant behind the position limit.
THEOREM LimitInvariantHolds == CycleSpec => []LimitInvariant
<1>1. CycleInit => LimitInvariant
  <2> SUFFICES ASSUME CycleInit PROVE LimitInvariant
    OBVIOUS
  <2>1. positions = [s \in Symbols |-> NoPosition] /\ ~saved.exists /\ phase = "fetch_data"
        /\ decision.action = "HOLD"
    BY DEF CycleInit, Init, NoFile, Hold
  <2>2. IsBook(positions) /\ HeldIn(positions) = {}
    BY <2>1 DEF IsBook, HeldIn, NoPosition
  <2>3. WithinLimit(positions)
    BY <2>2, FS_EmptySet, CycleAssumption DEF WithinLimit
  <2> QED BY <2>1, <2>3 DEF LimitInvariant, FileWithinLimit, OrderNamesSymbol, RoomKept
<1>2. LimitInvariant /\ [CycleNext]_vars => LimitInvariant'
  <2> SUFFICES ASSUME LimitInvariant, [CycleNext]_vars PROVE LimitInvariant'
    OBVIOUS
  <2>1. CASE UNCHANGED vars
    BY <2>1 DEF vars, pvars, cvars, LimitInvariant, FileWithinLimit, OrderNamesSymbol,
                RoomKept, RoomFor, Held
  <2>2. CASE CycleNext
    BY <2>2, QuietStepKeepsInvariant, RiskCheckKeepsInvariant, SweepKeepsInvariant,
       ActKeepsInvariant, RebootKeepsInvariant DEF CycleNext
  <2> QED BY <2>1, <2>2
<1> QED BY <1>1, <1>2, PTL DEF CycleSpec

\* Never more than MaxPositions open positions (config.MAX_POSITIONS), although
\* only risk_check counts them (agents/shared/nodes.py, risk_check_node and
\* execute_node; core/data.py, buy).
THEOREM PositionLimitHolds == CycleSpec => []PositionLimit
<1>1. LimitInvariant => PositionLimit
  BY DEF LimitInvariant, WithinLimit, PositionLimit, Held, HeldIn
<1> QED BY <1>1, LimitInvariantHolds, PTL

-----------------------------------------------------------------------------
(* Every step of the cycle is a call the Portfolio class answers for, or    *)
(* none: the cycle implements Portfolio's specification.  The arguments it  *)
(* passes are legal only because of what earlier steps established: the     *)
(* decided symbol has a quote from risk_check to the order, and the order   *)
(* is sized from a value that is a number.                                  *)

OrderPhases == {"start_node", "stops", "exits", "mark", "act"}

DecisionOK(d) ==
  /\ d.action \in {"HOLD", "BUY", "SELL"}
  /\ d.action = "BUY" => d.symbol \in Symbols /\ d.alloc \in Nat
  /\ d.action = "SELL" => d.symbol \in Symbols /\ d.sellPct \in SellPcts

CycleShape ==
  /\ day \in Days
  /\ prices \in PriceTables
  /\ pv \in Nat
  /\ DecisionOK(decision)
  /\ phase \in OrderPhases /\ decision.action # "HOLD" => prices[decision.symbol] # NoQuote

CycleInvariant == BookInvariant /\ CycleShape

\* The fills of a quote are prices the class accepts.
LEMMA FillsOfQuote ==
  ASSUME NEW s \in Symbols, prices \in PriceTables, prices[s] # NoQuote
  PROVE  prices[s] \in Quotes /\ FillPrices(prices[s]) \subseteq Fills
<1>1. prices[s] \in Quotes
  BY DEF PriceTables
<1> DEFINE Fill(q, d) == (q * (1000 + d)) \div 1000
<1>2. \A q \in Quotes, d \in SlipPM : Fill(q, d) \in Fills
  BY CycleAssumption
<1>3. FillPrices(prices[s]) = {Fill(prices[s], d) : d \in SlipPM}
  BY DEF FillPrices
<1> HIDE DEF Fill
<1> QED BY <1>1, <1>2, <1>3

\* risk_check sizes an order with a natural allocation.
LEMMA SizedNatural ==
  ASSUME NEW alloc \in Nat, NEW earnings, NEW vol \in VolFactors
  PROVE  SizedAlloc(alloc, earnings, vol) \in Nat
<1>1. vol \in Nat /\ MaxAllocPct \in Nat
  BY CycleAssumption
<1>2. ASSUME NEW a \in Nat, NEW f \in Nat PROVE Damped(a, f) \in Nat
  <2>1. PICK x \in Nat : x = a * f
    BY <1>2, SMT
  <2>2. PICK y \in Nat : y = (a * f) \div 100
    BY <2>1, DivBound
  <2> QED BY <1>2, <2>2 DEF Damped
<1>3. Clamped(alloc) \in Nat
  BY <1>1 DEF Clamped
<1> DEFINE f == IF earnings = "week" THEN 65 ELSE 100
<1>4. f \in Nat
  OBVIOUS
<1> HIDE DEF f
<1>5. Damped(Clamped(alloc), f) \in Nat
  BY <1>2, <1>3, <1>4
<1>6. Damped(Damped(Clamped(alloc), f), vol) \in Nat
  BY <1>1, <1>2, <1>5
<1> QED BY <1>6 DEF SizedAlloc, f

\* The decision risk_check hands on is well formed and names a quoted symbol.
LEMMA RiskCheckShape ==
  ASSUME RiskCheck
  PROVE  /\ DecisionOK(decision')
         /\ decision'.action # "HOLD" => prices[decision'.symbol] # NoQuote
<1>1. PICK d \in Decisions, earnings \in EarningsStates, vol \in VolFactors :
        LET sized == IF d.action = "BUY"
                     THEN [d EXCEPT !.alloc = SizedAlloc(@, earnings, vol)] ELSE d
        IN decision' = IF Passes(sized, earnings)
                       THEN [sized EXCEPT !.passed = TRUE] ELSE Hold
  BY DEF RiskCheck
<1> DEFINE n == SizedAlloc(d.alloc, earnings, vol)
           sized == IF d.action = "BUY" THEN [d EXCEPT !.alloc = n] ELSE d
           Buys == [action : {"BUY"}, symbol : Symbols, alloc : Allocs, sellPct : {100},
                    passed : {FALSE}]
           Sells == [action : {"SELL"}, symbol : Symbols, alloc : {0}, sellPct : SellPcts,
                     passed : {FALSE}]
<1>0. /\ d = Hold \/ d \in Buys \/ d \in Sells
      /\ d \in Buys => d.action = "BUY" /\ d.symbol \in Symbols /\ d.alloc \in Allocs
      /\ d \in Sells => d.action = "SELL" /\ d.symbol \in Symbols /\ d.sellPct \in SellPcts
      /\ d = Hold => d.action = "HOLD"
  <2>1. d = Hold \/ d \in Buys \/ d \in Sells
    BY DEF Decisions
  <2>2. d = Hold => d.action = "HOLD"
    BY DEF Hold
  <2> QED BY <2>1, <2>2
<1>2. CASE decision' = Hold
  BY <1>2 DEF Hold, DecisionOK
<1>3. CASE decision' # Hold
  <2>1. Passes(sized, earnings) /\ decision' = [sized EXCEPT !.passed = TRUE]
    BY <1>1, <1>3
  <2>2. CASE d.action = "BUY"
    <3>1. d \in Buys /\ d.symbol \in Symbols /\ d.alloc \in Nat
      <4>1. d \in Buys
        BY <1>0, <2>2
      <4> HIDE DEF Buys, Sells
      <4>2. d.symbol \in Symbols /\ d.alloc \in Allocs
        BY <1>0, <4>1
      <4>3. Allocs \subseteq Nat
        BY CycleAssumption
      <4> QED BY <4>1, <4>2, <4>3
    <3>2. n \in Nat
      BY <3>1, SizedNatural
    <3> HIDE DEF n
    <3>3. sized = [d EXCEPT !.alloc = n]
      BY <2>2
    <3>4. sized.action = "BUY" /\ sized.symbol = d.symbol
      BY <3>1, <3>3
    <3>5. decision'.action = "BUY" /\ decision'.symbol = d.symbol /\ decision'.alloc = n
      BY <2>1, <3>1, <3>3
    <3> HIDE DEF sized
    <3>6. prices[d.symbol] # NoQuote
      BY <2>1, <3>4 DEF Passes, BuyPasses
    <3> QED BY <3>1, <3>2, <3>5, <3>6 DEF DecisionOK
  <2>3. CASE d.action = "SELL"
    <3>1. d \in Sells /\ d.symbol \in Symbols /\ d.sellPct \in SellPcts
      BY <1>0, <2>3
    <3>2. sized = d
      BY <2>3
    <3>3. decision'.action = "SELL" /\ decision'.symbol = d.symbol
          /\ decision'.sellPct = d.sellPct
      BY <2>1, <3>1, <3>2
    <3>4. prices[d.symbol] # NoQuote
      BY <2>1, <2>3, <3>2 DEF Passes, SellPasses
    <3> QED BY <3>1, <3>3, <3>4 DEF DecisionOK
  <2>4. CASE d.action \notin {"BUY", "SELL"}
    <3>1. d = Hold
      BY <1>0, <2>4
    <3>2. decision'.action = "HOLD"
      BY <2>1, <3>1 DEF Hold
    <3> QED BY <3>2 DEF DecisionOK
  <2> QED BY <2>2, <2>3, <2>4
<1> QED BY <1>2, <1>3

\* The step and what it leaves of the cycle's shape, one lemma per part.
LEMMA QuietStepImplements ==
  ASSUME CycleInvariant, FetchData \/ RiskCheck \/ EndStops \/ EndExits
                         \/ ActWithoutTrade \/ EndCycle \/ InsertRow
  PROVE  UNCHANGED pvars /\ CycleShape'
<1>1. UNCHANGED pvars
  BY DEF FetchData, RiskCheck, EndStops, EndExits, ActWithoutTrade, EndCycle, InsertRow
<1>2. CASE FetchData
  <2>1. prices' \in PriceTables /\ day' \in Days /\ phase' = "risk_check"
        /\ UNCHANGED <<decision, pv>>
    BY <1>2 DEF FetchData, GoTo
  <2> QED BY <1>1, <2>1 DEF CycleInvariant, CycleShape, OrderPhases
<1>3. CASE RiskCheck
  BY <1>1, <1>3, RiskCheckShape DEF RiskCheck, CycleInvariant, CycleShape
<1>4. CASE EndStops \/ EndExits
  <2>1. phase \in OrderPhases /\ UNCHANGED <<decision, prices, pv, day>>
    BY <1>4 DEF EndStops, EndExits, OrderPhases
  <2> QED BY <1>1, <2>1 DEF CycleInvariant, CycleShape
<1>5. CASE InsertRow
  BY <1>1, <1>5 DEF InsertRow, CycleInvariant, CycleShape
<1>6. CASE ActWithoutTrade
  <2>1. phase \in OrderPhases /\ UNCHANGED <<decision, prices, pv, day>>
    BY <1>6 DEF ActWithoutTrade, ActUnchanged, OrderPhases
  <2> QED BY <1>1, <2>1 DEF CycleInvariant, CycleShape
<1>7. CASE EndCycle
  <2>1. /\ phase' = "fetch_data" /\ prices' = NoPrices /\ decision' = Hold /\ pv' = 0
        /\ day' = day
    BY <1>7 DEF EndCycle, GoTo
  <2>2. NoPrices \in PriceTables
    BY DEF NoPrices, PriceTables
  <2> QED BY <1>1, <2>1, <2>2 DEF CycleInvariant, CycleShape, DecisionOK, Hold, OrderPhases
<1> QED BY <1>1, <1>2, <1>3, <1>4, <1>5, <1>6, <1>7

\* StartNode, Record and Death: one memory operation each, at this cycle's prices.
LEMMA ValuationStepImplements ==
  ASSUME CycleInvariant, StartNode \/ Record \/ Death
  PROVE  Next /\ CycleShape'
<1>1. prices \in PriceTables
  BY DEF CycleInvariant, CycleShape
<1>2. CASE StartNode
  <2>1. UpdateWatermarks(prices) /\ phase = "start_node"
        /\ UNCHANGED <<decision, prices, day>>
        /\ pv' = IF decision.passed THEN TotalValue(prices) ELSE 0
    BY <1>2 DEF StartNode
  <2>2. pv' \in Nat
    BY <1>1, <2>1, AccountValue DEF CycleInvariant
  <2>3. Next
    BY <1>1, <2>1 DEF Next
  <2> QED BY <2>1, <2>2, <2>3 DEF CycleInvariant, CycleShape, OrderPhases
<1>3. CASE Record \/ Death
  <2>1. (RecordValue(prices) \/ CheckDeath(prices)) /\ phase' \notin OrderPhases
        /\ UNCHANGED <<decision, prices, day, pv>>
    BY <1>3 DEF Record, Death, GoTo, OrderPhases
  <2>2. Next
    BY <1>1, <2>1 DEF Next
  <2> QED BY <2>1, <2>2 DEF CycleInvariant, CycleShape
<1> QED BY <1>2, <1>3

\* The sales of the sweep.
LEMMA SweepImplements ==
  ASSUME CycleInvariant, NEW s \in Symbols,
         StopOut(s) \/ TakeProfit(s) \/ Mark(s) \/ TimeStop(s)
  PROVE  Next /\ CycleShape'
<1>1. phase \in OrderPhases /\ UNCHANGED <<decision, prices, day, pv>>
  BY DEF StopOut, TakeProfit, Mark, TimeStop, OrderPhases
<1>2. CycleShape'
  BY <1>1 DEF CycleInvariant, CycleShape
<1>3. CASE Mark(s)
  BY <1>2, <1>3 DEF Mark, Next
<1>4. CASE StopOut(s) \/ TakeProfit(s) \/ TimeStop(s)
  <2>1. PICK pct \in {100, TakeProfitSellPct}, px \in FillPrices(prices[s]) : Sell(s, pct, px)
    BY <1>4 DEF StopOut, TakeProfit, TimeStop, SweepSale
  <2>2. prices[s] # NoQuote
    BY <1>4 DEF StopOut, TakeProfit, TimeStop, StopTriggered, TakeProfitDue, TimeStopDue
  <2>3. px \in Fills /\ pct \in SellPcts
    BY <2>1, <2>2, FillsOfQuote, CycleAssumption DEF CycleInvariant, CycleShape
  <2>4. Trade
    BY <2>1, <2>3 DEF Trade
  <2> QED BY <1>2, <2>4 DEF Next
<1> QED BY <1>3, <1>4

\* The arguments of the decided order are ones the class accepts.
LEMMA OrderArguments ==
  ASSUME CycleInvariant, phase \in OrderPhases, decision.action # "HOLD"
  PROVE  /\ decision.symbol \in Symbols
         /\ FillPrices(prices[decision.symbol]) \subseteq Fills
         /\ decision.action = "BUY" => DecidedAmount \in Nat
         /\ decision.action = "SELL" => decision.sellPct \in SellPcts
<1>1. /\ prices[decision.symbol] # NoQuote /\ DecisionOK(decision)
      /\ prices \in PriceTables /\ pv \in Nat
  BY DEF CycleInvariant, CycleShape
<1>2. decision.symbol \in Symbols
  BY <1>1 DEF DecisionOK
<1>3. FillPrices(prices[decision.symbol]) \subseteq Fills
  BY <1>1, <1>2, FillsOfQuote
<1>4. ASSUME decision.action = "BUY" PROVE DecidedAmount \in Nat
  <2>1. PICK a \in Nat : a = Clamped(decision.alloc)
    BY <1>1, <1>4, CycleAssumption DEF Clamped, DecisionOK
  <2>2. PICK x \in Nat : x = pv * a
    BY <1>1, <2>1, SMT
  <2> QED BY <2>1, <2>2, DivBound DEF DecidedAmount, OrderAmount
<1> QED BY <1>1, <1>2, <1>3, <1>4 DEF DecisionOK

\* The book takes an order of any natural amount.
LEMMA AmountsAreNaturals == Amounts = Nat
BY CycleAssumption

\* The decided order.
LEMMA ActImplements ==
  ASSUME CycleInvariant, ActBuy \/ ActSell
  PROVE  Next /\ CycleShape'
<1>1. phase = "act" /\ phase' \notin OrderPhases /\ UNCHANGED <<decision, prices, day, pv>>
  BY DEF ActBuy, ActSell, ActUnchanged, GoTo, OrderPhases
<1>2. CycleShape'
  BY <1>1 DEF CycleInvariant, CycleShape
<1>3. day \in Days
  BY DEF CycleInvariant, CycleShape
<1>4. CASE ActBuy
  <2>1. PICK px \in FillPrices(prices[decision.symbol]) :
          Buy(decision.symbol, DecidedAmount, px, day) /\ decision.action = "BUY"
    BY <1>4 DEF ActBuy
  <2>2. decision.symbol \in Symbols /\ px \in Fills /\ DecidedAmount \in Nat
    BY <1>1, <2>1, OrderArguments DEF OrderPhases
  <2>3. DecidedAmount \in Amounts
    BY <2>2, AmountsAreNaturals
  <2>4. \E a \in Amounts, d \in Days : Buy(decision.symbol, a, px, d)
    BY <1>3, <2>1, <2>3
  <2>5. Trade
    BY <2>2, <2>4 DEF Trade
  <2> QED BY <1>2, <2>5 DEF Next
<1>5. CASE ActSell
  <2>1. PICK px \in FillPrices(prices[decision.symbol]) :
          Sell(decision.symbol, decision.sellPct, px) /\ decision.action = "SELL"
    BY <1>5 DEF ActSell
  <2>2. decision.symbol \in Symbols /\ px \in Fills /\ decision.sellPct \in SellPcts
    BY <1>1, <2>1, OrderArguments DEF OrderPhases
  <2>3. Trade
    BY <2>1, <2>2 DEF Trade
  <2> QED BY <1>2, <2>3 DEF Next
<1> QED BY <1>4, <1>5

\* Every step is one of the book, or none, and keeps what its arguments rest on.
LEMMA CycleStepImplements ==
  ASSUME CycleInvariant, [CycleNext]_vars
  PROVE  [Next]_pvars /\ CycleInvariant'
<1>1. [Next]_pvars /\ CycleShape'
  <2>1. CASE UNCHANGED vars
    BY <2>1 DEF vars, cvars, CycleInvariant, CycleShape
  <2>2. CASE Reboot
    <3>1. Restart /\ prices' = NoPrices /\ decision' = Hold /\ pv' = 0 /\ day' = day
          /\ phase' = "fetch_data"
      BY <2>2 DEF Reboot, GoTo
    <3>2. NoPrices \in PriceTables
      BY DEF NoPrices, PriceTables
    <3> QED BY <3>1, <3>2
            DEF Next, CycleInvariant, CycleShape, DecisionOK, Hold, OrderPhases
  <2>3. CASE CycleNext /\ ~Reboot
    BY <2>3, QuietStepImplements, ValuationStepImplements, SweepImplements, ActImplements
       DEF CycleNext
  <2> QED BY <2>1, <2>2, <2>3
<1>2. BookInvariant'
  BY <1>1, MethodKeepsInvariant DEF CycleInvariant
<1> QED BY <1>1, <1>2 DEF CycleInvariant

\* The cycle starts from the book that the class starts from.
LEMMA CycleStarts == CycleInit => Init /\ CycleInvariant
<1> SUFFICES ASSUME CycleInit PROVE Init /\ CycleInvariant
  OBVIOUS
<1>1. /\ Init /\ day \in Days /\ prices = NoPrices /\ decision = Hold /\ pv = 0
      /\ phase = "fetch_data"
  BY DEF CycleInit
<1>2. NoPrices \in PriceTables
  BY DEF NoPrices, PriceTables
<1> QED BY <1>1, <1>2, NewAccount DEF CycleInvariant, CycleShape, DecisionOK, Hold, OrderPhases

\* Whatever a cycle passes to the book is legal: the decided symbol has a quote, the
\* order is a number (agents/shared/nodes.py, risk_check_node and execute_node).
THEOREM CycleInvariantHolds == CycleSpec => []CycleInvariant
BY CycleStarts, CycleStepImplements, PTL DEF CycleSpec

\* The graph's cycle only ever uses the Portfolio as its specification allows
\* (agents/shared/nodes.py over core/data.py): what is proved of Portfolio's
\* Spec, for any caller, holds of the account the agent trades with.
THEOREM CycleImplementsPortfolio == CycleSpec => Spec
<1>1. CycleInvariant /\ [CycleNext]_vars => [Next]_pvars
  BY CycleStepImplements
<1> QED BY <1>1, CycleStarts, CycleInvariantHolds, PTL DEF CycleSpec, Spec

-----------------------------------------------------------------------------
(* The trailing stops.  Only the end of the stop sweep establishes that no  *)
(* position is past its stop; the invariant carries it over the take        *)
(* profits, the time stops and the decided order up to the end of the       *)
(* cycle.                                                                   *)

AfterSweep == {"exits", "mark", "act", "record_value", "check_death", "save_memory"}

NoneBreached ==
  /\ phase \in {"exits", "mark", "act"} => \A s \in Symbols : ~StopTriggered(s)
  /\ phase \in AfterSweep => \A s \in Symbols : StopTriggered(s) => AddedOnSuspectQuote(s)

\* Selling some or all of a position brings no other position, nor what is left
\* of it, past its stop.
LEMMA SellTriggersNoStop ==
  ASSUME BookInvariant, UNCHANGED prices,
         NEW s \in Symbols, NEW pct, NEW px, Sell(s, pct, px),
         NEW r \in Symbols, StopTriggered(r)'
  PROVE  StopTriggered(r)
<1>1. positions \in [Symbols -> Position] /\ highWatermarks \in [Symbols -> Nat]
  BY DEF BookInvariant, LedgerTypeOK, BookType
<1>2. CASE r # s
  <2>1. positions'[r] = positions[r] /\ highWatermarks'[r] = highWatermarks[r]
    BY <1>1, <1>2 DEF Sell, WatermarksAfterSell
  <2> QED BY <2>1 DEF StopTriggered, Plausible, TrailingHigh, Held
<1>3. CASE r = s /\ pct >= 100
  <2>1. positions'[r].shares = 0
    BY <1>1, <1>3 DEF Sell, NoPosition
  <2> QED BY <2>1 DEF StopTriggered, Held
<1>4. CASE r = s /\ ~(pct >= 100)
  <2>1. /\ positions'[r].avgPrice = positions[r].avgPrice
        /\ highWatermarks'[r] = highWatermarks[r]
        /\ r \in Held
    BY <1>1, <1>4 DEF Sell, CanSell, WatermarksAfterSell, Position
  <2> QED BY <2>1 DEF StopTriggered, Plausible, TrailingHigh
<1> QED BY <1>2, <1>3, <1>4

\* The take-profit flag does not bear on any stop.
LEMMA MarkTriggersNoStop ==
  ASSUME BookInvariant, UNCHANGED prices, NEW s \in Symbols, MarkTakeProfit(s),
         NEW r \in Symbols, StopTriggered(r)'
  PROVE  StopTriggered(r)
<1>1. positions \in [Symbols -> Position]
  BY DEF BookInvariant, LedgerTypeOK, BookType
<1>2. /\ positions'[r].avgPrice = positions[r].avgPrice
      /\ positions'[r].shares = positions[r].shares
      /\ highWatermarks'[r] = highWatermarks[r]
  BY <1>1 DEF MarkTakeProfit, Position
<1> QED BY <1>2 DEF StopTriggered, Plausible, TrailingHigh, Held

\* A BUY opens no position past its stop, since a fill costs less than the stop
\* distance, and an add leaves the watermark the stop is measured from.
LEMMA BuyTriggersNoStop ==
  ASSUME BookInvariant, UNCHANGED prices, NEW s \in Symbols, NEW amount,
         prices[s] \in Quotes, NEW px \in FillPrices(prices[s]), px \in Fills,
         Buy(s, amount, px, day), prices \in PriceTables,
         NEW r \in Symbols, StopTriggered(r)'
  PROVE  StopTriggered(r) \/ (r = s /\ prices[s] <= OneDollar)
<1>1. /\ positions \in [Symbols -> Position] /\ highWatermarks \in [Symbols -> Nat]
      /\ Consistent(positions, highWatermarks)
  BY DEF BookInvariant, LedgerTypeOK, BookType, BookConsistent
<1>2. CASE r # s
  <2>1. positions'[r] = positions[r] /\ highWatermarks'[r] = highWatermarks[r]
    BY <1>1, <1>2 DEF Buy
  <2> QED BY <2>1 DEF StopTriggered, Plausible, TrailingHigh, Held
<1>3. CASE r = s /\ s \in Held
  <2>1. highWatermarks' = highWatermarks /\ highWatermarks[r] > 0
    BY <1>1, <1>3 DEF Buy, Consistent, Held
  <2>2. TrailingHigh(r)' = TrailingHigh(r)
    BY <2>1 DEF TrailingHigh
  <2>3. prices[s] \in Nat /\ OneDollar \in Nat
    <3>1. Quotes \subseteq Nat
      BY PortfolioAssumption
    <3>2. OneDollar \in Nat
      BY CycleAssumption
    <3> QED BY <3>1, <3>2
  <2>4. prices[s] <= OneDollar \/ Plausible(s)
    BY <2>3 DEF Plausible
  <2> QED BY <1>3, <2>2, <2>4 DEF StopTriggered
<1>4. CASE r = s /\ s \notin Held
  <2>1. highWatermarks[s] = 0 /\ px \in Nat \ {0}
    BY <1>1, <1>4, PortfolioAssumption DEF Consistent, Held, Position
  <2>2. PICK b \in Nat \ {0} : b = BuyPx(px)
    BY <2>1, FillPricePositive
  <2>3. highWatermarks'[s] = b
    BY <1>1, <1>4, <2>1, <2>2 DEF Buy, Raised
  <2>4. TrailingHigh(s)' = b
    BY <2>2, <2>3 DEF TrailingHigh
  <2>5. (b - prices[s]) * 100 < StopLossPct * b
    BY <2>2, SlippageAssumption
  <2>6. (b - prices[s]) * 100 >= StopLossPct * b
    BY <1>4, <2>4 DEF StopTriggered
  <2>7. PICK x \in Int : x = (b - prices[s]) * 100
    <3>1. Quotes \subseteq Nat
      BY PortfolioAssumption
    <3>2. prices[s] \in Nat
      BY <3>1
    <3> QED BY <2>2, <3>2
  <2>8. PICK y \in Int : y = StopLossPct * b
    BY <2>2, CycleAssumption, SMT
  <2> QED BY <2>5, <2>6, <2>7, <2>8
<1> QED BY <1>2, <1>3, <1>4

\* Every step keeps the swept positions above their stops.
LEMMA StopStepKept ==
  ASSUME CycleInvariant, NoneBreached, [CycleNext]_vars
  PROVE  NoneBreached'
<1>0. BookInvariant /\ prices \in PriceTables
  BY DEF CycleInvariant, CycleShape
<1>1. CASE UNCHANGED vars
  BY <1>1 DEF vars, pvars, cvars, NoneBreached, AfterSweep, StopTriggered, Plausible,
              TrailingHigh, Held, AddedOnSuspectQuote
<1>2. CASE FetchData \/ RiskCheck \/ StartNode \/ EndCycle \/ Reboot
  <2>1. phase' \in {"risk_check", "start_node", "stops", "fetch_data"}
    BY <1>2 DEF FetchData, RiskCheck, StartNode, EndCycle, Reboot, GoTo, FirstStep
  <2> QED BY <2>1 DEF NoneBreached, AfterSweep
<1>3. CASE EndStops
  <2>1. \A s \in Symbols : ~StopTriggered(s)
    BY <1>3 DEF EndStops
  <2>2. UNCHANGED <<positions, highWatermarks, prices>>
    BY <1>3 DEF EndStops, pvars
  <2>3. \A s \in Symbols : StopTriggered(s)' => StopTriggered(s)
    BY <2>2 DEF StopTriggered, Plausible, TrailingHigh, Held
  <2> QED BY <2>1, <2>3 DEF NoneBreached
<1>4. CASE EndExits \/ ActWithoutTrade \/ Record \/ Death \/ InsertRow
  <2>1. UNCHANGED <<positions, highWatermarks, prices, decision>>
    BY <1>4 DEF EndExits, ActWithoutTrade, ActUnchanged, Record, Death, InsertRow, RecordValue,
                CheckDeath, pvars
  <2>2. \A s \in Symbols : StopTriggered(s)' => StopTriggered(s)
    BY <2>1 DEF StopTriggered, Plausible, TrailingHigh, Held
  <2>3. \A s \in Symbols : AddedOnSuspectQuote(s) => AddedOnSuspectQuote(s)'
    BY <2>1 DEF AddedOnSuspectQuote
  <2>4. /\ phase' \in AfterSweep => phase \in AfterSweep
        /\ phase' \in {"exits", "mark", "act"} => phase \in {"exits", "mark", "act"}
    BY <1>4 DEF EndExits, ActWithoutTrade, Record, Death, InsertRow, GoTo, AfterSweep
  <2> QED BY <2>2, <2>3, <2>4 DEF NoneBreached, AfterSweep
<1>5. ASSUME NEW s \in Symbols, StopOut(s) PROVE NoneBreached'
  BY <1>5 DEF StopOut, NoneBreached, AfterSweep
<1>6. ASSUME NEW s \in Symbols, TakeProfit(s) \/ TimeStop(s) \/ Mark(s) PROVE NoneBreached'
  <2>1. phase \in {"exits", "mark"} /\ UNCHANGED <<prices, decision>>
    BY <1>6 DEF TakeProfit, TimeStop, Mark
  <2>2. \A r \in Symbols : ~StopTriggered(r)
    BY <2>1 DEF NoneBreached
  <2>3. \/ \E pct, px : Sell(s, pct, px)
        \/ MarkTakeProfit(s)
    BY <1>6 DEF TakeProfit, TimeStop, Mark, SweepSale
  <2>4. \A r \in Symbols : StopTriggered(r)' => StopTriggered(r)
    BY <1>0, <2>1, <2>3, SellTriggersNoStop, MarkTriggersNoStop
  <2>5. phase' \in {"exits", "mark"}
    BY <1>6 DEF TakeProfit, TimeStop, Mark, GoTo
  <2> QED BY <2>2, <2>4 DEF NoneBreached
<1>7. CASE ActSell
  <2>1. phase = "act" /\ phase' = "record_value" /\ UNCHANGED <<prices, decision>>
    BY <1>7 DEF ActSell, ActUnchanged, GoTo
  <2>2. \A r \in Symbols : ~StopTriggered(r)
    BY <2>1 DEF NoneBreached
  <2>3. PICK pct, px : Sell(decision.symbol, pct, px)
    BY <1>7 DEF ActSell
  <2>4. decision.symbol \in Symbols
    BY <2>3 DEF Sell, CanSell, Held
  <2>5. \A r \in Symbols : StopTriggered(r)' => StopTriggered(r)
    BY <1>0, <2>1, <2>3, <2>4, SellTriggersNoStop
  <2> QED BY <2>1, <2>2, <2>5 DEF NoneBreached, AfterSweep
<1>8. CASE ActBuy
  <2>1. phase = "act" /\ phase' = "record_value" /\ UNCHANGED <<prices, decision>>
        /\ decision.action = "BUY"
    BY <1>8 DEF ActBuy, ActUnchanged, GoTo
  <2>2. \A r \in Symbols : ~StopTriggered(r)
    BY <2>1 DEF NoneBreached
  <2>3. PICK px \in FillPrices(prices[decision.symbol]) :
          Buy(decision.symbol, DecidedAmount, px, day)
    BY <1>8 DEF ActBuy
  <2>4. decision.symbol \in Symbols /\ prices[decision.symbol] # NoQuote
    BY <2>1 DEF CycleInvariant, CycleShape, DecisionOK, OrderPhases
  <2>5. prices[decision.symbol] \in Quotes /\ px \in Fills
    BY <1>0, <2>3, <2>4, FillsOfQuote
  <2>6. ASSUME NEW r \in Symbols, StopTriggered(r)'
        PROVE  r = decision.symbol /\ prices[decision.symbol] <= OneDollar
    BY <1>0, <2>1, <2>2, <2>3, <2>4, <2>5, <2>6, BuyTriggersNoStop
  <2>7. \A r \in Symbols : StopTriggered(r)' => AddedOnSuspectQuote(r)'
    BY <2>1, <2>6 DEF AddedOnSuspectQuote
  <2> QED BY <2>1, <2>7 DEF NoneBreached
<1> QED BY <1>1, <1>2, <1>3, <1>4, <1>5, <1>6, <1>7, <1>8 DEF CycleNext

\* No cycle ends with an open position past its trailing stop on a quote the
\* guards believe, whatever the arbitrator decided and whether risk_check let it
\* through (_run_exit_guards, execute_node and skip_node).
THEOREM StopLossAlwaysHonoured == CycleSpec => []StopLossHonoured
<1>1. CycleInit => NoneBreached
  BY DEF CycleInit, NoneBreached, AfterSweep
<1>2. CycleInvariant /\ NoneBreached /\ [CycleNext]_vars => NoneBreached'
  BY StopStepKept
<1>3. NoneBreached => StopLossHonoured
  BY DEF NoneBreached, StopLossHonoured, AfterSweep
<1> QED BY <1>1, <1>2, <1>3, CycleInvariantHolds, PTL DEF CycleSpec

-----------------------------------------------------------------------------
(* The trades table and the cash.  Between an order and its row the ledger   *)
(* is behind by exactly that row, and the state file, saved with the order,  *)
(* already holds the new cash: so a stop in between loses the row.           *)

NothingPending ==
  phase \in {"fetch_data", "risk_check", "start_node", "act"} => unlogged = NoTrade

Balanced ==
  ~rowLost => IF unlogged = NoTrade THEN ledger = cash
              ELSE ledger + CashEffect(unlogged) = cash

LedgerInvariant ==
  /\ NothingPending
  /\ ~SaveMayFail => /\ Balanced
                     /\ saved.exists => saved.cash = cash

\* What a sale brings in is a natural number.
LEMMA ProceedsNatural ==
  ASSUME BookInvariant, NEW s \in Symbols, NEW pct \in SellPcts, NEW px \in Fills,
         Sell(s, pct, px)
  PROVE  Proceeds(s, pct, px) \in Nat
<1>1. /\ pct \in Nat /\ pct <= 100 /\ px \in Nat \ {0} /\ ShareScale \in Nat \ {0}
      /\ positions[s].shares \in Nat
  BY PortfolioAssumption, ShareScaleAssumption
     DEF Sell, CanSell, BookInvariant, LedgerTypeOK, BookType, Position
<1>2. PICK n \in Nat : n = SharesSold(s, pct)
  BY <1>1, SharesLeft DEF SharesSold
<1>3. PICK q \in Nat : q = SellPx(px)
  BY <1>1, FillPricePositive
<1>4. PICK x \in Nat : x = n * q
  BY <1>2, <1>3, SMT
<1>5. x \div ShareScale \in Nat
  BY <1>1, <1>4, DivBound
<1> QED BY <1>2, <1>3, <1>4, <1>5 DEF Proceeds, Worth

\* The row of an order accounts for what the order did to the cash.
LEMMA OrderBalances ==
  ASSUME BookInvariant, ~SaveMayFail => Balanced,
         unlogged = NoTrade, UNCHANGED <<ledger, rowLost>>,
         \/ \E s \in Symbols, amount \in Nat, px \in Fills :
              /\ Buy(s, amount, px, day)
              /\ unlogged' = [kind |-> "decision", symbol |-> s, action |-> "BUY",
                               amount |-> Spend(amount)]
         \/ \E s \in Symbols, pct \in SellPcts, px \in Fills,
               kind \in {"stop", "take_profit", "time_stop", "decision"} :
              /\ Sell(s, pct, px)
              /\ unlogged' = SaleRow(kind, s, pct, px),
         BookInvariant'
  PROVE  /\ unlogged' # NoTrade
         /\ ~SaveMayFail => Balanced' /\ (saved'.exists => saved'.cash = cash')
<1>1. cash \in Nat /\ cash' \in Nat
  BY DEF BookInvariant, LedgerTypeOK, BookType
<1>2. ~SaveMayFail => (saved'.exists => saved'.cash = cash')
  BY DEF Buy, Sell, SaveState
<1>3. ASSUME NEW s \in Symbols, NEW amount \in Nat, NEW px \in Fills, Buy(s, amount, px, day),
             unlogged' = [kind |-> "decision", symbol |-> s, action |-> "BUY",
                          amount |-> Spend(amount)]
      PROVE  unlogged' # NoTrade /\ CashEffect(unlogged') = cash' - cash
  <2>1. PICK spend \in Nat : spend = Spend(amount)
    BY <1>1, SpendCovered
  <2>2. PICK c \in Nat : c = Commission(spend)
    BY <2>1, CommissionBound
  <2>3. cash' = cash - (spend + c)
    BY <1>3, <2>1, <2>2 DEF Buy
  <2>4. unlogged'.action = "BUY" /\ unlogged'.amount = spend /\ unlogged'.kind = "decision"
    BY <1>3, <2>1
  <2>5. CashEffect(unlogged') = -(spend + c)
    BY <2>2, <2>4 DEF CashEffect
  <2>6. unlogged' # NoTrade
    BY <2>4 DEF NoTrade
  <2> QED BY <1>1, <2>1, <2>2, <2>3, <2>5, <2>6
<1>4. ASSUME NEW s \in Symbols, NEW pct \in SellPcts, NEW px \in Fills,
             NEW kind \in {"stop", "take_profit", "time_stop", "decision"},
             Sell(s, pct, px), unlogged' = SaleRow(kind, s, pct, px)
      PROVE  unlogged' # NoTrade /\ CashEffect(unlogged') = cash' - cash
  <2>1. PICK got \in Nat : got = Proceeds(s, pct, px)
    BY <1>4, ProceedsNatural
  <2>2. PICK c \in Nat : c = Commission(got)
    BY <2>1, CommissionBound
  <2>3. cash' = cash + (got - c)
    BY <1>4, <2>1, <2>2 DEF Sell
  <2>4. unlogged'.action = "SELL" /\ unlogged'.amount = got /\ unlogged'.kind = kind
    BY <1>4, <2>1 DEF SaleRow
  <2>5. CashEffect(unlogged') = got - c
    BY <2>2, <2>4 DEF CashEffect
  <2>6. unlogged' # NoTrade
    BY <2>4 DEF NoTrade
  <2> QED BY <1>1, <2>1, <2>2, <2>3, <2>5, <2>6
<1>5. unlogged' # NoTrade /\ CashEffect(unlogged') = cash' - cash
  BY <1>3, <1>4
<1>6. ~SaveMayFail => Balanced'
  <2> SUFFICES ASSUME ~SaveMayFail, ~rowLost PROVE ledger + CashEffect(unlogged') = cash'
    BY <1>5 DEF Balanced, CashEffect
  <2>1. ledger = cash
    BY DEF Balanced
  <2>2. \A x, y \in Nat : x + (y - x) = y
    OBVIOUS
  <2>3. cash + (cash' - cash) = cash'
    BY <1>1, <2>2, Zenon
  <2> QED BY <1>5, <2>1, <2>3
<1> QED BY <1>1, <1>2, <1>5, <1>6

\* Every step keeps the ledger behind the cash by the pending row only.
LEMMA LedgerStepKept ==
  ASSUME CycleInvariant, LedgerInvariant, [CycleNext]_vars
  PROVE  LedgerInvariant'
<1>0. BookInvariant /\ BookInvariant'
  BY CycleStepImplements DEF CycleInvariant
<1>1. CASE UNCHANGED vars
  BY <1>1 DEF vars, pvars, cvars, LedgerInvariant, NothingPending, Balanced, CashEffect, Commission
<1>2. CASE FetchData \/ RiskCheck \/ StartNode \/ EndStops \/ EndExits \/ ActWithoutTrade
           \/ Record \/ Death \/ EndCycle \/ \E s \in Symbols : Mark(s)
  <2>1. UNCHANGED <<cash, saved, unlogged, ledger, rowLost>>
    BY <1>2 DEF FetchData, RiskCheck, StartNode, EndStops, EndExits, ActWithoutTrade, Record, Death,
                EndCycle, Mark, ActUnchanged, pvars, UpdateWatermarks, RecordValue, CheckDeath,
                MarkTakeProfit
  <2>2. NothingPending'
    <3>1. CASE FetchData \/ RiskCheck \/ StartNode
      BY <2>1, <3>1 DEF FetchData, RiskCheck, StartNode, LedgerInvariant, NothingPending
    <3>2. CASE EndExits \/ EndStops \/ EndCycle
      BY <2>1, <3>2 DEF EndExits, EndStops, EndCycle, NothingPending
    <3>3. CASE ActWithoutTrade \/ Record \/ Death \/ \E s \in Symbols : Mark(s)
      BY <3>3 DEF ActWithoutTrade, Record, Death, Mark, GoTo, NothingPending
    <3> QED BY <1>2, <3>1, <3>2, <3>3
  <2>3. Balanced => Balanced'
    BY <2>1 DEF Balanced, CashEffect, Commission
  <2> QED BY <2>1, <2>2, <2>3 DEF LedgerInvariant
<1>3. CASE InsertRow
  <2>1. unlogged # NoTrade /\ unlogged' = NoTrade /\ UNCHANGED <<cash, saved>>
    BY <1>3 DEF InsertRow, pvars
  <2>2. NothingPending'
    BY <2>1 DEF NothingPending
  <2>3. CASE rowLost' = TRUE
    BY <2>1, <2>2, <2>3 DEF LedgerInvariant, Balanced
  <2>4. CASE ledger' = ledger + CashEffect(unlogged) /\ rowLost' = rowLost
    BY <2>1, <2>2, <2>4 DEF LedgerInvariant, Balanced
  <2> QED BY <1>3, <2>3, <2>4 DEF InsertRow
<1>4. CASE ActBuy
  <2>1. phase = "act" /\ phase' = "record_value" /\ unlogged = NoTrade
        /\ UNCHANGED <<ledger, rowLost>>
    BY <1>4 DEF ActBuy, ActUnchanged, GoTo, LedgerInvariant, NothingPending
  <2>2. PICK px \in FillPrices(prices[decision.symbol]) :
          /\ Buy(decision.symbol, DecidedAmount, px, day) /\ decision.action = "BUY"
          /\ unlogged' = [kind |-> "decision", symbol |-> decision.symbol, action |-> "BUY",
                          amount |-> Spend(DecidedAmount)]
    BY <1>4 DEF ActBuy
  <2>3. decision.symbol \in Symbols /\ px \in Fills /\ DecidedAmount \in Nat
    BY <2>1, <2>2, OrderArguments DEF OrderPhases
  <2>4. ~SaveMayFail => Balanced' /\ (saved'.exists => saved'.cash = cash')
    BY <1>0, <2>1, <2>2, <2>3, OrderBalances DEF LedgerInvariant
  <2> QED BY <2>1, <2>4 DEF LedgerInvariant, NothingPending
<1>5. CASE ActSell
  <2>1. phase = "act" /\ phase' = "record_value" /\ unlogged = NoTrade
        /\ UNCHANGED <<ledger, rowLost>>
    BY <1>5 DEF ActSell, ActUnchanged, GoTo, LedgerInvariant, NothingPending
  <2>2. PICK px \in FillPrices(prices[decision.symbol]) :
          /\ Sell(decision.symbol, decision.sellPct, px) /\ decision.action = "SELL"
          /\ unlogged' = SaleRow("decision", decision.symbol, decision.sellPct, px)
    BY <1>5 DEF ActSell
  <2>3. decision.symbol \in Symbols /\ px \in Fills /\ decision.sellPct \in SellPcts
    BY <2>1, <2>2, OrderArguments DEF OrderPhases
  <2>4. ~SaveMayFail => Balanced' /\ (saved'.exists => saved'.cash = cash')
    BY <1>0, <2>1, <2>2, <2>3, OrderBalances DEF LedgerInvariant
  <2> QED BY <2>1, <2>4 DEF LedgerInvariant, NothingPending
<1>6. ASSUME NEW s \in Symbols, StopOut(s) \/ TakeProfit(s) \/ TimeStop(s)
      PROVE  LedgerInvariant'
  <2>1. phase' \in {"stops", "exits", "mark"} /\ unlogged = NoTrade
        /\ UNCHANGED <<ledger, rowLost>>
    BY <1>6 DEF StopOut, TakeProfit, TimeStop, GoTo
  <2>2. PICK kind \in {"stop", "take_profit", "time_stop"}, pct \in {100, TakeProfitSellPct},
             px \in FillPrices(prices[s]) :
          Sell(s, pct, px) /\ unlogged' = SaleRow(kind, s, pct, px)
    BY <1>6 DEF StopOut, TakeProfit, TimeStop, SweepSale
  <2>3. prices[s] # NoQuote
    BY <1>6 DEF StopOut, TakeProfit, TimeStop, StopTriggered, TakeProfitDue, TimeStopDue
  <2>4. px \in Fills /\ pct \in SellPcts
    BY <2>2, <2>3, FillsOfQuote, CycleAssumption DEF CycleInvariant, CycleShape
  <2>5. ~SaveMayFail => Balanced' /\ (saved'.exists => saved'.cash = cash')
    BY <1>0, <2>1, <2>2, <2>4, OrderBalances DEF LedgerInvariant
  <2> QED BY <2>1, <2>5 DEF LedgerInvariant, NothingPending
<1>7. CASE Reboot
  <2>1. /\ unlogged' = NoTrade /\ saved' = saved
        /\ ledger' = IF saved.exists THEN ledger ELSE InitialBalance
        /\ cash' = IF saved.exists THEN saved.cash ELSE InitialBalance
        /\ rowLost' = (saved.exists /\ (rowLost \/ unlogged # NoTrade))
    BY <1>7 DEF Reboot, Restart, LoadedBook, FreshBook
  <2>2. NothingPending'
    BY <2>1 DEF NothingPending
  <2>3. CASE ~saved.exists
    BY <2>1, <2>2, <2>3 DEF LedgerInvariant, Balanced
  <2>4. CASE saved.exists
    BY <2>1, <2>2, <2>4 DEF LedgerInvariant, Balanced
  <2> QED BY <2>3, <2>4
<1> QED BY <1>1, <1>2, <1>3, <1>4, <1>5, <1>6, <1>7 DEF CycleNext

\* The drift check of a restart (runtime/controller.py,
\* _reconcile_portfolio_state) never accuses the portfolio wrongly: while every
\* trade has its row, the trades table adds up to the cash.
THEOREM LedgerAlwaysMatches == CycleSpec => []LedgerMatchesCash
<1>1. CycleInit => LedgerInvariant
  BY DEF CycleInit, Init, LedgerInvariant, NothingPending, Balanced, NoFile
<1>2. CycleInvariant /\ LedgerInvariant /\ [CycleNext]_vars => LedgerInvariant'
  BY LedgerStepKept
<1>3. LedgerInvariant => LedgerMatchesCash
  BY DEF LedgerInvariant, LedgerMatchesCash, Balanced
<1> QED BY <1>1, <1>2, <1>3, CycleInvariantHolds, PTL DEF CycleSpec

-----------------------------------------------------------------------------
(* The partial profit.  The count of a position's take-profit sales is ahead *)
(* of its flag between the sale and mark_take_profit only; a restart may     *)
(* forget the flag, at the price of one restart.                             *)

Taken(s) == positions[s].tpTaken \/ (phase = "mark" /\ unlogged.symbol = s)

TakeProfitInvariant ==
  /\ takeProfits \in [Symbols -> Nat]
  /\ restarts \in Nat
  /\ \A s \in Symbols : s \notin Held => takeProfits[s] = 0
  /\ \A s \in Symbols : takeProfits[s] <= restarts + (IF Taken(s) THEN 1 ELSE 0)

\* A full sale closes the position, a partial one leaves it open with its flag.
LEMMA SellOutcome ==
  ASSUME BookInvariant, NEW s \in Symbols, NEW pct \in SellPcts, NEW px, Sell(s, pct, px)
  PROVE  /\ \A r \in Symbols : r # s => positions'[r] = positions[r]
         /\ s \in Held /\ pct \in 1..100
         /\ pct = 100 => s \notin Held'
         /\ pct # 100 => s \in Held' /\ positions'[s].tpTaken = positions[s].tpTaken
<1>1. positions \in [Symbols -> Position] /\ s \in Held /\ pct \in 1..100
  BY PortfolioAssumption DEF BookInvariant, LedgerTypeOK, BookType, Sell, CanSell
<1>2. \A r \in Symbols : r # s => positions'[r] = positions[r]
  BY <1>1 DEF Sell
<1>3. CASE pct = 100
  <2>1. positions'[s].shares = 0
    BY <1>1, <1>3 DEF Sell, NoPosition
  <2> QED BY <1>1, <1>2, <1>3, <2>1 DEF Held
<1>4. CASE pct # 100
  <2>1. PICK n \in Nat : n = positions[s].shares /\ n > 0
    BY <1>1 DEF Held, Position
  <2>2. PICK m \in Nat : m = SharesSold(s, pct) /\ m < n
    BY <1>1, <1>4, <2>1, SharesLeft DEF SharesSold
  <2>3. positions' = [positions EXCEPT ![s].shares = @ - SharesSold(s, pct)]
    BY <1>1, <1>4 DEF Sell
  <2>4. positions'[s].shares = n - m /\ positions'[s].tpTaken = positions[s].tpTaken
    BY <1>1, <2>1, <2>2, <2>3 DEF Position
  <2> QED BY <1>1, <1>2, <1>4, <2>1, <2>2, <2>4 DEF Held
<1> QED BY <1>3, <1>4

\* An add leaves the position open.
LEMMA BoughtStaysHeld ==
  ASSUME BookInvariant, NEW s \in Symbols, NEW amount \in Nat, NEW px \in Fills,
         Buy(s, amount, px, day), s \in Held
  PROVE  s \in Held'
<1>1. positions \in [Symbols -> Position] /\ cash \in Nat
  BY DEF BookInvariant, LedgerTypeOK, BookType
<1>2. PICK spend \in Nat \ {0} : spend = Spend(amount)
  BY <1>1, SpendCovered DEF Buy, CanBuy
<1>3. PICK n \in Nat : n = SharesFor(spend, px)
  BY <1>2, SharesBought
<1>4. PICK old \in Nat : old = positions[s].shares /\ old > 0
  BY <1>1 DEF Held, Position
<1>5. positions'[s].shares = old + n
  BY <1>1, <1>2, <1>3, <1>4 DEF Buy, Pyramided
<1> QED BY <1>3, <1>4, <1>5 DEF Held

\* Every step keeps the take-profit sales within the flag and the restarts.
LEMMA TakeProfitStepKept ==
  ASSUME CycleInvariant, TakeProfitInvariant, [CycleNext]_vars
  PROVE  TakeProfitInvariant'
<1>0. BookInvariant /\ positions \in [Symbols -> Position]
  BY DEF CycleInvariant, BookInvariant, LedgerTypeOK, BookType
<1>1. CASE UNCHANGED vars
  BY <1>1 DEF vars, pvars, cvars, TakeProfitInvariant, Taken, Held
<1>2. CASE FetchData \/ RiskCheck \/ StartNode \/ EndStops \/ EndExits \/ ActWithoutTrade
           \/ Record \/ Death \/ EndCycle \/ InsertRow
  <2>1. UNCHANGED <<positions, takeProfits, restarts>> /\ phase # "mark"
    BY <1>2 DEF FetchData, RiskCheck, StartNode, EndStops, EndExits, ActWithoutTrade, Record, Death,
                EndCycle, InsertRow, ActUnchanged, pvars, UpdateWatermarks, RecordValue, CheckDeath
  <2>2. \A s \in Symbols : Taken(s) => Taken(s)'
    BY <2>1 DEF Taken
  <2>3. \A s \in Symbols : takeProfits'[s] <= restarts' + (IF Taken(s)' THEN 1 ELSE 0)
    BY <2>1, <2>2 DEF TakeProfitInvariant
  <2> QED BY <2>1, <2>3 DEF TakeProfitInvariant, Held
<1>3. ASSUME NEW s \in Symbols, StopOut(s) \/ TimeStop(s) PROVE TakeProfitInvariant'
  <2>1. takeProfits' = [takeProfits EXCEPT ![s] = 0] /\ restarts' = restarts /\ phase # "mark"
    BY <1>3 DEF StopOut, TimeStop
  <2>2. PICK px : Sell(s, 100, px)
    BY <1>3 DEF StopOut, TimeStop, SweepSale
  <2>3. \A r \in Symbols : r # s => positions'[r] = positions[r]
    BY <1>0, <2>2, SellOutcome, CycleAssumption
  <2>4. ASSUME NEW r \in Symbols, r # s PROVE Taken(r) => Taken(r)'
    BY <2>1, <2>3, <2>4 DEF Taken
  <2> QED BY <2>1, <2>3, <2>4 DEF TakeProfitInvariant, Held
<1>4. ASSUME NEW s \in Symbols, TakeProfit(s) PROVE TakeProfitInvariant'
  <2>1. /\ takeProfits' = [takeProfits EXCEPT ![s] = @ + 1] /\ restarts' = restarts
        /\ phase = "exits" /\ phase' = "mark" /\ ~positions[s].tpTaken
    BY <1>4 DEF TakeProfit, TakeProfitDue, GoTo
  <2>2. PICK px : Sell(s, TakeProfitSellPct, px) /\ unlogged'.symbol = s
    BY <1>4 DEF TakeProfit, SweepSale, SaleRow
  <2>3. TakeProfitSellPct \in SellPcts /\ TakeProfitSellPct # 100
    BY CycleAssumption
  <2>4. s \in Held' /\ \A r \in Symbols : r # s => positions'[r] = positions[r]
    BY <1>0, <2>2, <2>3, SellOutcome
  <2>5. ~Taken(s) /\ Taken(s)'
    BY <2>1, <2>2 DEF Taken
  <2>6. ASSUME NEW r \in Symbols, r # s PROVE Taken(r) => Taken(r)'
    BY <2>1, <2>4, <2>6 DEF Taken
  <2> QED BY <2>1, <2>4, <2>5, <2>6 DEF TakeProfitInvariant, Held
<1>5. ASSUME NEW s \in Symbols, Mark(s) PROVE TakeProfitInvariant'
  <2>1. /\ UNCHANGED <<takeProfits, restarts, unlogged>> /\ unlogged.symbol = s
        /\ positions' = [positions EXCEPT ![s].tpTaken = TRUE]
    BY <1>5 DEF Mark, MarkTakeProfit
  <2>2. /\ \A r \in Symbols : positions'[r].shares = positions[r].shares
        /\ \A r \in Symbols : r # s => positions'[r] = positions[r]
        /\ positions'[s].tpTaken = TRUE
    BY <1>0, <2>1 DEF Position
  <2>3. \A r \in Symbols : Taken(r) => Taken(r)'
    BY <2>1, <2>2 DEF Taken
  <2>4. \A r \in Symbols : takeProfits'[r] <= restarts' + (IF Taken(r)' THEN 1 ELSE 0)
    BY <2>1, <2>3 DEF TakeProfitInvariant
  <2> QED BY <2>1, <2>2, <2>4 DEF TakeProfitInvariant, Held
<1>6. CASE ActSell
  <2> DEFINE s == decision.symbol
  <2>1. /\ takeProfits' = (IF decision.sellPct = 100 THEN [takeProfits EXCEPT ![s] = 0]
                           ELSE takeProfits)
        /\ restarts' = restarts /\ phase = "act"
    BY <1>6 DEF ActSell, ActUnchanged
  <2>2. PICK px : Sell(s, decision.sellPct, px)
    BY <1>6 DEF ActSell
  <2>3. s \in Symbols /\ decision.sellPct \in SellPcts
    BY <1>6, <2>1, OrderArguments DEF OrderPhases, ActSell
  <2> HIDE DEF s
  <2>4. /\ \A r \in Symbols : r # s => positions'[r] = positions[r]
        /\ decision.sellPct # 100 => s \in Held' /\ positions'[s].tpTaken = positions[s].tpTaken
    BY <1>0, <2>2, <2>3, SellOutcome
  <2>5. ASSUME NEW r \in Symbols, r # s \/ decision.sellPct # 100 PROVE Taken(r) => Taken(r)'
    BY <2>1, <2>4, <2>5 DEF Taken
  <2>6. CASE decision.sellPct = 100
    BY <2>1, <2>3, <2>4, <2>5, <2>6 DEF TakeProfitInvariant, Held
  <2>7. CASE decision.sellPct # 100
    BY <2>1, <2>3, <2>4, <2>5, <2>7 DEF TakeProfitInvariant, Held
  <2> QED BY <2>6, <2>7
<1>7. CASE ActBuy
  <2> DEFINE s == decision.symbol
  <2>1. UNCHANGED <<takeProfits, restarts>> /\ phase = "act"
    BY <1>7 DEF ActBuy, ActUnchanged
  <2>2. s \in Symbols /\ FillPrices(prices[s]) \subseteq Fills /\ DecidedAmount \in Nat
    BY <1>7, <2>1, OrderArguments DEF OrderPhases, ActBuy
  <2>3. PICK px \in Fills, amount \in Nat : Buy(s, amount, px, day)
    BY <1>7, <2>2 DEF ActBuy
  <2> HIDE DEF s
  <2>4. /\ \A r \in Symbols : r # s => positions'[r] = positions[r]
        /\ s \in Held => positions'[s].tpTaken = positions[s].tpTaken
    BY <1>0, <2>2, <2>3 DEF Buy, Pyramided
  <2>5. ASSUME NEW r \in Symbols, r # s \/ s \in Held PROVE Taken(r) => Taken(r)'
    BY <2>1, <2>4, <2>5 DEF Taken
  <2>6. \A r \in Symbols : takeProfits'[r] <= restarts' + (IF Taken(r)' THEN 1 ELSE 0)
    BY <2>1, <2>2, <2>5 DEF TakeProfitInvariant
  <2>7. ASSUME NEW r \in Symbols, r \notin Held' PROVE r \notin Held
    <3>1. CASE r # s
      BY <2>4, <2>7, <3>1 DEF Held
    <3>2. CASE r = s /\ s \in Held
      <4>1. s \in Held'
        BY <1>0, <2>2, <2>3, <3>2, BoughtStaysHeld
      <4> QED BY <2>7, <3>2, <4>1
    <3> QED BY <3>1, <3>2
  <2> QED BY <2>1, <2>6, <2>7 DEF TakeProfitInvariant
<1>8. CASE Reboot
  <2>1. /\ restarts' = restarts + 1
        /\ takeProfits' = [s \in Symbols |-> IF positions'[s].shares > 0 THEN takeProfits[s] ELSE 0]
    BY <1>8 DEF Reboot
  <2>2. \A s \in Symbols : takeProfits'[s] \in Nat /\ takeProfits'[s] <= restarts'
    BY <2>1 DEF TakeProfitInvariant
  <2> QED BY <2>1, <2>2 DEF TakeProfitInvariant, Held
<1> QED BY <1>1, <1>2, <1>3, <1>4, <1>5, <1>6, <1>7, <1>8 DEF CycleNext

\* The partial profit of a position is taken at most once per start of the
\* process: the flag mark_take_profit sets after the sale's save_state can only
\* be forgotten by a restart (core/data.py, mark_take_profit).
THEOREM TakeProfitOnce == CycleSpec => []TakeProfitOncePerStart
<1>1. CycleInit => TakeProfitInvariant
  BY DEF CycleInit, TakeProfitInvariant
<1>2. CycleInvariant /\ TakeProfitInvariant /\ [CycleNext]_vars => TakeProfitInvariant'
  BY TakeProfitStepKept
<1>3. TakeProfitInvariant => TakeProfitOncePerStart
  BY DEF TakeProfitInvariant, TakeProfitOncePerStart
<1> QED BY <1>1, <1>2, <1>3, CycleInvariantHolds, PTL DEF CycleSpec

-----------------------------------------------------------------------------
(* Death. *)

DeadIsIdle ==
  /\ isDead => phase \in {"save_memory", "fetch_data"}
  /\ restarts \in Nat

\* Once check_death has found the value below the threshold, this process places
\* no order: not in the sweep, not by decision (nodes.py, check_death_node;
\* runtime/controller.py, _agent_loop).
THEOREM DeadTradeNoMore == CycleSpec => DeathStopsTrading
<1>1. CycleInit => DeadIsIdle
  BY DEF CycleInit, Init, DeadIsIdle
<1>2. ASSUME DeadIsIdle, [CycleNext]_vars
      PROVE  /\ DeadIsIdle'
             /\ isDead /\ restarts' = restarts => UNCHANGED <<cash, positions>>
  <2>1. CASE UNCHANGED vars
    BY <1>2, <2>1 DEF vars, pvars, cvars, DeadIsIdle
  <2>2. CASE Reboot
    <3>1. ~isDead' /\ restarts' = restarts + 1
      BY <2>2 DEF Reboot, Restart
    <3> QED BY <1>2, <3>1 DEF DeadIsIdle
  <2>3. CASE FetchData \/ EndCycle \/ InsertRow \/ Death \/ RiskCheck \/ Record \/ StartNode
             \/ EndStops \/ EndExits \/ ActWithoutTrade
    BY <1>2, <2>3 DEF FetchData, MayRun, EndCycle, InsertRow, Death, CheckDeath, RiskCheck,
       Record, RecordValue, StartNode, UpdateWatermarks, EndStops, EndExits, ActWithoutTrade,
       ActUnchanged, GoTo, pvars, DeadIsIdle
  <2>4. CASE ActBuy \/ ActSell \/ \E s \in Symbols : StopOut(s) \/ TakeProfit(s) \/ Mark(s)
                                                     \/ TimeStop(s)
    <3>1. phase \notin {"save_memory", "fetch_data"} /\ restarts' = restarts /\ isDead' = isDead
      BY <2>4 DEF ActBuy, ActSell, ActUnchanged, StopOut, TakeProfit, Mark, TimeStop, SweepSale,
                  Buy, Sell, MarkTakeProfit
    <3> QED BY <1>2, <3>1 DEF DeadIsIdle
  <2> QED BY <1>2, <2>1, <2>2, <2>3, <2>4 DEF CycleNext
<1> DEFINE NoTrading == isDead /\ restarts' = restarts => UNCHANGED <<cash, positions>>
<1>3. DeadIsIdle /\ [CycleNext]_vars => DeadIsIdle' /\ [NoTrading]_vars
  BY <1>2
<1> HIDE DEF NoTrading
<1>4. CycleSpec => [][NoTrading]_vars
  BY <1>1, <1>3, PTL DEF CycleSpec
<1> QED BY <1>4 DEF DeathStopsTrading, NoTrading

-----------------------------------------------------------------------------
(* The exposure.  The size of an order is bounded where it is placed, by the *)
(* clamp of execute_node; the size of the position it adds to was bounded in *)
(* risk_check, several steps before.  The invariant carries that bound to    *)
(* the order: the sweep in between only sells, and values nothing anew.      *)

CapOf(value) ==
  decision.symbol \in Held => WithinPyramidCap(decision.symbol, decision.alloc, value)

ExposureInvariant ==
  /\ restarts \in Nat
  /\ phase \in OrderPhases /\ decision.action = "BUY" =>
       /\ decision.passed
       /\ CapOf(IF phase = "start_node" THEN TotalValue(prices) ELSE pv)

\* Fewer shares are worth less.
LEMMA FewerWorthLess ==
  ASSUME NEW m \in Nat, NEW n \in Nat, m <= n, NEW px \in Nat
  PROVE  Worth(m, px) \in Nat /\ Worth(n, px) \in Nat /\ Worth(m, px) <= Worth(n, px)
<1>1. ShareScale \in Nat \ {0}
  BY ShareScaleAssumption
<1>2. PICK a \in Nat, b \in Nat : a = m * px /\ b = n * px /\ a <= b
  <2>1. m * px \in Nat /\ n * px \in Nat /\ m * px <= n * px
    BY SMT
  <2> QED BY <2>1
<1>3. PICK q \in Nat : q = a \div ShareScale /\ q * ShareScale <= a
  BY <1>1, DivBound
<1>4. PICK c \in Nat : c = q * ShareScale /\ c <= b
  BY <1>1, <1>2, <1>3, SMT
<1>5. q <= b \div ShareScale /\ b \div ShareScale \in Nat
  BY <1>1, <1>3, <1>4, DivAtLeast, DivBound
<1> QED BY <1>2, <1>3, <1>5 DEF Worth

\* The account is worth the same while cash, positions and quotes are.
LEMMA ValueUnmoved ==
  ASSUME UNCHANGED <<cash, positions, prices>>
  PROVE  TotalValue(prices)' = TotalValue(prices)
BY DEF TotalValue, MapThenSumSet, MapThenFoldSet, Held, MarkPrice

\* Only the decided BUY adds shares to a position while the process runs.
LEMMA OnlyOrdersAdd ==
  ASSUME CycleInvariant, restarts \in Nat, [CycleNext]_vars,
         NEW s \in Symbols, positions'[s].shares > positions[s].shares, restarts' = restarts
  PROVE  ActBuy /\ s = decision.symbol
<1>1. BookInvariant /\ positions \in [Symbols -> Position] /\ positions[s].shares \in Nat
  BY DEF CycleInvariant, BookInvariant, LedgerTypeOK, BookType, Position
<1>2. positions'[s].shares # positions[s].shares
  BY <1>1
<1>3. ~Reboot /\ CycleNext
  <2>1. ~UNCHANGED vars
    BY <1>2 DEF vars, pvars
  <2>2. ~Reboot
    BY DEF Reboot
  <2> QED BY <2>1, <2>2
<1>4. ASSUME NEW r \in Symbols, NEW pct \in SellPcts, NEW px, Sell(r, pct, px) PROVE FALSE
  <2>1. CASE pct >= 100
    <3>1. positions'[s] \in {positions[s], NoPosition}
      BY <1>1, <1>4, <2>1 DEF Sell
    <3> QED BY <1>1, <1>2, <3>1 DEF NoPosition
  <2>2. CASE ~(pct >= 100)
    <3>1. positions' = [positions EXCEPT ![r].shares = @ - SharesSold(r, pct)]
      BY <1>4, <2>2 DEF Sell
    <3>2. pct \in Nat /\ pct <= 100
      BY <1>4, PortfolioAssumption DEF Sell, CanSell
    <3>3. SharesSold(r, pct) \in 0..positions[r].shares /\ positions[r].shares \in Nat
      BY <1>1, <3>2, SharesLeft DEF SharesSold, Position
    <3>4. positions'[s].shares <= positions[s].shares
      BY <1>1, <3>1, <3>3 DEF Position
    <3> QED BY <1>1, <3>1, <3>3, <3>4 DEF Position
  <2> QED BY <2>1, <2>2
<1>5. ASSUME NEW r \in Symbols PROVE ~(StopOut(r) \/ TakeProfit(r) \/ TimeStop(r) \/ Mark(r))
  <2>1. ~(StopOut(r) \/ TakeProfit(r) \/ TimeStop(r))
    BY <1>4, CycleAssumption DEF StopOut, TakeProfit, TimeStop, SweepSale
  <2>2. ~Mark(r)
    BY <1>1, <1>2 DEF Mark, MarkTakeProfit, Position
  <2> QED BY <2>1, <2>2
<1>6. ~ActSell
  <2> SUFFICES ASSUME ActSell PROVE FALSE
    OBVIOUS
  <2>1. phase \in OrderPhases /\ decision.action = "SELL"
    BY DEF ActSell, OrderPhases
  <2>2. decision.symbol \in Symbols /\ decision.sellPct \in SellPcts
    BY <2>1, OrderArguments
  <2> QED BY <1>4, <2>2 DEF ActSell
<1>7. ActBuy
  BY <1>2, <1>3, <1>5, <1>6
     DEF CycleNext, FetchData, RiskCheck, StartNode, UpdateWatermarks, EndStops, EndExits,
         ActWithoutTrade, Record, RecordValue, Death, CheckDeath, EndCycle, InsertRow, pvars
<1>8. s = decision.symbol
  BY <1>1, <1>2, <1>7 DEF ActBuy, Buy
<1> QED BY <1>7, <1>8

\* Shares that are fewer, at the same prices, stay below the cap they were below.
LEMMA FewerKeepsCap ==
  ASSUME CycleInvariant, ExposureInvariant, UNCHANGED <<prices, pv, decision>>,
         phase \in OrderPhases \ {"start_node"}, decision.action = "BUY",
         positions'[decision.symbol].shares \in Nat,
         positions'[decision.symbol].shares <= positions[decision.symbol].shares
  PROVE  CapOf(pv)'
<1> DEFINE s == decision.symbol
<1>1. /\ s \in Symbols /\ decision.alloc \in Nat /\ pv \in Nat /\ prices[s] \in Quotes
      /\ Quotes \subseteq Nat /\ MaxAllocPct \in Nat /\ prices' = prices
  BY FillsOfQuote, PortfolioAssumption, CycleAssumption
     DEF CycleInvariant, CycleShape, DecisionOK, OrderPhases
<1>2. positions[s].shares \in Nat
  BY <1>1 DEF CycleInvariant, BookInvariant, LedgerTypeOK, BookType, Position
<1>3. CapOf(pv)
  BY DEF ExposureInvariant
<1> SUFFICES ASSUME (s \in Held)' PROVE WithinPyramidCap(s, decision.alloc, pv)'
  BY DEF CapOf
<1>4. s \in Held
  BY <1>1, <1>2 DEF Held
<1>5. WithinPyramidCap(s, decision.alloc, pv)
  BY <1>3, <1>4 DEF CapOf
<1>6. PICK m \in Nat, n \in Nat, px \in Nat :
        m = positions'[s].shares /\ n = positions[s].shares /\ px = prices[s] /\ m <= n
  BY <1>1, <1>2
<1>7. PICK v \in Nat, w \in Nat : v = Worth(m, px) /\ w = Worth(n, px) /\ v <= w
  <2>1. Worth(m, px) \in Nat /\ Worth(n, px) \in Nat /\ Worth(m, px) <= Worth(n, px)
    BY <1>6, FewerWorthLess
  <2> QED BY <2>1
<1>8. PICK a \in Nat, c \in Nat : a = decision.alloc * pv /\ c = 3 * MaxAllocPct * pv
  <2>1. PICK d \in Nat, p \in Nat, x \in Nat : d = decision.alloc /\ p = pv /\ x = MaxAllocPct
    BY <1>1
  <2>2. d * p \in Nat /\ 3 * x * p \in Nat
    OBVIOUS
  <2> QED BY <2>1, <2>2
<1>9. (w * 100 + a) * 2 <= c
  BY <1>5, <1>6, <1>7, <1>8 DEF WithinPyramidCap
<1>10. (v * 100 + a) * 2 <= c
  BY <1>7, <1>8, <1>9
<1> QED BY <1>1, <1>6, <1>7, <1>8, <1>10 DEF WithinPyramidCap

\* risk_check bounds the position it lets the order add to.
LEMMA RiskCheckCaps ==
  ASSUME ExposureInvariant, RiskCheck
  PROVE  ExposureInvariant'
<1>1. PICK d \in Decisions, earnings \in EarningsStates, vol \in VolFactors :
        LET sized == IF d.action = "BUY"
                     THEN [d EXCEPT !.alloc = SizedAlloc(@, earnings, vol)] ELSE d
        IN decision' = IF Passes(sized, earnings)
                       THEN [sized EXCEPT !.passed = TRUE] ELSE Hold
  BY DEF RiskCheck
<1>2. /\ UNCHANGED <<cash, positions, prices, restarts>> /\ phase' = "start_node"
      /\ TotalValue(prices)' = TotalValue(prices)
  BY ValueUnmoved DEF RiskCheck, GoTo, pvars
<1>3. ASSUME decision'.action = "BUY" PROVE decision'.passed /\ CapOf(TotalValue(prices))'
  <2> DEFINE sized == IF d.action = "BUY"
                      THEN [d EXCEPT !.alloc = SizedAlloc(@, earnings, vol)] ELSE d
  <2>1. Passes(sized, earnings) /\ decision' = [sized EXCEPT !.passed = TRUE]
    BY <1>1, <1>3 DEF Hold
  <2>2. /\ decision'.action = sized.action /\ decision'.symbol = sized.symbol
        /\ decision'.alloc = sized.alloc /\ decision'.passed
    BY <2>1 DEF Decisions, Hold
  <2> HIDE DEF sized
  <2>3. BuyPasses(sized.symbol, sized.alloc, earnings)
    BY <1>3, <2>1, <2>2 DEF Passes
  <2>4. sized.symbol \in Held => WithinPyramidCap(sized.symbol, sized.alloc, TotalValue(prices))
    BY <2>3 DEF BuyPasses
  <2> QED BY <1>2, <2>2, <2>4 DEF CapOf, WithinPyramidCap, Held
<1> QED BY <1>2, <1>3 DEF ExposureInvariant

\* Every step keeps the bound up to the order.
LEMMA ExposureStepKept ==
  ASSUME CycleInvariant, ExposureInvariant, [CycleNext]_vars
  PROVE  ExposureInvariant'
<1>0. restarts' \in Nat
  BY DEF ExposureInvariant, CycleNext, vars, cvars, FetchData, RiskCheck, StartNode, StopOut,
         TakeProfit, Mark, TimeStop, EndStops, EndExits, ActWithoutTrade, ActBuy, ActSell,
         ActUnchanged, Record, Death, EndCycle, InsertRow, Reboot
<1>1. CASE phase' \notin OrderPhases \/ decision'.action # "BUY"
  BY <1>0, <1>1 DEF ExposureInvariant
<1>2. CASE phase' \in OrderPhases /\ decision'.action = "BUY"
  <2>1. ~Reboot /\ ~FetchData /\ ~EndCycle /\ ~ActWithoutTrade /\ ~ActBuy /\ ~ActSell
        /\ ~Record /\ ~Death
    BY <1>2 DEF Reboot, FetchData, EndCycle, ActWithoutTrade, ActBuy, ActSell, Record, Death,
                GoTo, OrderPhases
  <2>2. CASE RiskCheck
    BY <2>2, RiskCheckCaps
  <2>3. CASE StartNode
    <3>1. /\ UNCHANGED <<cash, positions, prices, decision>> /\ phase = "start_node"
          /\ phase' = "stops" /\ pv' = IF decision.passed THEN TotalValue(prices) ELSE 0
      BY <2>3 DEF StartNode, UpdateWatermarks, GoTo, FirstStep
    <3>2. decision.passed /\ CapOf(TotalValue(prices))
      BY <1>2, <3>1 DEF ExposureInvariant, OrderPhases
    <3>3. CapOf(pv)'
      BY <3>1, <3>2 DEF CapOf, WithinPyramidCap, Held
    <3> QED BY <1>0, <3>1, <3>2, <3>3 DEF ExposureInvariant
  <2>4. CASE UNCHANGED vars
    <3>1. UNCHANGED <<cash, positions, prices, decision, phase, pv>>
      BY <2>4 DEF vars, pvars, cvars
    <3>2. TotalValue(prices)' = TotalValue(prices)
      BY <3>1, ValueUnmoved
    <3> QED BY <1>0, <3>1, <3>2 DEF ExposureInvariant, CapOf, WithinPyramidCap, Held
  <2>5. ASSUME EndStops \/ EndExits \/ InsertRow \/ \E s \in Symbols : StopOut(s) \/ TakeProfit(s)
                 \/ Mark(s) \/ TimeStop(s)
        PROVE  ExposureInvariant'
    <3>1. /\ UNCHANGED <<prices, pv, decision, restarts>>
          /\ phase \in (OrderPhases \ {"start_node"}) \cup {"save_memory"}
          /\ phase' # "start_node"
          /\ phase = "save_memory" => phase' = phase
      BY <2>5 DEF EndStops, EndExits, InsertRow, StopOut, TakeProfit, Mark, TimeStop, GoTo,
                  OrderPhases
    <3>2. phase \in OrderPhases \ {"start_node"} /\ decision.action = "BUY" /\ decision.passed
      BY <1>2, <3>1 DEF OrderPhases, ExposureInvariant
    <3>3. decision.symbol \in Symbols /\ positions \in [Symbols -> Position]
          /\ BookInvariant'
      BY <3>2, CycleStepImplements
         DEF CycleInvariant, CycleShape, DecisionOK, BookInvariant, LedgerTypeOK, BookType
    <3>4. positions'[decision.symbol].shares \in Nat /\ positions[decision.symbol].shares \in Nat
      BY <3>3 DEF BookInvariant, LedgerTypeOK, BookType, Position
    <3>5. ~(positions'[decision.symbol].shares > positions[decision.symbol].shares)
      BY <2>1, <3>1, <3>3, OnlyOrdersAdd DEF ExposureInvariant
    <3>6. CapOf(pv)'
      BY <3>1, <3>2, <3>4, <3>5, FewerKeepsCap
    <3> QED BY <1>0, <3>1, <3>2, <3>6 DEF ExposureInvariant
  <2> QED BY <2>1, <2>2, <2>3, <2>4, <2>5 DEF CycleNext
<1> QED BY <1>1, <1>2

\* What the order itself costs, and the shares it buys.
LEMMA OrderCost ==
  ASSUME CycleInvariant, ActBuy
  PROVE  /\ unlogged'.amount \in Nat
         /\ unlogged'.amount * 100 <= pv * Clamped(decision.alloc)
         /\ \E px \in FillPrices(prices[decision.symbol]) :
              Worth(positions'[decision.symbol].shares - positions[decision.symbol].shares, px)
                <= unlogged'.amount
<1> DEFINE s == decision.symbol
<1>1. PICK px \in FillPrices(prices[s]) :
        /\ Buy(s, DecidedAmount, px, day)
        /\ unlogged' = [kind |-> "decision", symbol |-> s, action |-> "BUY",
                        amount |-> Spend(DecidedAmount)]
  BY DEF ActBuy
<1>2. phase \in OrderPhases /\ decision.action = "BUY"
  BY DEF ActBuy, OrderPhases
<1>3. s \in Symbols /\ px \in Fills /\ DecidedAmount \in Nat
  BY <1>1, <1>2, OrderArguments
<1>4. cash \in Nat /\ positions \in [Symbols -> Position]
  BY DEF CycleInvariant, BookInvariant, LedgerTypeOK, BookType
<1>5. PICK spend \in Nat \ {0} : spend = Spend(DecidedAmount)
  BY <1>1, <1>3, <1>4, SpendCovered DEF Buy, CanBuy
<1>6. spend <= DecidedAmount
  <2>1. PICK m \in Nat : m = MaxAffordable
    <3>1. CommissionPM \in Nat /\ 1000 + CommissionPM \in Nat \ {0} /\ cash * 1000 \in Nat
      BY <1>4, PortfolioAssumption
    <3> QED BY <3>1, DivBound DEF MaxAffordable
  <2> QED BY <1>3, <1>5, <2>1 DEF Spend
<1>7. PICK c \in Nat : c = Clamped(decision.alloc)
  BY <1>2, CycleAssumption DEF Clamped, CycleInvariant, CycleShape, DecisionOK
<1>8. DecidedAmount * 100 <= pv * c /\ pv * c \in Nat
  <2>1. PICK v \in Nat : v = pv
    BY DEF CycleInvariant, CycleShape
  <2>2. PICK x \in Nat : x = v * c
    BY SMT
  <2>3. (x \div 100) * 100 <= x
    BY <2>2, DivBound
  <2> QED BY <1>7, <2>1, <2>2, <2>3 DEF DecidedAmount, OrderAmount
<1>9. PICK n \in Nat : n = SharesFor(spend, px)
  BY <1>3, <1>5, SharesBought
<1>10. PICK old \in Nat : old = positions[s].shares
  BY <1>3, <1>4 DEF Position
<1>11. positions'[s].shares = old + n
  <2>1. CASE s \in Held
    BY <1>1, <1>3, <1>4, <1>5, <1>9, <1>10, <2>1 DEF Buy, Pyramided
  <2>2. CASE s \notin Held
    BY <1>1, <1>3, <1>4, <1>5, <1>9, <1>10, <2>2 DEF Buy, Opened, Held
  <2> QED BY <2>1, <2>2
<1>12. Worth(n, px) <= spend
  BY <1>3, <1>5, <1>9, BoughtWorth DEF Worth
<1>13. Worth(positions'[s].shares - positions[s].shares, px) <= unlogged'.amount
  <2>1. positions'[s].shares - positions[s].shares = n
    BY <1>9, <1>10, <1>11
  <2> QED BY <1>1, <1>5, <1>12, <2>1
<1>14. unlogged'.amount = spend
  BY <1>1, <1>5
<1>15. spend * 100 <= pv * c
  <2>1. PICK d \in Nat : d = DecidedAmount
    BY <1>3
  <2>2. PICK x \in Nat : x = pv * c
    BY <1>8
  <2> QED BY <1>5, <1>6, <1>8, <2>1, <2>2
<1> QED BY <1>5, <1>7, <1>13, <1>14, <1>15

\* An order costs at most its share of the value execute read, and takes a position
\* it adds to no higher than risk_check allowed, whatever the sweep sold in between
\* (agents/shared/nodes.py, risk_check_node and execute_node).
THEOREM ExposureAlwaysCapped == CycleSpec => ExposureCapped
<1>1. CycleInit => ExposureInvariant
  BY DEF CycleInit, ExposureInvariant, OrderPhases
<1> DEFINE cost == unlogged'.amount
           exposure(s) == Worth(positions[s].shares, prices[s]) + cost
           bought(s) == positions'[s].shares - positions[s].shares
           Capped(s) == /\ IF s \in Held THEN exposure(s) * 200 <= 3 * MaxAllocPct * pv
                                         ELSE exposure(s) * 100 <= MaxAllocPct * pv
                        /\ \E px \in FillPrices(prices[s]) : Worth(bought(s), px) <= cost
<1>2. ASSUME CycleInvariant, ExposureInvariant, [CycleNext]_vars,
             NEW s \in Symbols, positions'[s].shares > positions[s].shares, restarts' = restarts
      PROVE  Capped(s)
  <2>1. ActBuy /\ s = decision.symbol
    BY <1>2, OnlyOrdersAdd DEF ExposureInvariant
  <2>2. phase = "act" /\ decision.action = "BUY"
    BY <2>1 DEF ActBuy
  <2>3. /\ prices[s] \in Quotes /\ Quotes \subseteq Nat /\ pv \in Nat /\ MaxAllocPct \in Nat
        /\ decision.alloc \in Nat /\ positions[s].shares \in Nat
    BY <1>2, <2>1, <2>2, FillsOfQuote, PortfolioAssumption, CycleAssumption
       DEF CycleInvariant, CycleShape, DecisionOK, OrderPhases, BookInvariant, LedgerTypeOK,
           BookType, Position
  <2>4. PICK k \in Nat : k = cost
    BY <1>2, <2>1, OrderCost
  <2>5. PICK c \in Nat, a \in Nat, v \in Nat, x \in Nat :
          /\ c = Clamped(decision.alloc) /\ a = decision.alloc /\ v = pv /\ x = MaxAllocPct
          /\ c <= a /\ c <= x
    BY <2>3 DEF Clamped
  <2>6. PICK w \in Nat : w = Worth(positions[s].shares, prices[s])
    <3>1. positions[s].shares \in Nat /\ prices[s] \in Nat
      BY <2>3
    <3>2. ASSUME NEW n \in Nat, NEW q \in Nat PROVE Worth(n, q) \in Nat
      <4>1. n <= n
        OBVIOUS
      <4> QED BY <4>1, FewerWorthLess
    <3>3. Worth(positions[s].shares, prices[s]) \in Nat
      BY <3>1, <3>2
    <3> QED BY <3>3
  <2>7. k * 100 <= v * c
    BY <1>2, <2>1, <2>4, <2>5, OrderCost
  <2>8. PICK va \in Nat, vc \in Nat, vx \in Nat :
          va = v * a /\ vc = v * c /\ vx = v * x /\ vc <= va /\ vc <= vx
    <3>1. v * a \in Nat /\ v * c \in Nat /\ v * x \in Nat /\ v * c <= v * a /\ v * c <= v * x
      BY <2>5, SMT
    <3> QED BY <3>1
  <2>9. CASE s \in Held
    <3>1. WithinPyramidCap(s, decision.alloc, pv)
      BY <1>2, <2>1, <2>2, <2>9 DEF ExposureInvariant, OrderPhases, CapOf
    <3>2. (w * 100 + a * v) * 2 <= 3 * x * v
      BY <2>5, <2>6, <3>1 DEF WithinPyramidCap
    <3>3. a * v = va /\ 3 * x * v = 3 * vx
      BY <2>8, SMT
    <3>4. (w * 100 + va) * 2 <= 3 * vx
      BY <3>2, <3>3
    <3>5. (w + k) * 200 <= 3 * vx
      BY <2>7, <2>8, <3>4
    <3> QED BY <1>2, <2>1, <2>4, <2>5, <2>6, <2>9, <3>3, <3>5, OrderCost
  <2>10. CASE s \notin Held
    <3>1. positions[s].shares = 0
      BY <1>2, <2>3, <2>10 DEF Held
    <3>2. w = 0
      <4>1. ShareScale \in Nat \ {0} /\ 0 * prices[s] = 0 /\ 0 \div ShareScale = 0
        <5>1. ShareScale \in Nat \ {0} /\ prices[s] \in Nat
          BY <2>3, ShareScaleAssumption
        <5>2. 0 \div ShareScale <= 0 /\ 0 \div ShareScale \in Nat
          BY <5>1, DivAtMost, DivBound
        <5> QED BY <5>1, <5>2
      <4> QED BY <2>6, <3>1, <4>1 DEF Worth
    <3>3. x * v = vx
      BY <2>8, SMT
    <3>4. (w + k) * 100 <= vx
      BY <2>7, <2>8, <3>2
    <3> QED BY <1>2, <2>1, <2>4, <2>5, <2>6, <2>10, <3>3, <3>4, OrderCost
  <2> QED BY <2>9, <2>10
<1> DEFINE AllCapped == \A s \in Symbols :
             positions'[s].shares > positions[s].shares /\ restarts' = restarts => Capped(s)
<1>3. CycleInvariant /\ ExposureInvariant /\ [CycleNext]_vars
        => ExposureInvariant' /\ [AllCapped]_vars
  BY <1>2, ExposureStepKept
<1> HIDE DEF AllCapped
<1>4. CycleSpec => [][AllCapped]_vars
  BY <1>1, <1>3, CycleInvariantHolds, PTL DEF CycleSpec
<1> QED BY <1>4 DEF ExposureCapped, AllCapped

-----------------------------------------------------------------------------
\* What is proved of the Portfolio for any caller, of the account the agent
\* trades with: solvent, consistent, its stops never loosened by a trade.
THEOREM CycleKeepsBookConsistent == CycleSpec => [](LedgerTypeOK /\ BookConsistent)
BY CycleImplementsPortfolio, LedgerAlwaysWellFormed, BookAlwaysConsistent, PTL

\* No trade of the agent makes the account worth more at the trade's own price, and
\* no step of a cycle lowers the trailing high of an open position (core/data.py,
\* buy, sell and update_watermarks, as execute_node and the exit sweep call them).
THEOREM CycleTradesCreateNoValue ==
  CycleSpec => TradesNeverCreateValue /\ WatermarkNeverLowered
BY CycleImplementsPortfolio, NoOrderCreatesValue, WatermarksOnlyRise, PTL

=============================================================================
