--------------------------- MODULE Backtest_proofs ---------------------------
(***************************************************************************)
(* Proofs about the backtest, for every price history, RSI series, number  *)
(* of folds, commission and slippage within BacktestAssumption: the cash   *)
(* of a fold is what its trades recorded, no open position is past its     *)
(* stop- loss after a bar, a finished fold is settled, a trade counts as a *)
(* win when and only when it earned money, up to the rounding of its legs, *)
(* and every order is one that the live book of Portfolio accepts and      *)
(* books the same way.                                                     *)
(*                                                                         *)
(* A sale is judged by the two quotes and earns by the shares and amounts  *)
(* made of them. Each quotient rounded down on the way loses less than a   *)
(* unit of its own, which the shares multiply: hence a tolerance of two    *)
(* units a share and a few more.                                           *)
(***************************************************************************)
EXTENDS Backtest, TLAPS

-----------------------------------------------------------------------------
(* Quotients rounded down. *)

\* The quotient rounded down is the largest number whose product fits.
LEMMA DivBound ==
  ASSUME NEW a \in Nat, NEW b \in Nat \ {0}
  PROVE  /\ a \div b \in Nat
         /\ (a \div b) * b <= a
         /\ a < ((a \div b) + 1) * b
BY SMT

\* What fits below the dividend is below the quotient.
LEMMA DivAtLeast ==
  ASSUME NEW a \in Nat, NEW b \in Nat \ {0}, NEW c \in Nat, c * b <= a
  PROVE  c <= a \div b
<1> DEFINE q == a \div b
<1>1. q \in Nat /\ a < (q + 1) * b
  BY DivBound
<1> HIDE DEF q
<1>2. c <= q
  <2>1. SUFFICES ASSUME c >= q + 1 PROVE FALSE
    BY <1>1, SMT
  <2>2. PICK d \in Nat : c = q + 1 + d
    BY <1>1, <2>1, SMT
  <2>3. c * b = (q + 1) * b + d * b /\ d * b >= 0
    BY <1>1, <2>2, SMT
  <2> QED BY <1>1, <2>3, SMT
<1> QED BY <1>2 DEF q

-----------------------------------------------------------------------------
(* The arithmetic of an order. *)

\* The allocation is at least one unit of money, and leaves room for its
\* commission.
LEMMA AllocBound ==
  ASSUME cash \in Nat
  PROVE  /\ Alloc \in Nat
         /\ cash > 1 => Alloc >= 1
         /\ Alloc * (1000 + CommissionPM) <= cash * 1000
<1>1. CommissionPM \in Nat /\ CommissionPM <= 50
  BY BacktestAssumption, SMT
<1>2. Alloc \in Nat /\ Alloc * 100 <= cash * 95
  BY DivBound, SMT DEF Alloc
<1>3. cash > 1 => Alloc >= 1
  BY DivAtLeast, SMT DEF Alloc
<1> PICK a \in Nat : a = Alloc
  BY <1>2
<1>4. a * CommissionPM <= a * 50
  BY <1>1, <1>2, SMT
<1>5. a * (1000 + CommissionPM) = a * 1000 + a * CommissionPM
  BY <1>1, <1>2, SMT
<1>6. a * 100 <= cash * 95
  BY <1>2
<1>7. a * (1000 + CommissionPM) <= cash * 1000
  <2>1. PICK b \in Nat : b = a * CommissionPM
    BY <1>1, SMT
  <2> QED BY <1>4, <1>5, <1>6, <2>1, SMT
<1> QED BY <1>2, <1>3, <1>7

\* A commission is a natural number, rounded down.
LEMMA CommissionIsNat ==
  ASSUME NEW x \in Nat
  PROVE  Commission(x) \in Nat /\ Commission(x) * 1000 <= x * CommissionPM
<1>1. CommissionPM \in Nat
  BY BacktestAssumption, SMT
<1>2. PICK a \in Nat : a = x * CommissionPM
  BY <1>1, SMT
<1>3. Commission(x) = a \div 1000
  BY <1>2 DEF Commission
<1> QED BY <1>2, <1>3, DivBound, SMT

\* The price of a BUY is positive, at most the share scale, and not so far above
\* the close that the position is stopped out at once.
LEMMA BuyPxBound ==
  ASSUME NEW px \in Closes
  PROVE  /\ BuyPx(px) \in Nat /\ BuyPx(px) >= 1
         /\ BuyPx(px) <= ShareScale
         /\ (BuyPx(px) - px) * 100 < StopLossPct * BuyPx(px)
<1>1. /\ px \in Nat /\ px >= 1 /\ SlippagePM \in Nat
      /\ StopLossPct \in Nat /\ StopLossPct >= 1 /\ StopLossPct <= 100
      /\ SlippagePM * 100 < StopLossPct * (1000 + SlippagePM)
  BY BacktestAssumption, SMT
<1>2. PICK n \in Nat : n = px * (1000 + SlippagePM)
  BY <1>1, SMT
<1>3. PICK m \in Nat : m = px * SlippagePM
  BY <1>1, SMT
<1>4. n = px * 1000 + m
  BY <1>1, <1>2, <1>3, SMT
<1>5. BuyPx(px) = n \div 1000
  BY <1>2 DEF BuyPx
<1>6. BuyPx(px) \in Nat /\ BuyPx(px) >= px /\ BuyPx(px) * 1000 <= n
  BY <1>1, <1>4, <1>5, DivBound, DivAtLeast, SMT
<1>7. BuyPx(px) <= ShareScale
  BY BacktestAssumption DEF BuyPx
<1>8. PICK k \in Nat : BuyPx(px) = px + k
  BY <1>1, <1>6, SMT
<1>9. k * 1000 <= m
  BY <1>1, <1>4, <1>6, <1>8, SMT
<1>10. k * (100 - StopLossPct) < StopLossPct * px
  <2> DEFINE r == 100 - StopLossPct
  <2>1. r \in Nat
    BY <1>1, SMT
  <2>2. SlippagePM * r < StopLossPct * 1000
    <3>1. SlippagePM * r = SlippagePM * 100 - SlippagePM * StopLossPct
      BY <1>1, SMT
    <3>2. StopLossPct * (1000 + SlippagePM) = StopLossPct * 1000 + SlippagePM * StopLossPct
      BY <1>1, SMT
    <3> QED BY <1>1, <3>1, <3>2, SMT
  <2> HIDE DEF r
  <2>3. (k * 1000) * r <= m * r
    BY <1>1, <1>9, <2>1, SMT
  <2>4. PICK x \in Nat : x = SlippagePM * r
    BY <1>1, <2>1, SMT
  <2>5. m * r = px * x
    BY <1>1, <1>3, <2>1, <2>4, SMT
  <2>6. px * x < px * (StopLossPct * 1000)
    BY <1>1, <2>2, <2>4, SMT
  <2>7. PICK y \in Nat : y = k * r
    BY <2>1, SMT
  <2>8. PICK z \in Nat : z = StopLossPct * px
    BY <1>1, SMT
  <2>9. (k * 1000) * r = y * 1000 /\ px * (StopLossPct * 1000) = z * 1000
    BY <1>1, <2>1, <2>7, <2>8, SMT
  <2>10. PICK v \in Nat : v = m * r
    BY <2>1, SMT
  <2>11. y * 1000 <= v /\ v < z * 1000
    BY <2>3, <2>5, <2>6, <2>9, <2>10
  <2>12. y < z
    BY <2>11, SMT
  <2> QED BY <2>7, <2>8, <2>12 DEF r
<1>11. StopLossPct * (px + k) = StopLossPct * px + StopLossPct * k
  BY <1>1, SMT
<1>12. k * (100 - StopLossPct) = k * 100 - StopLossPct * k
  BY <1>1, SMT
<1>13. (BuyPx(px) - px) * 100 < StopLossPct * BuyPx(px)
  BY <1>1, <1>8, <1>10, <1>11, <1>12, SMT
<1> QED BY <1>1, <1>6, <1>7, <1>13, SMT

\* An order of at least one unit of money buys at least one share quantum.
LEMMA SharesBought ==
  ASSUME NEW px \in Closes, NEW a \in Nat, a >= 1
  PROVE  (a * ShareScale) \div BuyPx(px) \in Nat /\ (a * ShareScale) \div BuyPx(px) >= 1
<1>1. ShareScale \in Nat /\ BuyPx(px) \in Nat \ {0} /\ BuyPx(px) <= ShareScale
  BY BuyPxBound, BacktestAssumption, SMT
<1>2. PICK n \in Nat : n = a * ShareScale
  BY <1>1, SMT
<1>3. n >= BuyPx(px)
  BY <1>1, <1>2, SMT
<1>4. n \div BuyPx(px) \in Nat /\ n \div BuyPx(px) >= 1
  BY <1>1, <1>3, DivBound, DivAtLeast, SMT
<1> QED BY <1>2, <1>4

-----------------------------------------------------------------------------
(* The inductive invariant. *)

\* What every order keeps: the numbers are numbers, a position and its entry
\* price live and die together, and cash is what the trades recorded.
Ledger ==
  /\ cash \in Nat /\ shares \in Nat /\ entry \in Nat /\ cost \in Nat
  /\ realized \in Int
  /\ shares > 0 => entry >= 1
  /\ shares = 0 => entry = 0 /\ cost = 0
  /\ CashIsRealized

\* A fold is settled after its last bar only.
Progress ==
  /\ fold \in Nat /\ folds \in Nat \ {0} /\ bar \in Int
  /\ done => bar = FoldEnd(fold)

\* Without a position, the last point of the equity curve is the cash.
FlatEquity == last > 0 /\ ~InPosition => equity = cash

\* After a bar that had a close, an open position has lost less than its stop.
WithinStop == InPosition /\ last > 0 => (entry - last) * 100 < StopLossPct * entry

BacktestInvariant ==
  /\ Ledger
  /\ last \in Closes \cup {BadClose}
  /\ Progress
  /\ FlatEquity
  /\ WithinStop
  /\ SettlesToCash

\* A BUY keeps the ledger, and opens a position that its close does not stop out.
LEMMA BuyInKeepsLedger ==
  ASSUME Ledger, NEW px \in Closes, cash > 1, ~InPosition, BuyIn(px)
  PROVE  /\ Ledger' /\ shares' >= 1
         /\ (entry' - px) * 100 < StopLossPct * entry'
<1>1. cash \in Nat /\ shares = 0 /\ cost = 0 /\ cash = InitialCash + realized
      /\ realized \in Int /\ InitialCash \in Nat
  BY BacktestAssumption, SMT DEF Ledger, InPosition, CashIsRealized
<1>2. PICK a \in Nat : a = Alloc
  BY <1>1, AllocBound
<1>3. a >= 1 /\ a * (1000 + CommissionPM) <= cash * 1000
  BY <1>1, <1>2, AllocBound
<1>4. PICK c \in Nat : c = Commission(a)
  BY CommissionIsNat
<1>5. a + c <= cash
  <2>1. CommissionPM \in Nat
    BY BacktestAssumption, SMT
  <2>2. PICK b \in Nat : b = a * CommissionPM
    BY <2>1, SMT
  <2>3. c * 1000 <= b
    BY <1>4, <2>2, CommissionIsNat
  <2>4. a * (1000 + CommissionPM) = a * 1000 + b
    BY <2>1, <2>2, SMT
  <2> QED BY <1>1, <1>3, <2>3, <2>4, SMT
<1>6. /\ cash' = cash - (a + c) /\ cost' = a + c
      /\ shares' = (a * ShareScale) \div BuyPx(px)
      /\ entry' = BuyPx(px) /\ realized' = realized
  BY <1>2, <1>4 DEF BuyIn
<1>7. shares' \in Nat /\ shares' >= 1
  BY <1>3, <1>6, SharesBought
<1>8. entry' \in Nat /\ entry' >= 1 /\ (entry' - px) * 100 < StopLossPct * entry'
  BY <1>6, BuyPxBound
<1>9. /\ cash' \in Nat /\ cost' \in Nat /\ realized' \in Int
      /\ cash' + cost' = InitialCash + realized'
  BY <1>1, <1>5, <1>6, SMT
<1>10. Ledger'
  BY <1>7, <1>8, <1>9, SMT DEF Ledger, CashIsRealized
<1> QED BY <1>7, <1>8, <1>10

\* What a sale brings in, after its commission.
LEMMA NetIsNat ==
  ASSUME NEW n \in Nat, NEW px \in Closes
  PROVE  /\ Value(n, SellPx(px)) \in Nat
         /\ Value(n, SellPx(px)) - Commission(Value(n, SellPx(px))) \in Nat
<1>1. /\ px \in Nat /\ SlippagePM \in Nat /\ SlippagePM <= 999
      /\ CommissionPM \in Nat /\ CommissionPM <= 50 /\ ShareScale \in Nat \ {0}
  BY BacktestAssumption, SMT
<1>2. SellPx(px) \in Nat
  <2>1. PICK m \in Nat : m = px * (1000 - SlippagePM)
    BY <1>1, SMT
  <2> QED BY <2>1, DivBound, SMT DEF SellPx
<1>3. PICK v \in Nat : v = Value(n, SellPx(px))
  <2>1. PICK m \in Nat : m = n * SellPx(px)
    BY <1>2, SMT
  <2> QED BY <1>1, <2>1, DivBound DEF Value
<1>4. Commission(v) \in Nat /\ Commission(v) * 1000 <= v * CommissionPM
  BY CommissionIsNat
<1>5. v * CommissionPM <= v * 50
  BY <1>1, SMT
<1>6. v - Commission(v) \in Nat
  <2>1. PICK b \in Nat : b = v * CommissionPM
    BY <1>1, SMT
  <2> QED BY <1>4, <1>5, <2>1, SMT
<1> QED BY <1>3, <1>6

\* A sale records as profit what cash gained beyond the cost of the position.
LEMMA SellAllKeepsLedger ==
  ASSUME Ledger, NEW px \in Closes, SellAll(px)
  PROVE  Ledger' /\ shares' = 0
<1>1. PICK net \in Nat :
        net = Value(shares, SellPx(px)) - Commission(Value(shares, SellPx(px)))
  BY NetIsNat DEF Ledger
<1>2. /\ cash' = cash + net /\ realized' = realized + (net - cost)
      /\ shares' = 0 /\ entry' = 0 /\ cost' = 0
  BY <1>1 DEF SellAll, Recorded
<1>3. InitialCash \in Nat
  BY BacktestAssumption
<1> QED BY <1>2, <1>3, SMT DEF Ledger, CashIsRealized

\* A bar without an order changes no part of the ledger.
LEMMA NoOrderKeepsLedger ==
  ASSUME Ledger, NoOrder
  PROVE  Ledger'
BY DEF Ledger, NoOrder, CashIsRealized

\* The bounds of a fold are numbers.
LEMMA FoldBoundsAreNumbers ==
  ASSUME Progress, NEW i \in Nat
  PROVE  FoldStart(i) \in Int /\ FoldEnd(i) \in Int
<1>1. Bars \in Nat /\ folds \in Nat \ {0}
  BY BacktestAssumption DEF Progress
<1>2. PICK q \in Nat : q = Bars \div folds
  BY <1>1, DivBound
<1>3. (i - 1) * q \in Int /\ i * q \in Int
  BY <1>2, SMT
<1> QED BY <1>1, <1>2, <1>3, SMT DEF FoldStart, FoldEnd

\* A position worth nothing adds nothing to the equity.
LEMMA NothingIsWorthNothing ==
  ASSUME NEW px \in Closes
  PROVE  Value(0, px) = 0
<1>1. px \in Nat /\ ShareScale \in Nat \ {0}
  BY BacktestAssumption
<1>2. 0 * px = 0
  BY <1>1, SMT
<1>3. 0 \div ShareScale = 0
  BY <1>1, SMT
<1> QED BY <1>2, <1>3 DEF Value

\* One bar: an order and the stop-loss it leaves in force.
LEMMA BarKeepsInvariant ==
  ASSUME BacktestInvariant, Bar
  PROVE  BacktestInvariant'
<1>1. ~done /\ ~done'
  <2>1. bar \in Int /\ bar < FoldEnd(fold) /\ (done => bar = FoldEnd(fold)) /\ done' = done
    BY DEF Bar, BacktestInvariant, Progress
  <2> QED BY <2>1, SMT
<1>2. Progress' /\ SettlesToCash'
  BY <1>1, SMT DEF Progress, SettlesToCash, Bar, BacktestInvariant
<1>3. PICK px \in Closes \cup {BadClose} :
        /\ last' = px
        /\ \/ px <= 0 /\ NoOrder
           \/ /\ px > 0
              /\ \E rsi \in Rsis \cup {NoRsi} : Order(px, rsi)
              /\ equity' = cash' + Value(shares', px)
  BY DEF Bar
<1>4. Ledger
  BY DEF BacktestInvariant
<1>5. CASE px <= 0 /\ NoOrder
  <2>1. ~(px > 0)
    BY <1>5, BacktestAssumption, SMT
  <2>2. WithinStop' /\ FlatEquity'
    BY <1>3, <2>1 DEF WithinStop, FlatEquity
  <2> QED BY <1>2, <1>3, <1>4, <1>5, <2>2, NoOrderKeepsLedger DEF BacktestInvariant
<1>6. CASE /\ px > 0
           /\ \E rsi \in Rsis \cup {NoRsi} : Order(px, rsi)
           /\ equity' = cash' + Value(shares', px)
  <2>1. px \in Closes
    BY <1>6, BacktestAssumption, SMT
  <2>2. PICK rsi \in Rsis \cup {NoRsi} : Order(px, rsi)
    BY <1>6
  <2>3. ASSUME Ledger' PROVE FlatEquity'
    <3>1. ~InPosition' => shares' = 0
      BY <2>3, SMT DEF Ledger, InPosition
    <3>2. shares' = 0 => equity' = cash' + 0
      BY <1>6, <2>1, NothingIsWorthNothing
    <3>3. cash' \in Nat
      BY <2>3 DEF Ledger
    <3>4. \A n \in Nat : n + 0 = n
      BY SMT
    <3> QED BY <3>1, <3>2, <3>3, <3>4 DEF FlatEquity
  <2>4. CASE SellAll(px)
    <3>1. Ledger' /\ shares' = 0
      BY <1>4, <2>1, <2>4, SellAllKeepsLedger
    <3>2. WithinStop'
      BY <3>1, SMT DEF WithinStop, InPosition
    <3> QED BY <1>2, <1>3, <2>3, <3>1, <3>2 DEF BacktestInvariant
  <2>5. CASE ~InPosition /\ cash > 1 /\ BuyIn(px)
    <3>1. Ledger' /\ (entry' - px) * 100 < StopLossPct * entry'
      BY <1>4, <2>1, <2>5, BuyInKeepsLedger
    <3>2. WithinStop'
      BY <1>3, <3>1 DEF WithinStop
    <3> QED BY <1>2, <1>3, <2>3, <3>1, <3>2 DEF BacktestInvariant
  <2>6. CASE ~StoppedOut(px) /\ NoOrder
    <3>1. entry' = entry /\ shares' = shares
      BY <2>6 DEF NoOrder
    <3>2. InPosition => ~((entry - px) * 100 >= StopLossPct * entry)
      BY <2>6 DEF StoppedOut
    <3>3. PICK x \in Int : x = (entry - px) * 100
      BY <1>4, <2>1, BacktestAssumption, SMT DEF Ledger
    <3>4. PICK y \in Int : y = StopLossPct * entry
      BY <1>4, BacktestAssumption, SMT DEF Ledger
    <3>5. InPosition => x < y
      BY <3>2, <3>3, <3>4, SMT
    <3>6. WithinStop'
      BY <1>3, <3>1, <3>3, <3>4, <3>5 DEF WithinStop, InPosition
    <3>7. Ledger'
      BY <1>4, <2>6, NoOrderKeepsLedger
    <3> QED BY <1>2, <1>3, <2>3, <3>6, <3>7 DEF BacktestInvariant
  <2> QED BY <2>2, <2>4, <2>5, <2>6 DEF Order
<1> QED BY <1>3, <1>5, <1>6

\* The end of a fold: a position is sold, and its cash is the last equity.
LEMMA SettleKeepsInvariant ==
  ASSUME BacktestInvariant, Settle
  PROVE  BacktestInvariant'
<1>1. /\ Ledger /\ last \in Closes \cup {BadClose} /\ last' = last
  BY DEF BacktestInvariant, Settle
<1>2. Progress'
  BY DEF BacktestInvariant, Settle, Progress, FoldEnd
<1>3. CASE InPosition /\ last > 0 /\ SellAll(last) /\ equity' = cash'
  <2>1. last \in Closes
    BY <1>1, <1>3, BacktestAssumption, SMT
  <2>2. Ledger' /\ shares' = 0
    BY <1>1, <1>3, <2>1, SellAllKeepsLedger
  <2>3. FlatEquity' /\ WithinStop' /\ SettlesToCash'
    BY <1>3, <2>2, SMT DEF FlatEquity, WithinStop, SettlesToCash, InPosition
  <2> QED BY <1>1, <1>2, <2>2, <2>3 DEF BacktestInvariant
<1>4. CASE ~(InPosition /\ last > 0) /\ NoOrder /\ UNCHANGED equity
  <2>1. Ledger'
    BY <1>1, <1>4, NoOrderKeepsLedger
  <2>2. FlatEquity' /\ WithinStop' /\ SettlesToCash'
    BY <1>1, <1>4
    DEF BacktestInvariant, FlatEquity, WithinStop, SettlesToCash, InPosition, NoOrder
  <2> QED BY <1>1, <1>2, <2>1, <2>2 DEF BacktestInvariant
<1> QED BY <1>3, <1>4 DEF Settle

\* A fold starts without a position, a close or a profit.
LEMMA NextFoldKeepsInvariant ==
  ASSUME BacktestInvariant, NextFold
  PROVE  BacktestInvariant'
<1>1. BadClose \in Int /\ ~(BadClose > 0) /\ InitialCash \in Nat
  BY BacktestAssumption, SMT
<1>2. Ledger'
  BY <1>1, SMT DEF NextFold, Ledger, CashIsRealized
<1>3. Progress'
  <2>1. fold + 1 \in Nat
    BY DEF BacktestInvariant, Progress
  <2>2. FoldStart(fold + 1) \in Int
    BY <2>1, FoldBoundsAreNumbers DEF BacktestInvariant
  <2> QED BY <2>1, <2>2 DEF NextFold, BacktestInvariant, Progress
<1>4. FlatEquity' /\ WithinStop' /\ SettlesToCash'
  BY <1>1 DEF NextFold, FlatEquity, WithinStop, SettlesToCash
<1> QED BY <1>2, <1>3, <1>4 DEF NextFold, BacktestInvariant

\* The inductive invariant holds in every reachable state of every backtest.
THEOREM BacktestInvariantHolds == Spec => []BacktestInvariant
<1>1. Init => BacktestInvariant
  <2> SUFFICES ASSUME Init PROVE BacktestInvariant
    OBVIOUS
  <2>1. BadClose \in Int /\ ~(BadClose > 0) /\ InitialCash \in Nat
    BY BacktestAssumption, SMT
  <2>2. Ledger
    BY <2>1, SMT DEF Init, Ledger, CashIsRealized
  <2>3. Progress
    BY BacktestAssumption, SMT DEF Init, Progress
  <2>4. FlatEquity /\ WithinStop /\ SettlesToCash
    BY <2>1 DEF Init, FlatEquity, WithinStop, SettlesToCash
  <2> QED BY <2>2, <2>3, <2>4 DEF Init, BacktestInvariant
<1>2. BacktestInvariant /\ [Next]_btvars => BacktestInvariant'
  <2> SUFFICES ASSUME BacktestInvariant, [Next]_btvars PROVE BacktestInvariant'
    OBVIOUS
  <2>1. CASE Bar
    BY <2>1, BarKeepsInvariant
  <2>2. CASE Settle
    BY <2>2, SettleKeepsInvariant
  <2>3. CASE NextFold
    BY <2>3, NextFoldKeepsInvariant
  <2>4. CASE UNCHANGED btvars
    BY <2>4 DEF btvars, BacktestInvariant, Ledger, CashIsRealized, Progress, FlatEquity,
                WithinStop, SettlesToCash, InPosition, FoldEnd
  <2> QED BY <2>1, <2>2, <2>3, <2>4 DEF Next
<1> QED BY <1>1, <1>2, PTL DEF Spec

\* The cash of a fold is the initial cash, plus the recorded profits, less the
\* cost of the open position.
THEOREM CashAlwaysRealized == Spec => []CashIsRealized
<1>1. BacktestInvariant => CashIsRealized
  BY DEF BacktestInvariant, Ledger
<1> QED BY <1>1, BacktestInvariantHolds, PTL

\* A bar that closes beyond the stop of a position ends without one, so that none
\* ends a bar with a loss of the stop-loss percentage (core/backtest.py, _simulate).
THEOREM StopAlwaysBounds == Spec => StopBoundsLoss
<1> DEFINE Bounded ==
      bar' = bar + 1 /\ last' > 0 =>
        /\ InPosition /\ (entry - last') * 100 >= StopLossPct * entry => shares' = 0
        /\ shares' > 0 => (entry' - last') * 100 < StopLossPct * entry'
<1>1. ASSUME BacktestInvariant, BacktestInvariant', [Next]_btvars PROVE Bounded
  <2> SUFFICES ASSUME bar' = bar + 1, last' > 0 PROVE Bounded
    OBVIOUS
  <2>1. Bar
    <3>1. bar \in Int /\ bar' # bar /\ ~(BadClose > 0)
      BY <1>1, BacktestAssumption, SMT DEF BacktestInvariant, Progress
    <3> QED BY <1>1, <3>1 DEF Next, Settle, NextFold, btvars
  <2>2. ASSUME InPosition, (entry - last') * 100 >= StopLossPct * entry PROVE shares' = 0
    <3>1. StoppedOut(last')
      BY <2>2 DEF StoppedOut
    <3>2. PICK px \in Closes \cup {BadClose} :
            last' = px /\ (px <= 0 \/ \E rsi \in Rsis \cup {NoRsi} : Order(px, rsi))
      BY <2>1 DEF Bar
    <3>3. ~(px <= 0)
      BY <3>2, BacktestAssumption, SMT
    <3>4. SellAll(last')
      BY <3>1, <3>2, <3>3 DEF Order
    <3> QED BY <3>4 DEF SellAll
  <2>3. shares' > 0 => (entry' - last') * 100 < StopLossPct * entry'
    BY <1>1 DEF BacktestInvariant, WithinStop, InPosition
  <2> QED BY <2>2, <2>3
<1>2. BacktestInvariant /\ BacktestInvariant' /\ [Next]_btvars => [Bounded]_btvars
  BY <1>1
<1> HIDE DEF Bounded
<1>3. Spec => [][Bounded]_btvars
  BY <1>2, BacktestInvariantHolds, PTL DEF Spec
<1> QED BY <1>3 DEF StopBoundsLoss, Bounded

\* A finished fold holds no position, and its last equity is its cash.
THEOREM FoldsSettleToCash == Spec => []SettlesToCash
<1>1. BacktestInvariant => SettlesToCash
  BY DEF BacktestInvariant
<1> QED BY <1>1, BacktestInvariantHolds, PTL

-----------------------------------------------------------------------------
(* Wins.  A trade is judged by its two quotes; what it earned went through   *)
(* seven roundings.  Each inequality between quotes is carried over to money *)
(* by multiplying it with the shares, and what a rounding adds is counted in *)
(* share quanta.                                                             *)

\* Multiplication by a number keeps the order, and by a positive one reflects it.
LEMMA TimesKeepsOrder ==
  ASSUME NEW a \in Int, NEW b \in Int, NEW k \in Nat
  PROVE  /\ a <= b => a * k <= b * k
         /\ a < b /\ k > 0 => a * k < b * k
         /\ a * k < b * k => a < b
         /\ a * k <= b * k /\ k > 0 => a <= b
<1>1. a <= b => a * k <= b * k
  BY SMT
<1>2. a < b /\ k > 0 => a * k < b * k
  BY SMT
<1>3. b <= a => b * k <= a * k
  BY SMT
<1>4. b < a /\ k > 0 => b * k < a * k
  BY SMT
<1>5. a * k \in Int /\ b * k \in Int
  BY SMT
<1> QED BY <1>1, <1>2, <1>3, <1>4, <1>5, SMT

\* A price that rose by more than the costs brings back what was paid, up to the
\* rounding: y and x are what a unit costs to buy and brings when sold.
LEMMA RisePaysCosts ==
  ASSUME NEW a \in Nat, NEW b \in Nat, NEW n \in Nat, NEW p \in Nat, NEW v \in Nat,
         NEW q \in Nat, NEW x \in Nat, NEW y \in Nat, NEW s \in Nat \ {0},
         a * s < (n + 1) * b, b * y < (p + 1) * x, n * p < (v + 1) * s,
         n < (q + 1) * s, p <= s
  PROVE  a * y < (v + q + 3) * x
<1>1. PICK g \in Nat : g = (n + 1) * (p + 1)
  BY SMT
<1>2. g <= (v + q + 3) * s
  <2>1. PICK m \in Nat : m = n * p
    BY SMT
  <2>2. g = m + n + p + 1
    BY <1>1, <2>1, SMT
  <2>3. (v + q + 3) * s = (v + 1) * s + (q + 1) * s + s
    BY SMT
  <2>4. (v + 1) * s \in Nat /\ (q + 1) * s \in Nat
    BY SMT
  <2> QED BY <2>1, <2>2, <2>3, <2>4, SMT
<1>3. PICK t \in Nat : t = v + q + 3
  OBVIOUS
<1>4. (a * s) * y <= ((n + 1) * b) * y
  <2>1. a * s \in Int /\ (n + 1) * b \in Int
    BY SMT
  <2> QED BY <2>1, TimesKeepsOrder, SMT
<1>5. (b * y) * (n + 1) < ((p + 1) * x) * (n + 1)
  <2>1. b * y \in Int /\ (p + 1) * x \in Int /\ n + 1 \in Nat /\ n + 1 > 0
    BY SMT
  <2> QED BY <2>1, TimesKeepsOrder, SMT
<1>6. ((n + 1) * b) * y = (b * y) * (n + 1) /\ ((p + 1) * x) * (n + 1) = g * x
  BY <1>1, SMT
<1>7. g * x <= (t * s) * x
  <2>1. t * s \in Int /\ g <= t * s
    BY <1>2, <1>3, SMT
  <2> QED BY <2>1, TimesKeepsOrder, SMT
<1>8. (a * s) * y = (a * y) * s /\ (t * s) * x = (t * x) * s
  BY SMT
<1>9. (a * y) * s < (t * x) * s
  <2>1. /\ (a * s) * y \in Int /\ ((n + 1) * b) * y \in Int /\ (b * y) * (n + 1) \in Int
        /\ ((p + 1) * x) * (n + 1) \in Int /\ g * x \in Int /\ (t * s) * x \in Int
    BY SMT
  <2> QED BY <1>4, <1>5, <1>6, <1>7, <1>8, <2>1, SMT
<1>10. a * y \in Int /\ t * x \in Int
  BY SMT
<1>11. a * y < t * x
  BY <1>9, <1>10, TimesKeepsOrder
<1> QED BY <1>3, <1>11

\* A price that did not brings no more than was paid, up to the rounding.
LEMMA CostsEatTheRest ==
  ASSUME NEW a \in Nat, NEW b \in Nat, NEW n \in Nat, NEW p \in Nat, NEW v \in Nat,
         NEW q \in Nat, NEW x \in Nat, NEW y \in Nat, NEW s \in Nat \ {0},
         n * b <= a * s, p * x <= (b + 1) * y, v * s <= n * p, n <= (q + 1) * s
  PROVE  v * x <= (a + q + 1) * y
<1>1. PICK t \in Nat : t = a + q + 1
  OBVIOUS
<1>2. PICK m \in Nat : m = n * (b + 1)
  BY SMT
<1>3. m <= t * s
  <2>1. m = n * b + n /\ t * s = a * s + (q + 1) * s
    BY <1>1, <1>2, SMT
  <2>2. n * b \in Nat /\ a * s \in Nat /\ (q + 1) * s \in Nat
    BY SMT
  <2> QED BY <2>1, <2>2, SMT
<1>4. (v * s) * x <= (n * p) * x
  <2>1. v * s \in Int /\ n * p \in Int
    BY SMT
  <2> QED BY <2>1, TimesKeepsOrder, SMT
<1>5. (p * x) * n <= ((b + 1) * y) * n
  <2>1. p * x \in Int /\ (b + 1) * y \in Int
    BY SMT
  <2> QED BY <2>1, TimesKeepsOrder, SMT
<1>6. (n * p) * x = (p * x) * n /\ ((b + 1) * y) * n = m * y
  BY <1>2, SMT
<1>7. m * y <= (t * s) * y
  <2>1. t * s \in Int
    BY SMT
  <2> QED BY <1>3, <2>1, TimesKeepsOrder, SMT
<1>8. (v * s) * x = (v * x) * s /\ (t * s) * y = (t * y) * s
  BY SMT
<1>9. (v * x) * s <= (t * y) * s
  <2>1. /\ (v * s) * x \in Int /\ (n * p) * x \in Int /\ (p * x) * n \in Int
        /\ ((b + 1) * y) * n \in Int /\ m * y \in Int /\ (t * s) * y \in Int
    BY SMT
  <2> QED BY <1>4, <1>5, <1>6, <1>7, <1>8, <2>1, SMT
<1>10. v * x \in Int /\ t * y \in Int
  BY SMT
<1>11. v * x <= t * y
  BY <1>9, <1>10, TimesKeepsOrder, SMT
<1> QED BY <1>1, <1>11

\* The quotes at which a position was bought and is sold, and the prices of its two
\* legs; a win is a rise beyond the costs of these prices, up to their rounding.
LEMMA QuotesAndLegs ==
  ASSUME NEW px \in Closes, bought \in Closes
  PROVE  /\ BuyPx(bought) \in Nat \ {0} /\ SellPx(px) \in Nat /\ SellPx(px) <= ShareScale
         /\ CountsAsWin(px) => BuyPx(bought) * (1000 + CommissionPM)
                                 < (SellPx(px) + 1) * (1000 - CommissionPM)
         /\ ~CountsAsWin(px) => SellPx(px) * (1000 - CommissionPM)
                                  <= (BuyPx(bought) + 1) * (1000 + CommissionPM)
<1>1. /\ SlippagePM \in Nat /\ SlippagePM <= 999 /\ CommissionPM \in Nat /\ CommissionPM <= 50
      /\ px \in Nat /\ bought \in Nat /\ ShareScale \in Nat
  BY BacktestAssumption, SMT
<1>2. PICK x \in Nat : x = 1000 - CommissionPM /\ x > 0
  BY <1>1, SMT
<1>3. PICK y \in Nat : y = 1000 + CommissionPM /\ y > 0
  BY <1>1, SMT
<1>4. PICK sold \in Nat : sold = px * (1000 - SlippagePM)
  BY <1>1, SMT
<1>5. PICK paid \in Nat : paid = bought * (1000 + SlippagePM)
  BY <1>1, SMT
<1>6. PICK p \in Nat : p = SellPx(px) /\ p * 1000 <= sold /\ sold < (p + 1) * 1000
  BY <1>4, DivBound DEF SellPx
<1>7. PICK b \in Nat : b = BuyPx(bought) /\ b * 1000 <= paid /\ paid < (b + 1) * 1000
  BY <1>5, DivBound DEF BuyPx
<1>8. p <= ShareScale
  <2>1. PICK e \in Nat : e = px * (1000 + SlippagePM) /\ sold <= e
    BY <1>1, <1>4, SMT
  <2>2. BuyPx(px) \in Nat /\ BuyPx(px) <= ShareScale /\ e < (BuyPx(px) + 1) * 1000
    BY <2>1, BuyPxBound, DivBound DEF BuyPx
  <2> QED BY <1>1, <1>6, <2>1, <2>2, SMT
<1>9. CountsAsWin(px) <=> sold * x > paid * y
  BY <1>2, <1>3, <1>4, <1>5 DEF CountsAsWin
<1>10. b * y \in Int /\ (p + 1) * x \in Int /\ p * x \in Int /\ (b + 1) * y \in Int
       /\ sold * x \in Int /\ paid * y \in Int
  BY SMT
<1>11. CASE sold * x > paid * y
  <2>1. (b * 1000) * y <= paid * y
    <3>1. b * 1000 \in Int
      BY SMT
    <3> QED BY <1>7, <3>1, TimesKeepsOrder, SMT
  <2>2. sold * x <= ((p + 1) * 1000) * x
    <3>1. (p + 1) * 1000 \in Int /\ sold <= (p + 1) * 1000
      BY <1>6, SMT
    <3> QED BY <3>1, TimesKeepsOrder, SMT
  <2>3. (b * 1000) * y = 1000 * (b * y) /\ ((p + 1) * 1000) * x = 1000 * ((p + 1) * x)
    BY SMT
  <2>4. b * y < (p + 1) * x
    BY <1>10, <1>11, <2>1, <2>2, <2>3, SMT
  <2> QED BY <1>1, <1>2, <1>3, <1>6, <1>7, <1>8, <1>9, <1>11, <2>4, BuyPxBound, SMT
<1>12. CASE ~(sold * x > paid * y)
  <2>1. (p * 1000) * x <= sold * x
    <3>1. p * 1000 \in Int
      BY SMT
    <3> QED BY <1>6, <3>1, TimesKeepsOrder, SMT
  <2>2. paid * y <= ((b + 1) * 1000) * y
    <3>1. (b + 1) * 1000 \in Int /\ paid <= (b + 1) * 1000
      BY <1>7, SMT
    <3> QED BY <3>1, TimesKeepsOrder, SMT
  <2>3. (p * 1000) * x = 1000 * (p * x) /\ ((b + 1) * 1000) * y = 1000 * ((b + 1) * y)
    BY SMT
  <2>4. p * x <= (b + 1) * y
    BY <1>10, <1>12, <2>1, <2>2, <2>3, SMT
  <2> QED BY <1>1, <1>2, <1>3, <1>6, <1>7, <1>8, <1>9, <1>12, <2>4, BuyPxBound, SMT
<1> QED BY <1>11, <1>12

\* A position was paid for at the quote it remembers.
BoughtAt(a) ==
  /\ shares = (a * ShareScale) \div BuyPx(bought)
  /\ cost = a + Commission(a)

Priced == InPosition => bought \in Closes /\ \E a \in Nat \ {0} : BoughtAt(a)

\* A sale is judged as it earned.
LEMMA SaleJudgedRight ==
  ASSUME Ledger, Priced, NEW px \in Closes, InPosition, SellAll(px)
  PROVE  WinsEarnMoney'
<1>1. PICK a \in Nat \ {0} : BoughtAt(a)
  BY DEF Priced
<1>2. /\ bought \in Closes /\ ShareScale \in Nat \ {0} /\ CommissionPM \in Nat
      /\ CommissionPM <= 50
  BY BacktestAssumption, SMT DEF Priced
<1>3. PICK x \in Nat : x = 1000 - CommissionPM
  BY <1>2, SMT
<1>4. PICK y \in Nat : y = 1000 + CommissionPM
  BY <1>2, SMT
<1>5. PICK b \in Nat \ {0} : b = BuyPx(bought)
  BY <1>2, QuotesAndLegs
<1>6. PICK p \in Nat : p = SellPx(px) /\ p <= ShareScale
  BY <1>2, QuotesAndLegs
<1>7. PICK n \in Nat : n = shares /\ n * b <= a * ShareScale /\ a * ShareScale < (n + 1) * b
  <2>1. a * ShareScale \in Nat
    BY <1>2, SMT
  <2> QED BY <1>1, <1>5, <2>1, DivBound DEF BoughtAt
<1>8. PICK v \in Nat : v = Value(n, p) /\ v * ShareScale <= n * p /\ n * p < (v + 1) * ShareScale
  <2>1. n * p \in Nat
    BY SMT
  <2> QED BY <1>2, <2>1, DivBound DEF Value
<1>9. PICK ca \in Nat : /\ ca = Commission(a) /\ ca * 1000 <= a * CommissionPM
                        /\ a * CommissionPM < (ca + 1) * 1000
  <2>1. a * CommissionPM \in Nat
    BY <1>2, SMT
  <2> QED BY <2>1, DivBound DEF Commission
<1>10. PICK cv \in Nat : /\ cv = Commission(v) /\ cv * 1000 <= v * CommissionPM
                         /\ v * CommissionPM < (cv + 1) * 1000
  <2>1. v * CommissionPM \in Nat
    BY <1>2, SMT
  <2> QED BY <2>1, DivBound DEF Commission
<1>11. PICK q \in Nat : q = n \div ShareScale /\ n < (q + 1) * ShareScale
  BY <1>2, DivBound
<1>12. PICK pnl \in Int : pnl = (v - cv) - (a + ca)
  OBVIOUS
<1>13. judged' = [shares |-> n, pnl |-> pnl, win |-> CountsAsWin(px)]
  BY <1>1, <1>6, <1>7, <1>8, <1>9, <1>10, <1>12 DEF SellAll, Recorded, BoughtAt
<1>14. Rounding' = 2 * q + 4
  BY <1>11, <1>13 DEF Rounding
<1>15. PICK ay \in Nat : ay = a * y /\ ay = a * 1000 + a * CommissionPM
  BY <1>2, <1>4, SMT
<1>16. PICK vx \in Nat : vx = v * x /\ vx = v * 1000 - v * CommissionPM
  BY <1>2, <1>3, SMT
<1>17. a * CommissionPM \in Nat /\ v * CommissionPM \in Nat
  BY <1>2, SMT
<1>18. ASSUME CountsAsWin(px) PROVE pnl > -(2 * q + 4)
  <2>1. b * y < (p + 1) * x
    BY <1>2, <1>3, <1>4, <1>5, <1>6, <1>18, QuotesAndLegs
  <2>2. ay < (v + q + 3) * x
    <3>1. /\ a \in Nat /\ b \in Nat /\ ShareScale \in Nat \ {0}
          /\ a * ShareScale < (n + 1) * b /\ n * p < (v + 1) * ShareScale
          /\ n < (q + 1) * ShareScale /\ p <= ShareScale
      BY <1>2, <1>6, <1>7, <1>8, <1>11
    <3>2. a * y < (v + q + 3) * x
      BY <2>1, <3>1, RisePaysCosts, Zenon
    <3> QED BY <1>15, <3>2, Zenon
  <2>3. (v + q + 3) * x = vx + (q + 3) * x /\ (q + 3) * x <= (q + 3) * 1000
        /\ (q + 3) * x \in Nat
    BY <1>2, <1>3, <1>16, SMT
  <2>4. (a + ca) * 1000 <= ay
    BY <1>9, <1>15, <1>17, SMT
  <2>5. vx <= (v - cv) * 1000
    BY <1>10, <1>16, <1>17, SMT
  <2>6. (a + ca) * 1000 < (v - cv) * 1000 + (q + 3) * 1000
    BY <2>2, <2>3, <2>4, <2>5, SMT
  <2> QED BY <1>12, <2>6, SMT
<1>19. ASSUME ~CountsAsWin(px) PROVE pnl <= 2 * q + 4
  <2>1. p * x <= (b + 1) * y
    BY <1>2, <1>3, <1>4, <1>5, <1>6, <1>19, QuotesAndLegs
  <2>2. n <= (q + 1) * ShareScale
    BY <1>2, <1>11, SMT
  <2>3. vx <= (a + q + 1) * y
    BY <1>2, <1>7, <1>8, <1>16, <2>1, <2>2, CostsEatTheRest
  <2>4. (a + q + 1) * y = ay + (q + 1) * y /\ (q + 1) * y <= (q + 1) * 2000
        /\ (q + 1) * y \in Nat
    BY <1>2, <1>4, <1>15, SMT
  <2>5. ay <= (a + ca) * 1000 + 1000
    BY <1>9, <1>15, <1>17, SMT
  <2>6. (v - cv) * 1000 <= vx + 1000
    BY <1>10, <1>16, <1>17, SMT
  <2>7. (v - cv) * 1000 <= (a + ca) * 1000 + 2000 + (q + 1) * 2000
    BY <2>3, <2>4, <2>5, <2>6, SMT
  <2> QED BY <1>12, <2>7, SMT
<1> QED BY <1>13, <1>14, <1>18, <1>19, SMT DEF WinsEarnMoney

\* A BUY remembers its quote and what it paid.
LEMMA BuyInPriced ==
  ASSUME Ledger, cash > 1, NEW px \in Closes, BuyIn(px)
  PROVE  Priced'
<1>1. Alloc \in Nat \ {0}
  BY AllocBound, SMT DEF Ledger
<1>2. /\ shares' = (Alloc * ShareScale) \div BuyPx(px) /\ cost' = Alloc + Commission(Alloc)
      /\ bought' = px
  BY DEF BuyIn
<1> PICK a \in Nat \ {0} : a = Alloc
  BY <1>1
<1>3. BoughtAt(a)'
  BY <1>2 DEF BoughtAt, BuyPx, Commission
<1> QED BY <1>2, <1>3 DEF Priced

WinInvariant == Priced /\ WinsEarnMoney

\* An order, or none, of a bar that had a close.
LEMMA OrderKeepsWins ==
  ASSUME Ledger, WinInvariant, NEW px \in Closes, NEW rsi \in Rsis \cup {NoRsi}, Order(px, rsi)
  PROVE  WinInvariant'
<1>1. CASE InPosition /\ SellAll(px)
  <2>1. WinsEarnMoney'
    BY <1>1, SaleJudgedRight DEF WinInvariant
  <2>2. ~InPosition'
    BY <1>1, SMT DEF SellAll, InPosition
  <2> QED BY <2>1, <2>2 DEF WinInvariant, Priced
<1>2. CASE cash > 1 /\ BuyIn(px)
  <2>1. Priced'
    BY <1>2, BuyInPriced
  <2>2. judged' = judged
    BY <1>2 DEF BuyIn
  <2> QED BY <2>1, <2>2 DEF WinInvariant, WinsEarnMoney, Rounding
<1>3. CASE NoOrder
  BY <1>3 DEF NoOrder, WinInvariant, WinsEarnMoney, Rounding, Priced, BoughtAt, InPosition,
              BuyPx, Commission
<1> QED BY <1>1, <1>2, <1>3 DEF Order, StoppedOut

\* Every trade that counts as a win has earned money, up to rounding, and every one
\* that has counts (core/backtest.py, _compute_metrics), for any prices and costs.
THEOREM WinsAlwaysEarn == Spec => []WinsEarnMoney
<1>1. Init => WinInvariant
  <2> SUFFICES ASSUME Init PROVE WinInvariant
    OBVIOUS
  <2>1. shares = 0 /\ judged = NoTrade
    BY DEF Init
  <2>2. 0 \div ShareScale = 0
    BY BacktestAssumption, SMT
  <2>3. Priced
    BY <2>1, SMT DEF Priced, InPosition
  <2>4. WinsEarnMoney
    BY <2>1, <2>2, SMT DEF WinsEarnMoney, Rounding, NoTrade
  <2> QED BY <2>3, <2>4 DEF WinInvariant
<1>2. WinInvariant /\ BacktestInvariant /\ [Next]_btvars => WinInvariant'
  <2> SUFFICES ASSUME WinInvariant, BacktestInvariant, [Next]_btvars PROVE WinInvariant'
    OBVIOUS
  <2>1. Ledger /\ last \in Closes \cup {BadClose}
    BY DEF BacktestInvariant
  <2>2. ASSUME NoOrder PROVE WinInvariant'
    BY <2>2 DEF NoOrder, WinInvariant, WinsEarnMoney, Rounding, Priced, BoughtAt, InPosition,
                BuyPx, Commission
  <2>3. CASE Bar
    <3>1. PICK px \in Closes \cup {BadClose} :
            \/ px <= 0 /\ NoOrder
            \/ px > 0 /\ \E rsi \in Rsis \cup {NoRsi} : Order(px, rsi)
      BY <2>3 DEF Bar
    <3>2. px > 0 => px \in Closes
      BY BacktestAssumption, SMT
    <3> QED BY <2>1, <2>2, <3>1, <3>2, OrderKeepsWins
  <2>4. CASE Settle
    <3>1. CASE InPosition /\ last > 0 /\ SellAll(last)
      <4>1. last \in Closes
        BY <2>1, <3>1, BacktestAssumption, SMT
      <4>2. WinsEarnMoney'
        BY <2>1, <3>1, <4>1, SaleJudgedRight DEF WinInvariant
      <4>3. ~InPosition'
        BY <3>1, SMT DEF SellAll, InPosition
      <4> QED BY <4>2, <4>3 DEF WinInvariant, Priced
    <3> QED BY <2>2, <2>4, <3>1 DEF Settle
  <2>5. CASE NextFold
    <3>1. shares' = 0 /\ judged' = NoTrade
      BY <2>5 DEF NextFold
    <3>2. 0 \div ShareScale = 0
      BY BacktestAssumption, SMT
    <3>3. Priced'
      BY <3>1, SMT DEF Priced, InPosition
    <3>4. WinsEarnMoney'
      BY <3>1, <3>2, SMT DEF WinsEarnMoney, Rounding, NoTrade
    <3> QED BY <3>3, <3>4 DEF WinInvariant
  <2>6. CASE UNCHANGED btvars
    <3>1. NoOrder
      BY <2>6 DEF btvars, NoOrder
    <3> QED BY <2>2, <3>1
  <2> QED BY <2>3, <2>4, <2>5, <2>6 DEF Next
<1>3. WinInvariant => WinsEarnMoney
  BY DEF WinInvariant
<1> QED BY <1>1, <1>2, <1>3, BacktestInvariantHolds, PTL DEF Spec

-----------------------------------------------------------------------------
(* Refinement of the live book. *)

\* A simulated BUY is Portfolio.buy of the allocation: it is affordable with its
\* commission, so the book does not cut it, and it opens the only layer.
LEMMA BuyInIsABookOrder ==
  ASSUME Amounts = Nat, Ledger, NEW px \in Closes, cash > 1, ~InPosition, BuyIn(px)
  PROVE  Book!Buy(Asset, Alloc, px, 0)
<1>1. /\ cash \in Nat /\ shares = 0 /\ entry = 0
      /\ CommissionPM \in Nat /\ px \in Nat /\ px > 0
  BY BacktestAssumption, SMT DEF Ledger, InPosition
<1>2. Alloc \in Nat /\ Alloc >= 1 /\ Alloc * (1000 + CommissionPM) <= cash * 1000
  BY <1>1, AllocBound
<1>3. Book!Spend(Alloc) = Alloc
  <2>1. Alloc <= (cash * 1000) \div (1000 + CommissionPM)
    BY <1>1, <1>2, DivAtLeast, SMT
  <2> QED BY <2>1 DEF Book!Spend, Book!MaxAffordable
<1>4. Book!SharesFor(Alloc, px) = (Alloc * ShareScale) \div BuyPx(px)
  BY DEF Book!SharesFor, Book!BuyPx, BuyPx
<1>5. shares' >= 1 /\ shares' \in Nat /\ shares' = (Alloc * ShareScale) \div BuyPx(px)
  BY <1>2, SharesBought DEF BuyIn
<1>6. entry' = BuyPx(px) /\ BuyPx(px) \in Nat /\ BuyPx(px) >= 1
  BY BuyPxBound DEF BuyIn
<1>7. Asset \notin Book!Held
  BY <1>1, SMT DEF Book!Held, BookPositions
<1>8. Book!CanBuy(Asset, Alloc, px)
  BY <1>1, <1>2, <1>3, <1>7 DEF Book!CanBuy
<1>9. cash' = cash - (Alloc + Book!Commission(Alloc))
  BY DEF BuyIn, Commission, Book!Commission
<1>10. InPosition'
  BY <1>5, SMT DEF InPosition
<1>11. BookPositions' = [BookPositions EXCEPT ![Asset] = Book!Opened(shares', px, 0)]
  <2> DEFINE new == Book!Opened(shares', px, 0)
  <2>1. Book!BuyPx(px) = BuyPx(px)
    BY DEF Book!BuyPx, BuyPx
  <2>2. new = [shares |-> shares', avgPrice |-> entry', layers |-> 1, openedAt |-> 0,
               tpTaken |-> FALSE]
    BY <1>6, <2>1 DEF Book!Opened
  <2>3. BookPositions' = [s \in {Asset} |-> new]
    BY <1>10, <2>2 DEF BookPositions
  <2> HIDE DEF new
  <2>4. [BookPositions EXCEPT ![Asset] = new] = [s \in {Asset} |-> new]
    BY DEF BookPositions
  <2> QED BY <2>3, <2>4 DEF new
<1>12. BookWatermarks' = [BookWatermarks EXCEPT ![Asset] = Book!Raised(@, BuyPx(px))]
  <2>1. Book!Raised(BookWatermarks[Asset], BuyPx(px)) = BuyPx(px)
    BY <1>1, <1>6, SMT DEF BookWatermarks, Book!Raised
  <2> QED BY <1>6, <2>1 DEF BookWatermarks
<1>13. Book!SaveState
  BY DEF Book!SaveState
<1> QED
  BY <1>3, <1>4, <1>5, <1>7, <1>8, <1>9, <1>11, <1>12, <1>13
  DEF Book!Buy, Book!BuyPx, BuyPx

\* A simulated sale is Portfolio.sell of the whole position.
LEMMA SellAllIsABookOrder ==
  ASSUME Ledger, NEW px \in Closes, InPosition, SellAll(px)
  PROVE  Book!Sell(Asset, 100, px)
<1>1. shares \in Nat /\ shares > 0 /\ px \in Nat /\ px > 0
  BY BacktestAssumption, SMT DEF Ledger, InPosition
<1>2. Book!SharesSold(Asset, 100) = shares
  <2>1. (shares * 100) \div 100 = shares
    BY <1>1, SMT
  <2> QED BY <2>1 DEF Book!SharesSold, BookPositions
<1>3. Book!Proceeds(Asset, 100, px) = Value(shares, SellPx(px))
  BY <1>2 DEF Book!Proceeds, Book!Worth, Book!SellPx, Value, SellPx
<1>4. Book!CanSell(Asset, 100, px)
  BY <1>1, SMT DEF Book!CanSell, Book!Held, BookPositions
<1>5. cash' = cash + (Book!Proceeds(Asset, 100, px)
                        - Book!Commission(Book!Proceeds(Asset, 100, px)))
  BY <1>3 DEF SellAll, Commission, Book!Commission
<1>6. shares' = 0 /\ entry' = 0 /\ ~InPosition'
  BY SMT DEF SellAll, InPosition
<1>7. BookPositions' = [BookPositions EXCEPT ![Asset] = Book!NoPosition]
  BY <1>6 DEF BookPositions, Book!NoPosition
<1>8. BookWatermarks' = [BookWatermarks EXCEPT ![Asset] = 0]
  BY <1>6 DEF BookWatermarks
<1>9. 100 >= 100
  BY SMT
<1>10. Book!SaveState
  BY DEF Book!SaveState
<1> QED
  BY <1>4, <1>5, <1>7, <1>8, <1>9, <1>10 DEF Book!Sell, Book!WatermarksAfterSell

\* A bar without an order leaves the book alone.
LEMMA NoOrderKeepsBook ==
  ASSUME NoOrder
  PROVE  UNCHANGED Book!pvars
BY DEF NoOrder, Book!pvars, BookPositions, BookWatermarks, InPosition

\* A new fold is a new life of the book, which has never been saved.
LEMMA NextFoldIsABookStart ==
  ASSUME NextFold
  PROVE  Book!Restart
<1>1. ~InPosition'
  BY SMT DEF NextFold, InPosition
<1>2. BookPositions' = [s \in {Asset} |-> Book!NoPosition]
  BY <1>1 DEF NextFold, BookPositions, Book!NoPosition
<1>3. BookWatermarks' = [s \in {Asset} |-> 0]
  BY DEF NextFold, BookWatermarks
<1> QED BY <1>2, <1>3 DEF NextFold, Book!Restart, Book!FreshBook

\* The backtest implements the live book: whatever the prices, each of its orders
\* is one the book accepts, with the same cash, shares, price and position after
\* it, and nothing else it does touches the book.
THEOREM BacktestImplementsBook == Amounts = Nat => (Spec => BacktestUsesBook)
<1> SUFFICES ASSUME Amounts = Nat PROVE Spec => BacktestUsesBook
  OBVIOUS
<1>1. Init => Book!Init
  <2> SUFFICES ASSUME Init PROVE Book!Init
    OBVIOUS
  <2>1. ~InPosition
    BY SMT DEF Init, InPosition
  <2> QED BY <2>1 DEF Init, Book!Init, Book!NoPosition, Book!NoFile, BookPositions, BookWatermarks
<1>2. BacktestInvariant /\ [Next]_btvars => [Book!Next]_Book!pvars
  <2> SUFFICES ASSUME BacktestInvariant, [Next]_btvars PROVE Book!Next \/ UNCHANGED Book!pvars
    OBVIOUS
  <2>1. Ledger /\ last \in Closes \cup {BadClose}
    BY DEF BacktestInvariant
  <2>2. ASSUME NEW px \in Closes, InPosition, SellAll(px) PROVE Book!Next
    <3>1. Book!Sell(Asset, 100, px)
      BY <2>1, <2>2, SellAllIsABookOrder
    <3> QED BY <3>1 DEF Book!Next, Book!Trade
  <2>3. ASSUME NEW px \in Closes, ~InPosition, cash > 1, BuyIn(px) PROVE Book!Next
    <3>1. Book!Buy(Asset, Alloc, px, 0)
      BY <2>1, <2>3, BuyInIsABookOrder
    <3>2. Alloc \in Amounts
      BY <2>1, AllocBound DEF Ledger
    <3> QED BY <3>1, <3>2 DEF Book!Next, Book!Trade
  <2>4. CASE Bar
    <3>1. PICK px \in Closes \cup {BadClose} :
            \/ px <= 0 /\ NoOrder
            \/ px > 0 /\ \E rsi \in Rsis \cup {NoRsi} : Order(px, rsi)
      BY <2>4 DEF Bar
    <3>2. CASE NoOrder
      BY <3>2, NoOrderKeepsBook
    <3>3. CASE px > 0 /\ \E rsi \in Rsis \cup {NoRsi} : Order(px, rsi)
      <4>1. px \in Closes
        BY <3>3, BacktestAssumption, SMT
      <4>2. \/ InPosition /\ SellAll(px)
            \/ ~InPosition /\ cash > 1 /\ BuyIn(px)
            \/ NoOrder
        BY <3>3 DEF Order, StoppedOut
      <4> QED BY <2>2, <2>3, <3>2, <4>1, <4>2, NoOrderKeepsBook
    <3> QED BY <3>1, <3>2, <3>3
  <2>5. CASE Settle
    <3>1. CASE InPosition /\ last > 0 /\ SellAll(last)
      <4>1. last \in Closes
        BY <2>1, <3>1, BacktestAssumption, SMT
      <4> QED BY <2>2, <3>1, <4>1
    <3>2. CASE NoOrder
      BY <3>2, NoOrderKeepsBook
    <3> QED BY <2>5, <3>1, <3>2 DEF Settle
  <2>6. CASE NextFold
    BY <2>6, NextFoldIsABookStart DEF Book!Next
  <2>7. CASE UNCHANGED btvars
    BY <2>7 DEF btvars, Book!pvars, BookPositions, BookWatermarks, InPosition
  <2> QED BY <2>4, <2>5, <2>6, <2>7 DEF Next
<1> QED BY <1>1, <1>2, BacktestInvariantHolds, PTL DEF Spec, BacktestUsesBook, Book!Spec
=============================================================================
