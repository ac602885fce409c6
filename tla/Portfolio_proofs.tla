--------------------------- MODULE Portfolio_proofs ---------------------------
(***************************************************************************)
(* Proofs about the Portfolio class, for every set of symbols, every price *)
(* feed, every commission and slippage: the account is never overdrawn     *)
(* (LedgerTypeOK), and a position and its watermark live and die together  *)
(* in memory and on disk (BookConsistent). The two are proved as one       *)
(* inductive invariant, because each needs the other: an average price     *)
(* stays positive only while an open position has shares, and a watermark  *)
(* stays a number only while positions are positions.                      *)
(*                                                                         *)
(* The recorded book (Postmortem) implements the book, so that all of this *)
(* holds of it, and reports a sale at most once in each process            *)
(* (ReportedOncePerStart): a trade of the history that this process has    *)
(* reported has a date that is past or done (ReportDated).                 *)
(***************************************************************************)
EXTENDS Postmortem, FiniteSetTheorems, SequenceTheorems, TLAPS

-----------------------------------------------------------------------------
(* Quotients rounded down. *)

\* The quotient rounded down is the largest number whose product fits.
LEMMA DivBound ==
  ASSUME NEW a \in Nat, NEW b \in Nat \ {0}
  PROVE  /\ a \div b \in Nat
         /\ (a \div b) * b <= a
         /\ a < ((a \div b) + 1) * b
BY SMT

\* What fits below the dividend is below the quotient.
LEMMA DivAtLeast ==
  ASSUME NEW a \in Nat, NEW b \in Nat \ {0}, NEW c \in Nat, c * b <= a
  PROVE  c <= a \div b
<1> DEFINE q == a \div b
<1>1. q \in Nat /\ a < (q + 1) * b
  BY DivBound
<1> HIDE DEF q
<1>2. c <= q
  <2>1. SUFFICES ASSUME c >= q + 1 PROVE FALSE
    BY <1>1, SMT
  <2>2. PICK d \in Nat : c = q + 1 + d
    BY <1>1, <2>1, SMT
  <2>3. c * b = (q + 1) * b + d * b /\ d * b >= 0
    BY <1>1, <2>2, SMT
  <2> QED BY <1>1, <2>3, SMT
<1> QED BY <1>2 DEF q

\* What covers the dividend covers the quotient.
LEMMA DivAtMost ==
  ASSUME NEW a \in Nat, NEW b \in Nat \ {0}, NEW c \in Nat, a <= c * b
  PROVE  a \div b <= c
<1> DEFINE q == a \div b
<1>1. q \in Nat /\ q * b <= c * b
  BY DivBound, SMT
<1> HIDE DEF q
<1>2. q <= c
  BY <1>1, SMT
<1> QED BY <1>2 DEF q

-----------------------------------------------------------------------------
(* The arithmetic of an order. *)

\* A commission is a number and never more than the amount it is taken from.
LEMMA CommissionBound ==
  ASSUME NEW x \in Nat
  PROVE  Commission(x) \in Nat /\ Commission(x) <= x /\ Commission(x) * 1000 <= x * CommissionPM
<1>1. CommissionPM \in Nat /\ CommissionPM <= 1000
  BY PortfolioAssumption, SMT
<1>2. x * CommissionPM \in Nat /\ x * CommissionPM <= x * 1000
  BY <1>1, SMT
<1> DEFINE a == x * CommissionPM
<1>3. a \in Nat /\ a <= x * 1000
  BY <1>2
<1> HIDE DEF a
<1>4. a \div 1000 \in Nat /\ (a \div 1000) * 1000 <= a /\ a \div 1000 <= x
  BY <1>3, DivBound, DivAtMost, SMT
<1> QED BY <1>4 DEF Commission, a

\* Solvency of one order: what Spend leaves of an order, with its commission,
\* is covered by cash.
LEMMA SpendCovered ==
  ASSUME cash \in Nat, NEW amount \in Nat
  PROVE  Spend(amount) \in Nat /\ Spend(amount) + Commission(Spend(amount)) <= cash
<1> DEFINE b == 1000 + CommissionPM
           m == MaxAffordable
           s == Spend(amount)
           c == Commission(s)
<1>1. CommissionPM \in Nat /\ b \in Nat \ {0} /\ cash * 1000 \in Nat
  BY PortfolioAssumption, SMT
<1>2. m \in Nat /\ m * b <= cash * 1000
  BY <1>1, DivBound DEF MaxAffordable
<1>3. s \in Nat /\ s <= m
  BY <1>2, SMT DEF Spend
<1>4. c \in Nat /\ c * 1000 <= s * CommissionPM
  BY <1>3, CommissionBound
<1>5. s * b <= cash * 1000
  <2> HIDE DEF m, s, b
  <2>1. s * b <= m * b
    BY <1>1, <1>2, <1>3, SMT
  <2>2. s * b \in Nat /\ m * b \in Nat
    BY <1>1, <1>2, <1>3, SMT
  <2> QED BY <1>1, <1>2, <2>1, <2>2, SMT
<1>6. s * b = s * 1000 + s * CommissionPM
  BY <1>1, <1>3, SMT
<1> HIDE DEF s, c, m
<1>7. s * CommissionPM \in Nat
  BY <1>1, <1>3, SMT
<1> HIDE DEF b
<1>8. s + c <= cash
  BY <1>1, <1>3, <1>4, <1>5, <1>6, <1>7, SMT
<1> QED BY <1>3, <1>8 DEF s, c

\* A buyer's price, slippage included, is positive; a seller's is a number.
LEMMA FillPricePositive ==
  ASSUME NEW px \in Nat \ {0}
  PROVE  BuyPx(px) \in Nat \ {0} /\ SellPx(px) \in Nat
<1>1. SlippagePM \in Nat /\ SlippagePM <= 999
  BY PortfolioAssumption, SMT
<1>2. px * (1000 + SlippagePM) \in Nat /\ 1 * 1000 <= px * (1000 + SlippagePM)
  BY <1>1, SMT
<1>3. BuyPx(px) \in Nat /\ 1 <= BuyPx(px)
  BY <1>2, DivBound, DivAtLeast DEF BuyPx
<1>4. px * (1000 - SlippagePM) \in Nat
  BY <1>1, SMT
<1>5. SellPx(px) \in Nat
  BY <1>4, DivBound DEF SellPx
<1> QED BY <1>3, <1>5, SMT

\* An accepted order buys at least one share quantum: rounding never takes
\* cash for an empty position.
LEMMA SharesBought ==
  ASSUME NEW spend \in Nat \ {0}, NEW px \in Fills
  PROVE  SharesFor(spend, px) \in Nat \ {0}
<1>1. px \in Nat \ {0}
  BY PortfolioAssumption
<1>2. BuyPx(px) \in Nat \ {0}
  BY <1>1, FillPricePositive
<1>3. ShareScale \in Nat \ {0} /\ BuyPx(px) <= ShareScale
  BY ShareScaleAssumption DEF BuyPx
<1> DEFINE b == BuyPx(px)
<1> HIDE DEF b
<1>4. b \in Nat \ {0} /\ b <= ShareScale
  BY <1>2, <1>3 DEF b
<1>5. spend * ShareScale \in Nat /\ ShareScale <= spend * ShareScale
  BY <1>3, SMT
<1>6. 1 * b <= spend * ShareScale
  BY <1>3, <1>4, <1>5, SMT
<1>7. 1 <= (spend * ShareScale) \div b /\ (spend * ShareScale) \div b \in Nat
  BY <1>4, <1>5, <1>6, DivBound, DivAtLeast
<1> QED BY <1>7, SMT DEF SharesFor, b

\* A sale of a part of a position leaves some of it.
LEMMA SharesLeft ==
  ASSUME NEW n \in Nat, NEW pct \in Nat, pct <= 100
  PROVE  /\ (n * pct) \div 100 \in 0..n
         /\ n > 0 /\ pct < 100 => (n * pct) \div 100 < n
<1> DEFINE a == n * pct
<1>1. a \in Nat /\ a <= n * 100 /\ (n > 0 /\ pct < 100 => a < n * 100)
  BY SMT
<1> HIDE DEF a
<1>2. a \div 100 \in Nat /\ (a \div 100) * 100 <= a
  BY <1>1, DivBound
<1>3. a \div 100 \in 0..n /\ (n > 0 /\ pct < 100 => a \div 100 < n)
  BY <1>1, <1>2, SMT
<1> QED BY <1>3 DEF a

\* The average of positive prices is positive.
LEMMA AveragePositive ==
  ASSUME NEW p \in Position, p.avgPrice > 0,
         NEW bought \in Nat \ {0}, NEW px \in Nat \ {0}
  PROVE  AveragePrice(p, bought, px) \in Nat \ {0}
<1> DEFINE n == p.shares
           old == p.avgPrice
           new == BuyPx(px)
<1>1. n \in Nat /\ old \in Nat \ {0} /\ new \in Nat \ {0}
  BY FillPricePositive, SMT DEF Position
<1> HIDE DEF n, old, new
<1>2. n + bought \in Nat \ {0} /\ n * old + bought * new \in Nat
  BY <1>1, SMT
<1>3. n <= n * old /\ bought <= bought * new /\ n * old \in Nat /\ bought * new \in Nat
  BY <1>1, SMT
<1>4. 1 * (n + bought) <= n * old + bought * new
  BY <1>1, <1>3, SMT
<1>5. 1 <= (n * old + bought * new) \div (n + bought)
      /\ (n * old + bought * new) \div (n + bought) \in Nat
  BY <1>2, <1>4, DivBound, DivAtLeast
<1> QED BY <1>5, SMT DEF AveragePrice, n, old, new

-----------------------------------------------------------------------------
(* The value of the open positions is a sum over a set.  MapThenSumSet is a *)
(* recursive function on the subsets of Held; a descent on strict subsets   *)
(* shows that the function exists and takes natural numbers as values.      *)

Pick(t) == CHOOSE x \in t : TRUE
SumOver(H, w, g) == [t \in SUBSET H |-> IF t = {} THEN 0 ELSE w[Pick(t)] + g[t \ {Pick(t)}]]

\* A family of subsets of a finite set has a smallest member.
LEMMA SmallestSubset ==
  ASSUME NEW H, IsFiniteSet(H), NEW T \in SUBSET SUBSET H, T # {}
  PROVE  \E t \in T : \A u \in T : u \subseteq t => u = t
<1>1. IsWellFoundedOn(StrictSubsetOrdering(H), SUBSET H)
  BY FS_StrictSubsetOrderingWellFounded, FS_FiniteSubsetsOfFinite
<1>2. PICK t \in T : \A u \in T : <<u, t>> \notin StrictSubsetOrdering(H)
  BY <1>1, WFMin
<1> QED BY <1>2 DEF StrictSubsetOrdering

\* Two partial sums agree where both are defined.
LEMMA SumsAgree ==
  ASSUME NEW H, IsFiniteSet(H), NEW w, NEW A \in SUBSET H, NEW B \in SUBSET H, NEW g, NEW h,
         g = SumOver(A, w, g), h = SumOver(B, w, h),
         NEW t \in SUBSET A, t \in SUBSET B
  PROVE  g[t] = h[t]
<1> DEFINE Bad == {u \in SUBSET H : u \subseteq A /\ u \subseteq B /\ g[u] # h[u]}
<1>1. SUFFICES ASSUME Bad # {} PROVE FALSE
  OBVIOUS
<1>2. PICK u \in Bad : \A v \in Bad : v \subseteq u => v = u
  <2>1. Bad \in SUBSET SUBSET H
    OBVIOUS
  <2> HIDE DEF Bad
  <2> QED BY <1>1, <2>1, SmallestSubset
<1>3. /\ g[u] = (IF u = {} THEN 0 ELSE w[Pick(u)] + g[u \ {Pick(u)}])
      /\ h[u] = (IF u = {} THEN 0 ELSE w[Pick(u)] + h[u \ {Pick(u)}])
  BY DEF SumOver
<1>4. u # {} /\ Pick(u) \in u
  BY <1>3 DEF Pick
<1>5. u \ {Pick(u)} \notin Bad
  BY <1>2, <1>4
<1> QED BY <1>3, <1>4, <1>5

\* Every finite set has its sums.
LEMMA SumsExist ==
  ASSUME NEW H, IsFiniteSet(H), NEW w
  PROVE  \E g : g = SumOver(H, w, g)
<1> DEFINE Bad == {A \in SUBSET H : ~\E g : g = SumOver(A, w, g)}
           G(A) == CHOOSE g : g = SumOver(A, w, g)
<1>1. SUFFICES ASSUME Bad # {} PROVE FALSE
  OBVIOUS
<1>2. PICK A \in Bad : \A B \in Bad : B \subseteq A => B = A
  <2>1. Bad \in SUBSET SUBSET H
    OBVIOUS
  <2> HIDE DEF Bad
  <2> QED BY <1>1, <2>1, SmallestSubset
<1>3. ASSUME NEW B \in SUBSET A, B # A PROVE G(B) = SumOver(B, w, G(B))
  BY <1>2, <1>3
<1> HIDE DEF G
<1> DEFINE rest(t) == t \ {Pick(t)}
           h == [t \in SUBSET A |-> IF t = {} THEN 0 ELSE w[Pick(t)] + G(rest(t))[rest(t)]]
<1>4. ASSUME NEW t \in SUBSET A, t # {} PROVE h[rest(t)] = G(rest(t))[rest(t)]
  <2>1. Pick(t) \in t /\ rest(t) \in SUBSET A /\ rest(t) # A
    BY <1>4 DEF Pick
  <2>2. G(rest(t)) = SumOver(rest(t), w, G(rest(t)))
    BY <1>3, <2>1
  <2>3. CASE rest(t) = {}
    BY <2>1, <2>2, <2>3 DEF SumOver
  <2>4. CASE rest(t) # {}
    <3> DEFINE u == rest(t)
    <3>1. Pick(u) \in u /\ rest(u) \in SUBSET u /\ rest(u) # A /\ u \in SUBSET A
      BY <2>1, <2>4 DEF Pick
    <3>2. G(rest(u)) = SumOver(rest(u), w, G(rest(u)))
      BY <1>3, <3>1
    <3>3. G(u)[u] = w[Pick(u)] + G(u)[rest(u)]
      BY <2>2, <2>4 DEF SumOver
    <3>4. G(u)[rest(u)] = G(rest(u))[rest(u)]
      <4> HIDE DEF u
      <4>1. rest(u) \in SUBSET u /\ u \in SUBSET H /\ rest(u) \in SUBSET H
        BY <1>2, <3>1
      <4>2. G(u) = SumOver(u, w, G(u))
        BY <2>2 DEF u
      <4> HIDE DEF rest
      <4> QED BY <3>2, <4>1, <4>2, SumsAgree
    <3>5. h[u] = w[Pick(u)] + G(rest(u))[rest(u)]
      BY <2>4, <3>1
    <3> QED BY <3>3, <3>4, <3>5
  <2> QED BY <2>3, <2>4
<1>5. h = SumOver(A, w, h)
  BY <1>4 DEF SumOver
<1> QED BY <1>2, <1>5

\* ... and a sum of natural numbers is one.
LEMMA SumIsNatural ==
  ASSUME NEW H, IsFiniteSet(H), NEW w \in [H -> Nat], NEW g, g = SumOver(H, w, g)
  PROVE  g[H] \in Nat
<1> DEFINE Bad == {t \in SUBSET H : g[t] \notin Nat}
<1>1. SUFFICES ASSUME Bad # {} PROVE FALSE
  OBVIOUS
<1>2. PICK t \in Bad : \A u \in Bad : u \subseteq t => u = t
  <2>1. Bad \in SUBSET SUBSET H
    OBVIOUS
  <2> HIDE DEF Bad
  <2> QED BY <1>1, <2>1, SmallestSubset
<1>3. g[t] = (IF t = {} THEN 0 ELSE w[Pick(t)] + g[t \ {Pick(t)}])
  BY DEF SumOver
<1>4. t # {} /\ Pick(t) \in t
  BY <1>3 DEF Pick
<1>5. g[t \ {Pick(t)}] \in Nat /\ w[Pick(t)] \in Nat
  BY <1>2, <1>4
<1> QED BY <1>3, <1>4, <1>5

\* get_total_value: the value of the account is cash and a natural number.
LEMMA ValueIsNatural ==
  ASSUME IsFiniteSet(Symbols), NEW prices,
         \A s \in Held : Worth(positions[s].shares, MarkPrice(s, prices)) \in Nat
  PROVE  \E n \in Nat : TotalValue(prices) = cash + n
<1> DEFINE w == [s \in Held |-> Worth(positions[s].shares, MarkPrice(s, prices))]
           Is(g) == g = [t \in SUBSET Held |->
                           IF t = {} THEN 0
                           ELSE Worth(positions[Pick(t)].shares, MarkPrice(Pick(t), prices))
                                + g[t \ {Pick(t)}]]
           sums == CHOOSE g : Is(g)
<1>1. IsFiniteSet(Held) /\ w \in [Held -> Nat]
  BY FS_Subset DEF Held
<1>2. TotalValue(prices) = cash + sums[Held]
  BY DEF TotalValue, MapThenSumSet, MapThenFoldSet, Pick
<1>3. ASSUME NEW g PROVE SumOver(Held, w, g) = [t \in SUBSET Held |->
                           IF t = {} THEN 0
                           ELSE Worth(positions[Pick(t)].shares, MarkPrice(Pick(t), prices))
                                + g[t \ {Pick(t)}]]
  <2>1. \A t \in SUBSET Held : t # {} => Pick(t) \in Held
    BY DEF Pick
  <2>2. \A t \in SUBSET Held : t # {} => w[Pick(t)] = Worth(positions[Pick(t)].shares, MarkPrice(Pick(t), prices))
    BY <2>1
  <2> HIDE DEF w
  <2> QED BY <2>2 DEF SumOver
<1>4. \E g : Is(g)
  <2>1. PICK g : g = SumOver(Held, w, g)
    BY <1>1, SumsExist
  <2> HIDE DEF w
  <2> WITNESS g
  <2> QED BY <1>3, <2>1
<1>5. Is(sums)
  BY <1>4
<1> HIDE DEF sums, w
<1>6. sums = SumOver(Held, w, sums)
  BY <1>3, <1>5
<1>7. sums[Held] \in Nat
  BY <1>1, <1>6, SumIsNatural
<1> QED BY <1>2, <1>7

-----------------------------------------------------------------------------
(* The inductive invariant. *)

BookInvariant == LedgerTypeOK /\ BookConsistent

FileOK(file) ==
  \/ file = NoFile
  \/ /\ file.exists
     /\ BookType(file.cash, file.positions, file.highWatermarks)
     /\ Consistent(file.positions, file.highWatermarks)

\* The invariant says the same of the book in memory and of the book on disk.
LEMMA InvariantSplit ==
  BookInvariant <=> /\ BookType(cash, positions, highWatermarks)
                    /\ Consistent(positions, highWatermarks)
                    /\ isDead \in BOOLEAN
                    /\ FileOK(saved)
BY DEF BookInvariant, LedgerTypeOK, BookConsistent, FileOK, NoFile

\* save_state: what it writes is a consistent book whenever memory is one.
LEMMA SaveKeepsFileOK ==
  ASSUME FileOK(saved), SaveState,
         BookType(cash, positions, highWatermarks)',
         Consistent(positions, highWatermarks)'
  PROVE  FileOK(saved')
<1>1. CASE UNCHANGED saved
  BY <1>1
<1>2. CASE saved' = [exists |-> TRUE,
                     cash |-> cash',
                     positions |-> positions',
                     highWatermarks |->
                       [s \in Symbols |-> IF positions'[s].shares > 0
                                          THEN highWatermarks'[s] ELSE 0],
                     peakValue |-> peakValue']
  <2> DEFINE hw == [s \in Symbols |-> IF positions'[s].shares > 0
                                      THEN highWatermarks'[s] ELSE 0]
  <2>1. BookType(cash', positions', hw)
    BY DEF BookType
  <2>2. Consistent(positions', hw)
    BY DEF Consistent
  <2> QED BY <1>2, <2>1, <2>2 DEF FileOK
<1> QED BY <1>1, <1>2 DEF SaveState

\* Portfolio.buy keeps the book well formed, solvent and consistent.
LEMMA BuyKeepsInvariant ==
  ASSUME BookInvariant,
         NEW s \in Symbols, NEW amount \in Amounts, NEW px \in Fills, NEW day \in Days,
         Buy(s, amount, px, day)
  PROVE  BookInvariant'
<1> DEFINE spend == Spend(amount)
           bought == SharesFor(spend, px)
<1>1. /\ BookType(cash, positions, highWatermarks)
      /\ Consistent(positions, highWatermarks)
      /\ isDead \in BOOLEAN
      /\ FileOK(saved)
  BY InvariantSplit
<1>2. amount \in Nat /\ px \in Nat \ {0} /\ day \in Nat /\ MaxPyramidLayers \in Nat \ {0}
  BY PortfolioAssumption
<1>3. spend \in Nat /\ spend >= 1 /\ spend + Commission(spend) <= cash
  BY <1>1, <1>2, SpendCovered DEF BookType, Buy, CanBuy
<1>4. bought \in Nat \ {0}
  BY <1>3, SharesBought
<1>5. BuyPx(px) \in Nat \ {0}
  BY <1>2, FillPricePositive
<1>6. cash' \in Nat
  <2>1. cash' = cash - (spend + Commission(spend))
    BY DEF Buy
  <2>2. Commission(spend) \in Nat
    BY <1>3, CommissionBound
  <2> HIDE DEF spend
  <2> QED BY <1>1, <1>3, <2>1, <2>2 DEF BookType
<1> HIDE DEF spend, bought
<1>7. BookType(cash, positions, highWatermarks)' /\ Consistent(positions, highWatermarks)'
  <2>1. CASE s \in Held
    <3>1. positions' = [positions EXCEPT ![s] = Pyramided(@, bought, px)]
          /\ highWatermarks' = highWatermarks /\ positions[s].layers < MaxPyramidLayers
      BY <2>1 DEF Buy, CanBuy, spend, bought
    <3>2. positions[s] \in Position /\ positions[s].shares > 0 /\ positions[s].avgPrice > 0
          /\ highWatermarks[s] > 0
      BY <1>1, <2>1 DEF BookType, Consistent, Held
    <3>3. AveragePrice(positions[s], bought, px) \in Nat \ {0}
      BY <1>2, <1>4, <3>2, AveragePositive
    <3>4. /\ Pyramided(positions[s], bought, px) \in Position
          /\ Pyramided(positions[s], bought, px).shares > 0
          /\ Pyramided(positions[s], bought, px).layers >= 1
          /\ Pyramided(positions[s], bought, px).avgPrice > 0
      <4> DEFINE avg == AveragePrice(positions[s], bought, px)
      <4>1. avg \in Nat \ {0}
        BY <3>3
      <4> HIDE DEF avg
      <4>2. Pyramided(positions[s], bought, px)
              = [shares |-> positions[s].shares + bought, avgPrice |-> avg,
                 layers |-> positions[s].layers + 1,
                 openedAt |-> positions[s].openedAt, tpTaken |-> positions[s].tpTaken]
        BY DEF Pyramided, avg
      <4> QED BY <1>2, <1>4, <3>1, <3>2, <4>1, <4>2 DEF Position
    <3> DEFINE q == Pyramided(positions[s], bought, px)
    <3>5. q \in Position /\ q.shares > 0 /\ q.layers >= 1 /\ q.avgPrice > 0
      BY <3>4
    <3>6. positions' = [positions EXCEPT ![s] = q]
      BY <3>1
    <3> HIDE DEF q
    <3> QED BY <1>1, <1>6, <3>1, <3>2, <3>5, <3>6 DEF BookType, Consistent, Position
  <2>2. CASE s \notin Held
    <3>1. /\ positions' = [positions EXCEPT ![s] = Opened(bought, px, day)]
          /\ highWatermarks' = [highWatermarks EXCEPT ![s] = Raised(@, BuyPx(px))]
      BY <2>2 DEF Buy, spend, bought
    <3>2. /\ Opened(bought, px, day) \in Position
          /\ Opened(bought, px, day).shares > 0
          /\ Opened(bought, px, day).layers >= 1
          /\ Opened(bought, px, day).avgPrice > 0
      BY <1>2, <1>4, <1>5 DEF Opened, Position
    <3>3. Raised(highWatermarks[s], BuyPx(px)) \in Nat \ {0}
      BY <1>1, <1>5 DEF Raised, BookType
    <3> DEFINE q == Opened(bought, px, day)
               h == Raised(highWatermarks[s], BuyPx(px))
    <3>4. q \in Position /\ q.shares > 0 /\ q.layers >= 1 /\ q.avgPrice > 0 /\ h \in Nat \ {0}
      BY <3>2, <3>3
    <3>5. positions' = [positions EXCEPT ![s] = q]
          /\ highWatermarks' = [highWatermarks EXCEPT ![s] = h]
      BY <3>1
    <3> HIDE DEF q, h
    <3> QED BY <1>1, <1>6, <3>4, <3>5 DEF BookType, Consistent
  <2> QED BY <2>1, <2>2
<1>8. FileOK(saved')
  BY <1>1, <1>7, SaveKeepsFileOK DEF Buy
<1>9. isDead' \in BOOLEAN
  BY <1>1 DEF Buy
<1> QED BY <1>7, <1>8, <1>9, InvariantSplit DEF BookInvariant, LedgerTypeOK, BookConsistent, FileOK, NoFile

\* Portfolio.sell keeps the book well formed and consistent: a full exit takes
\* the watermark along, a partial one leaves shares.
LEMMA SellKeepsInvariant ==
  ASSUME BookInvariant,
         NEW s \in Symbols, NEW pct \in SellPcts, NEW px \in Fills,
         Sell(s, pct, px)
  PROVE  BookInvariant'
<1> DEFINE sold == SharesSold(s, pct)
           proceeds == Proceeds(s, pct, px)
<1>1. /\ BookType(cash, positions, highWatermarks)
      /\ Consistent(positions, highWatermarks)
      /\ isDead \in BOOLEAN
      /\ FileOK(saved)
  BY InvariantSplit
<1>2. pct \in Nat /\ 0 < pct /\ pct <= 100 /\ s \in Held /\ px \in Nat \ {0}
  BY PortfolioAssumption DEF Sell, CanSell
<1>3. positions[s] \in Position /\ positions[s].shares \in Nat /\ positions[s].shares > 0
  BY <1>1, <1>2 DEF BookType, Held, Position
<1>4. sold \in 0..positions[s].shares /\ (pct < 100 => sold < positions[s].shares)
  BY <1>2, <1>3, SharesLeft DEF SharesSold
<1>5. proceeds \in Nat
  <2>1. SellPx(px) \in Nat /\ ShareScale \in Nat \ {0} /\ sold \in Nat
    BY <1>2, <1>3, <1>4, FillPricePositive, ShareScaleAssumption
  <2>2. sold * SellPx(px) \in Nat
    BY <2>1, SMT
  <2> QED BY <2>1, <2>2, DivBound DEF Proceeds, Worth
<1>6. cash' \in Nat
  <2>1. Commission(proceeds) \in Nat /\ Commission(proceeds) <= proceeds
    BY <1>5, CommissionBound
  <2>2. cash' = cash + (proceeds - Commission(proceeds))
    BY DEF Sell
  <2> HIDE DEF proceeds
  <2> QED BY <1>1, <1>5, <2>1, <2>2 DEF BookType
<1> HIDE DEF sold, proceeds
<1>7. BookType(cash, positions, highWatermarks)' /\ Consistent(positions, highWatermarks)'
  <2>1. CASE pct >= 100
    <3>1. positions' = [positions EXCEPT ![s] = NoPosition]
          /\ highWatermarks' = [highWatermarks EXCEPT ![s] = 0]
      BY <2>1 DEF Sell, WatermarksAfterSell
    <3>2. NoPosition \in Position /\ NoPosition.shares = 0
      BY PortfolioAssumption DEF NoPosition, Position
    <3> QED BY <1>1, <1>6, <3>1, <3>2 DEF BookType, Consistent
  <2>2. CASE pct < 100
    <3> DEFINE q == [positions[s] EXCEPT !.shares = positions[s].shares - sold]
    <3>1. positions' = [positions EXCEPT ![s] = q] /\ highWatermarks' = highWatermarks
      BY <1>2, <2>2 DEF Sell, WatermarksAfterSell, sold
    <3>2. /\ q \in Position /\ q.shares > 0
          /\ q.layers = positions[s].layers /\ q.avgPrice = positions[s].avgPrice
      BY <1>3, <1>4, <2>2 DEF Position
    <3> HIDE DEF q
    <3> QED BY <1>1, <1>3, <1>6, <3>1, <3>2 DEF BookType, Consistent
  <2> QED BY <1>2, <2>1, <2>2
<1>8. FileOK(saved')
  BY <1>1, <1>7, SaveKeepsFileOK DEF Sell
<1>9. isDead' \in BOOLEAN
  BY <1>1 DEF Sell
<1> QED BY <1>7, <1>8, <1>9
        DEF BookInvariant, LedgerTypeOK, BookConsistent, FileOK, NoFile

\* The operations that only touch memory.
LEMMA MemoryOperationsKeepInvariant ==
  ASSUME BookInvariant,
         \/ \E s \in Symbols : MarkTakeProfit(s)
         \/ \E prices \in PriceTables :
              UpdateWatermarks(prices) \/ RecordValue(prices) \/ CheckDeath(prices)
  PROVE  BookInvariant'
<1>1. CASE \E s \in Symbols : MarkTakeProfit(s)
  <2>1. PICK s \in Symbols : MarkTakeProfit(s)
    BY <1>1
  <2> DEFINE q == [positions[s] EXCEPT !.tpTaken = TRUE]
  <2>2. positions[s] \in Position /\ positions[s].shares > 0
    BY <2>1 DEF BookInvariant, LedgerTypeOK, BookType, MarkTakeProfit, Held
  <2>3. /\ q \in Position /\ q.shares = positions[s].shares
        /\ q.layers = positions[s].layers /\ q.avgPrice = positions[s].avgPrice
    BY <2>2 DEF Position
  <2>4. positions' = [positions EXCEPT ![s] = q]
        /\ UNCHANGED <<cash, highWatermarks, peakValue, isDead, saved>>
    BY <2>1 DEF MarkTakeProfit
  <2> HIDE DEF q
  <2> QED BY <2>2, <2>3, <2>4
          DEF BookInvariant, LedgerTypeOK, BookConsistent, BookType, Consistent
<1>2. CASE \E prices \in PriceTables : UpdateWatermarks(prices)
  <2>1. PICK prices \in PriceTables : UpdateWatermarks(prices)
    BY <1>2
  <2>2. \A s \in Symbols : prices[s] \in Nat
    <3>1. prices \in PriceTables
      BY <2>1
    <3>2. Quotes \cup {NoQuote} \subseteq Nat
      BY PortfolioAssumption DEF NoQuote
    <3> QED BY <3>1, <3>2 DEF PriceTables
  <2>3. /\ highWatermarks' \in [Symbols -> Nat]
        /\ \A s \in Symbols : highWatermarks'[s] >= highWatermarks[s]
        /\ \A s \in Symbols : positions[s].shares = 0 => highWatermarks'[s] = highWatermarks[s]
    BY <2>1, <2>2 DEF BookInvariant, LedgerTypeOK, BookType, UpdateWatermarks, Raised, Held
  <2>4. UNCHANGED <<cash, positions, isDead, saved>>
    BY <2>1 DEF UpdateWatermarks
  <2> QED BY <2>3, <2>4
          DEF BookInvariant, LedgerTypeOK, BookConsistent, BookType, Consistent
<1>3. CASE \E prices \in PriceTables : RecordValue(prices)
  BY <1>3 DEF BookInvariant, LedgerTypeOK, BookConsistent, RecordValue
<1>4. CASE \E prices \in PriceTables : CheckDeath(prices)
  BY <1>4 DEF BookInvariant, LedgerTypeOK, BookConsistent, CheckDeath
<1> QED BY <1>1, <1>2, <1>3, <1>4

\* A restart finds in the file what the invariant says of the file.
LEMMA RestartKeepsInvariant ==
  ASSUME BookInvariant, Restart
  PROVE  BookInvariant'
<1>1. isDead' \in BOOLEAN /\ saved' = saved /\ FileOK(saved)
  BY InvariantSplit DEF Restart
<1>2. BookType(cash, positions, highWatermarks)' /\ Consistent(positions, highWatermarks)'
  <2>1. CASE saved.exists
    <3>1. saved # NoFile \/ ~saved.exists
      BY DEF NoFile
    <3>2. /\ BookType(saved.cash, saved.positions, saved.highWatermarks)
          /\ Consistent(saved.positions, saved.highWatermarks)
      BY <1>1, <2>1, <3>1 DEF FileOK
    <3> QED BY <2>1, <3>2 DEF Restart, LoadedBook, BookType, Consistent
  <2>2. CASE ~saved.exists
    <3>1. InitialBalance \in Nat /\ NoPosition \in Position /\ NoPosition.shares = 0
      BY PortfolioAssumption DEF NoPosition, Position
    <3> QED BY <2>2, <3>1 DEF Restart, FreshBook, BookType, Consistent
  <2> QED BY <2>1, <2>2
<1> QED BY <1>1, <1>2
        DEF BookInvariant, LedgerTypeOK, BookConsistent, FileOK, NoFile

-----------------------------------------------------------------------------
(* Theorems. *)

\* The invariant holds of a new account ...
LEMMA NewAccount == Init => BookInvariant
<1>1. InitialBalance \in Nat /\ NoPosition \in Position /\ NoPosition.shares = 0
  BY PortfolioAssumption DEF NoPosition, Position
<1> SUFFICES ASSUME Init PROVE BookInvariant
  OBVIOUS
<1>2. BookType(cash, positions, highWatermarks)
  BY <1>1 DEF Init, BookType
<1>3. Consistent(positions, highWatermarks)
  BY <1>1 DEF Init, Consistent
<1>4. FileOK(saved) /\ isDead \in BOOLEAN
  BY DEF Init, FileOK
<1> QED BY <1>2, <1>3, <1>4, InvariantSplit

\* ... and every method preserves it.
LEMMA MethodKeepsInvariant ==
  ASSUME BookInvariant, [Next]_pvars
  PROVE  BookInvariant'
<1>1. CASE Trade
  BY <1>1, BuyKeepsInvariant, SellKeepsInvariant DEF Trade
<1>2. CASE \/ \E s \in Symbols : MarkTakeProfit(s)
           \/ \E prices \in PriceTables :
                UpdateWatermarks(prices) \/ RecordValue(prices) \/ CheckDeath(prices)
  BY <1>2, MemoryOperationsKeepInvariant
<1>3. CASE Restart
  BY <1>3, RestartKeepsInvariant
<1>4. CASE UNCHANGED pvars
  BY <1>4 DEF pvars, BookInvariant, LedgerTypeOK, BookConsistent
<1> QED BY <1>1, <1>2, <1>3, <1>4 DEF Next

\* The inductive invariant behind the theorems below.
THEOREM BookInvariantHolds == Spec => []BookInvariant
BY NewAccount, MethodKeepsInvariant, PTL DEF Spec

\* Solvency and well-formedness (core/data.py): no sequence of orders, at any
\* price, with any commission, and with a restart between any two of them,
\* makes cash negative, oversells a position or passes the layer cap.
THEOREM LedgerAlwaysWellFormed == Spec => []LedgerTypeOK
BY BookInvariantHolds, PTL DEF BookInvariant

\* A closed position leaves no watermark behind, an open one always has one, in
\* memory and in the state file (core/data.py, sell and save_state).
THEOREM BookAlwaysConsistent == Spec => []BookConsistent
BY BookInvariantHolds, PTL DEF BookInvariant

\* The trailing stop is never loosened while a position is open: no method but
\* a restart lowers the watermark of a position that stays open
\* (core/data.py, buy, sell and update_watermarks).
THEOREM WatermarksOnlyRise == Spec => WatermarkNeverLowered
<1> DEFINE Keeps == \A s \in Symbols :
                      s \in Held /\ s \in Held' => highWatermarks'[s] >= highWatermarks[s]
<1>1. ASSUME BookInvariant, [Next]_pvars, ~Restart PROVE Keeps
  <2> SUFFICES ASSUME NEW s \in Symbols, s \in Held, s \in Held'
               PROVE  highWatermarks'[s] >= highWatermarks[s]
    OBVIOUS
  <2>1. highWatermarks \in [Symbols -> Nat]
    BY <1>1 DEF BookInvariant, LedgerTypeOK, BookType
  <2>2. CASE UNCHANGED highWatermarks
    BY <2>1, <2>2
  <2>3. ASSUME NEW r \in Symbols, NEW a \in Amounts, NEW px \in Fills, NEW d \in Days,
               Buy(r, a, px, d)
        PROVE  highWatermarks'[s] >= highWatermarks[s]
    <3>1. CASE r \in Held
      BY <2>1, <2>3, <3>1 DEF Buy
    <3>2. CASE r \notin Held
      <4>1. highWatermarks' = [highWatermarks EXCEPT ![r] = Raised(@, BuyPx(px))]
        BY <2>3, <3>2 DEF Buy
      <4> QED BY <2>1, <3>2, <4>1
    <3> QED BY <3>1, <3>2
  <2>4. ASSUME NEW r \in Symbols, NEW pct \in SellPcts, NEW px \in Fills, Sell(r, pct, px)
        PROVE  highWatermarks'[s] >= highWatermarks[s]
    <3>1. CASE pct >= 100
      <4>1. /\ positions' = [positions EXCEPT ![r] = NoPosition]
            /\ highWatermarks' = [highWatermarks EXCEPT ![r] = 0]
        BY <2>4, <3>1 DEF Sell, WatermarksAfterSell
      <4>2. r # s
        BY <1>1, <4>1 DEF Held, NoPosition, BookInvariant, LedgerTypeOK, BookType
      <4> QED BY <2>1, <4>1, <4>2
    <3>2. CASE ~(pct >= 100)
      BY <2>1, <2>4, <3>2 DEF Sell, WatermarksAfterSell
    <3> QED BY <3>1, <3>2
  <2>5. ASSUME NEW prices \in PriceTables, UpdateWatermarks(prices)
        PROVE  highWatermarks'[s] >= highWatermarks[s]
    <3>1. prices[s] \in Nat
      <4>1. Quotes \cup {NoQuote} \subseteq Nat
        BY PortfolioAssumption DEF NoQuote
      <4> QED BY <2>5, <4>1 DEF PriceTables
    <3> QED BY <2>1, <2>5, <3>1 DEF UpdateWatermarks, Raised
  <2>6. CASE Trade
    BY <2>3, <2>4, <2>6 DEF Trade
  <2>7. CASE \/ \E r \in Symbols : MarkTakeProfit(r)
             \/ \E prices \in PriceTables : RecordValue(prices) \/ CheckDeath(prices)
             \/ UNCHANGED pvars
    BY <2>2, <2>7 DEF MarkTakeProfit, RecordValue, CheckDeath, pvars
  <2> QED BY <1>1, <2>5, <2>6, <2>7 DEF Next
<1>2. BookInvariant /\ [Next]_pvars => [~Restart => Keeps]_pvars
  BY <1>1
<1> HIDE DEF Keeps
<1>3. Spec => [][~Restart => Keeps]_pvars
  BY <1>2, BookInvariantHolds, PTL DEF Spec
<1> QED BY <1>3 DEF WatermarkNeverLowered, Keeps

\* The average of two prices lies between them.
LEMMA AverageBetween ==
  ASSUME NEW n \in Nat, NEW m \in Nat \ {0}, NEW x \in Nat, NEW y \in Nat, x <= y
  PROVE  /\ x <= (n * x + m * y) \div (n + m) /\ (n * x + m * y) \div (n + m) <= y
         /\ x <= (n * y + m * x) \div (n + m) /\ (n * y + m * x) \div (n + m) <= y
<1>1. n + m \in Nat \ {0} /\ n * x + m * y \in Nat /\ n * y + m * x \in Nat
  BY SMT
<1>2. n * x <= n * y /\ m * x <= m * y
  BY SMT
<1>3. /\ x * (n + m) = n * x + m * x
      /\ y * (n + m) = n * y + m * y
      /\ n * x \in Nat /\ m * x \in Nat /\ n * y \in Nat /\ m * y \in Nat
  BY SMT
<1>4. /\ x * (n + m) <= n * x + m * y /\ n * x + m * y <= y * (n + m)
      /\ x * (n + m) <= n * y + m * x /\ n * y + m * x <= y * (n + m)
  BY <1>2, <1>3, SMT
<1> QED BY <1>1, <1>4, DivAtLeast, DivAtMost

\* A pyramid add never moves the entry price outside the old average and the
\* new fill (core/data.py, buy).
THEOREM AverageStaysBetweenFills == Spec => AverageBetweenFills
<1> DEFINE Between ==
      \A s \in Held : positions'[s].shares > positions[s].shares =>
         \A px \in Fills, a \in Amounts, d \in Days :
         Buy(s, a, px, d)
         => LET old == positions[s].avgPrice
                new == positions'[s].avgPrice
            IN \/ old <= new /\ new <= BuyPx(px)
               \/ BuyPx(px) <= new /\ new <= old
<1>1. ASSUME BookInvariant PROVE Between
  <2> SUFFICES ASSUME NEW s \in Held, NEW px \in Fills, NEW a \in Amounts, NEW d \in Days,
                      Buy(s, a, px, d)
               PROVE  \/ /\ positions[s].avgPrice <= positions'[s].avgPrice
                         /\ positions'[s].avgPrice <= BuyPx(px)
                      \/ /\ BuyPx(px) <= positions'[s].avgPrice
                         /\ positions'[s].avgPrice <= positions[s].avgPrice
    OBVIOUS
  <2> DEFINE spend == Spend(a)
             bought == SharesFor(spend, px)
             n == positions[s].shares
             old == positions[s].avgPrice
  <2>1. s \in Symbols /\ positions \in [Symbols -> Position] /\ n \in Nat /\ old \in Nat
    BY <1>1 DEF BookInvariant, LedgerTypeOK, BookType, Held, Position
  <2>2. a \in Nat /\ px \in Nat \ {0} /\ cash \in Nat
    BY <1>1, PortfolioAssumption DEF BookInvariant, LedgerTypeOK, BookType
  <2>3. spend \in Nat /\ spend >= 1
    BY <2>2, SpendCovered DEF Buy, CanBuy
  <2>4. bought \in Nat \ {0} /\ BuyPx(px) \in Nat \ {0}
    BY <2>2, <2>3, SharesBought, FillPricePositive
  <2>5. positions'[s].avgPrice = (n * old + bought * BuyPx(px)) \div (n + bought)
    BY <2>1 DEF Buy, Pyramided, AveragePrice
  <2>6. old = positions[s].avgPrice
    OBVIOUS
  <2> HIDE DEF bought, n, old
  <2> DEFINE new == BuyPx(px)
  <2>7. new \in Nat /\ new = BuyPx(px)
    BY <2>4
  <2> HIDE DEF new
  <2> DEFINE avg == (n * old + bought * new) \div (n + bought)
  <2>8. CASE old <= new
    <3>1. old <= avg /\ avg <= new
      BY <2>1, <2>4, <2>7, <2>8, AverageBetween
    <3> QED BY <2>5, <2>6, <2>7, <3>1
  <2>9. CASE new <= old
    <3>1. new <= avg /\ avg <= old
      BY <2>1, <2>4, <2>7, <2>9, AverageBetween
    <3> QED BY <2>5, <2>6, <2>7, <3>1
  <2>10. old <= new \/ new <= old
    BY <2>1, <2>7
  <2> QED BY <2>8, <2>9, <2>10
<1> HIDE DEF Between
<1>2. BookInvariant => [Between]_pvars
  BY <1>1
<1>3. Spec => [][Between]_pvars
  BY <1>2, BookInvariantHolds, PTL
<1> QED BY <1>3 DEF AverageBetweenFills, Between

-----------------------------------------------------------------------------
(* The peak value, and so the whole type invariant. *)

PeakInvariant ==
  /\ BookInvariant
  /\ peakValue \in Nat
  /\ saved.exists => saved.peakValue \in Nat

\* The account is worth a natural number at every table of quotes.
LEMMA AccountValue ==
  ASSUME BookInvariant, NEW prices \in PriceTables
  PROVE  TotalValue(prices) \in Nat
<1>1. ASSUME NEW s \in Held PROVE Worth(positions[s].shares, MarkPrice(s, prices)) \in Nat
  <2> DEFINE n == positions[s].shares
             m == MarkPrice(s, prices)
  <2>1. s \in Symbols /\ positions[s] \in Position
    BY <1>1 DEF Held, BookInvariant, LedgerTypeOK, BookType
  <2>2. Quotes \cup {NoQuote} \subseteq Nat
    BY PortfolioAssumption DEF NoQuote
  <2>3. n \in Nat /\ m \in Nat
    BY <2>1, <2>2 DEF MarkPrice, PriceTables, Position
  <2> HIDE DEF n, m
  <2>4. n * m \in Nat /\ ShareScale \in Nat \ {0}
    BY <2>3, ShareScaleAssumption, SMT
  <2>5. (n * m) \div ShareScale \in Nat
    BY <2>4, DivBound
  <2> QED BY <2>5 DEF Worth, n, m
<1>2. PICK n \in Nat : TotalValue(prices) = cash + n
  BY <1>1, ValueIsNatural, PortfolioAssumption
<1>3. cash \in Nat
  BY DEF BookInvariant, LedgerTypeOK, BookType
<1> QED BY <1>2, <1>3

\* Every part of the account stays in its type, the peak included: the sum over
\* the open positions is never anything but a natural number (core/data.py,
\* get_total_value and record_value).
THEOREM PortfolioTyped == Spec => []TypeOK
<1>1. Init => peakValue \in Nat /\ (saved.exists => saved.peakValue \in Nat)
  BY PortfolioAssumption DEF Init, NoFile
<1>2. ASSUME PeakInvariant, [Next]_pvars
      PROVE  peakValue' \in Nat /\ (saved'.exists => saved'.peakValue \in Nat)
  <2>1. CASE Trade
    <3>1. peakValue' = peakValue /\ SaveState
      BY <2>1 DEF Trade, Buy, Sell
    <3> QED BY <1>2, <3>1 DEF SaveState, PeakInvariant
  <2>2. CASE \/ \E s \in Symbols : MarkTakeProfit(s)
             \/ \E prices \in PriceTables : UpdateWatermarks(prices) \/ CheckDeath(prices)
             \/ UNCHANGED pvars
    BY <1>2, <2>2 DEF MarkTakeProfit, UpdateWatermarks, CheckDeath, pvars, PeakInvariant
  <2>3. ASSUME NEW prices \in PriceTables, RecordValue(prices)
        PROVE  peakValue' \in Nat /\ (saved'.exists => saved'.peakValue \in Nat)
    <3>1. TotalValue(prices) \in Nat
      BY <1>2, AccountValue DEF PeakInvariant
    <3> QED BY <1>2, <2>3, <3>1 DEF RecordValue, PeakInvariant
  <2>4. CASE Restart
    BY <1>2, <2>4, PortfolioAssumption DEF Restart, LoadedBook, FreshBook, PeakInvariant
  <2> QED BY <1>2, <2>1, <2>2, <2>3, <2>4 DEF Next
<1> DEFINE Peak == peakValue \in Nat /\ (saved.exists => saved.peakValue \in Nat)
<1>3. PeakInvariant <=> BookInvariant /\ Peak
  BY DEF PeakInvariant
<1>4. BookInvariant /\ Peak /\ [Next]_pvars => Peak'
  BY <1>2, <1>3
<1>5. Init => Peak
  BY <1>1
<1>6. BookInvariant /\ Peak => TypeOK
  BY DEF BookInvariant, TypeOK
<1> HIDE DEF Peak
<1> QED BY <1>4, <1>5, <1>6, BookInvariantHolds, PTL DEF Spec

-----------------------------------------------------------------------------
(* What an order does to the value of the account. *)

\* A part and the rest, each rounded down, are together at most the whole, and
\* at least the whole less one.
LEMMA DivOfSum ==
  ASSUME NEW x \in Nat, NEW y \in Nat, NEW b \in Nat \ {0}
  PROVE  /\ x \div b + y \div b <= (x + y) \div b
         /\ (x + y) \div b <= x \div b + y \div b + 1
<1>1. PICK p \in Nat : p = x \div b /\ p * b <= x /\ x < (p + 1) * b
  BY DivBound
<1>2. PICK q \in Nat : q = y \div b /\ q * b <= y /\ y < (q + 1) * b
  BY DivBound
<1>3. /\ (p + q) * b = p * b + q * b
      /\ (p + q + 2) * b = (p + 1) * b + (q + 1) * b
      /\ p * b \in Nat /\ q * b \in Nat /\ (p + 1) * b \in Nat /\ (q + 1) * b \in Nat
  BY <1>1, <1>2, SMT
<1>4. (p + q) * b <= x + y /\ x + y < (p + q + 2) * b
  BY <1>1, <1>2, <1>3, SMT
<1>5. p + q <= (x + y) \div b
  BY <1>1, <1>2, <1>4, DivAtLeast
<1>6. (x + y) \div b <= p + q + 1
  <2>1. PICK r \in Nat : r = (x + y) \div b /\ r * b <= x + y
    BY DivBound
  <2>2. r * b < (p + q + 2) * b /\ r * b \in Nat /\ (p + q + 2) * b \in Nat
    BY <1>1, <1>2, <1>4, <2>1, SMT
  <2>3. CASE r >= p + q + 2
    <3>1. PICK d \in Nat : r = p + q + 2 + d
      BY <1>1, <1>2, <2>1, <2>3, SMT
    <3>2. r * b = (p + q + 2) * b + d * b /\ d * b \in Nat
      BY <1>1, <1>2, <3>1, SMT
    <3> QED BY <2>2, <3>2, SMT
  <2>4. CASE ~(r >= p + q + 2)
    BY <1>1, <1>2, <2>1, <2>4, SMT
  <2> QED BY <2>3, <2>4
<1> QED BY <1>1, <1>2, <1>5, <1>6

\* Slippage is paid on both sides of a trade.
LEMMA SlippageIsPaid ==
  ASSUME NEW px \in Nat \ {0}
  PROVE  SellPx(px) <= px /\ px <= BuyPx(px)
<1>1. SlippagePM \in Nat /\ SlippagePM <= 999
  BY PortfolioAssumption, SMT
<1>2. /\ px * (1000 - SlippagePM) \in Nat /\ px * (1000 - SlippagePM) <= px * 1000
      /\ px * (1000 + SlippagePM) \in Nat /\ px * 1000 <= px * (1000 + SlippagePM)
  BY <1>1, SMT
<1>3. SellPx(px) <= px
  BY <1>2, DivAtMost DEF SellPx
<1>4. px <= BuyPx(px)
  BY <1>2, DivAtLeast DEF BuyPx
<1> QED BY <1>3, <1>4

\* What an order of `spend` buys is worth at most `spend` at the quoted price.
LEMMA BoughtWorth ==
  ASSUME NEW spend \in Nat \ {0}, NEW px \in Fills
  PROVE  (SharesFor(spend, px) * px) \div ShareScale <= spend
<1>1. px \in Nat \ {0} /\ ShareScale \in Nat \ {0}
  BY PortfolioAssumption, ShareScaleAssumption
<1>2. PICK b \in Nat \ {0} : b = BuyPx(px) /\ px <= b
  BY <1>1, FillPricePositive, SlippageIsPaid
<1>3. spend * ShareScale \in Nat
  BY <1>1, SMT
<1>4. PICK n \in Nat : n = SharesFor(spend, px) /\ n * b <= spend * ShareScale
  BY <1>2, <1>3, DivBound DEF SharesFor
<1>5. n * px <= n * b /\ n * px \in Nat /\ n * b \in Nat
  BY <1>1, <1>2, <1>4, SMT
<1>6. n * px <= spend * ShareScale
  BY <1>3, <1>4, <1>5, SMT
<1> QED BY <1>1, <1>4, <1>5, <1>6, DivAtMost

\* A BUY pays at least what it adds to the position.
LEMMA BuyCreatesNoValue ==
  ASSUME BookInvariant, NEW s \in Symbols, NEW amount \in Amounts, NEW px \in Fills,
         NEW day \in Days, Buy(s, amount, px, day)
  PROVE  cash' + Worth(positions'[s].shares, px) <= cash + Worth(positions[s].shares, px) + 1
<1>1. amount \in Nat /\ px \in Nat \ {0} /\ ShareScale \in Nat \ {0} /\ cash \in Nat
      /\ positions \in [Symbols -> Position]
  BY PortfolioAssumption, ShareScaleAssumption DEF BookInvariant, LedgerTypeOK, BookType
<1>2. PICK spend \in Nat \ {0} : spend = Spend(amount)
  BY <1>1, SpendCovered DEF Buy, CanBuy
<1>3. PICK c \in Nat : c = Commission(spend)
  BY <1>2, CommissionBound
<1>4. PICK n \in Nat : n = SharesFor(spend, px)
  BY <1>2, SharesBought
<1>5. PICK old \in Nat : old = positions[s].shares
  BY <1>1 DEF Position
<1>6. cash' = cash - (spend + c)
  BY <1>2, <1>3 DEF Buy
<1>7. positions'[s].shares = old + n
  <2>1. CASE s \in Held
    BY <1>1, <1>2, <1>4, <1>5, <2>1 DEF Buy, Pyramided
  <2>2. CASE s \notin Held
    <3>1. old = 0
      BY <1>5, <2>2 DEF Held
    <3>2. positions'[s].shares = n
      BY <1>1, <1>2, <1>4, <2>2 DEF Buy, Opened
    <3> QED BY <1>4, <3>1, <3>2
  <2> QED BY <2>1, <2>2
<1>8. old * px \in Nat /\ n * px \in Nat /\ (old + n) * px = old * px + n * px
  BY <1>1, <1>4, <1>5, SMT
<1>9. PICK a \in Nat : a = (old * px) \div ShareScale
  BY <1>1, <1>8, DivBound
<1>10. PICK b \in Nat : b = (n * px) \div ShareScale
  BY <1>1, <1>8, DivBound
<1>11. PICK e \in Nat : e = (old * px + n * px) \div ShareScale
  <2>1. PICK x \in Nat : x = old * px + n * px
    BY <1>8
  <2> QED BY <1>1, <2>1, DivBound
<1>12. e <= a + b + 1
  BY <1>1, <1>8, <1>9, <1>10, <1>11, DivOfSum
<1>13. b <= spend
  BY <1>2, <1>4, <1>10, BoughtWorth
<1>14. Worth(positions'[s].shares, px) = e /\ Worth(positions[s].shares, px) = a
  BY <1>5, <1>7, <1>8, <1>9, <1>11 DEF Worth
<1>15. cash - (spend + c) + e <= cash + a + 1
  BY <1>1, <1>2, <1>3, <1>9, <1>10, <1>11, <1>12, <1>13
<1> QED BY <1>6, <1>14, <1>15

\* A SELL credits at most what it takes from the position.
LEMMA SellCreatesNoValue ==
  ASSUME BookInvariant, NEW s \in Symbols, NEW pct \in SellPcts, NEW px \in Fills,
         Sell(s, pct, px)
  PROVE  cash' + Worth(positions'[s].shares, px) <= cash + Worth(positions[s].shares, px) + 1
<1>1. px \in Nat \ {0} /\ ShareScale \in Nat \ {0} /\ cash \in Nat
      /\ positions \in [Symbols -> Position] /\ pct \in Nat /\ pct <= 100
  BY PortfolioAssumption, ShareScaleAssumption
     DEF BookInvariant, LedgerTypeOK, BookType, Sell, CanSell
<1>2. PICK old \in Nat : old = positions[s].shares
  BY <1>1 DEF Position
<1>3. PICK n \in Nat : n = SharesSold(s, pct) /\ n <= old
  BY <1>1, <1>2, SharesLeft DEF SharesSold
<1>4. PICK spx \in Nat : spx = SellPx(px) /\ spx <= px
  BY <1>1, FillPricePositive, SlippageIsPaid
<1>5. n * spx \in Nat /\ n * spx <= n * px /\ n * px \in Nat
  BY <1>1, <1>3, <1>4, SMT
<1>6. PICK got \in Nat : got = (n * spx) \div ShareScale
  BY <1>1, <1>5, DivBound
<1>7. got = Proceeds(s, pct, px)
  BY <1>3, <1>4, <1>6 DEF Proceeds, Worth
<1>8. PICK c \in Nat : c = Commission(got)
  BY <1>6, CommissionBound
<1>9. cash' = cash + (got - c)
  BY <1>7, <1>8 DEF Sell
<1>10. PICK left \in Nat : left = positions'[s].shares /\ left + n <= old
  <2>1. CASE pct >= 100
    <3>1. pct = 100
      BY <1>1, <2>1
    <3>2. positions'[s].shares = 0
      BY <1>1, <2>1 DEF Sell, NoPosition
    <3> QED BY <1>2, <1>3, <3>2
  <2>2. CASE ~(pct >= 100)
    <3>1. positions'[s].shares = old - n
      BY <1>1, <1>2, <1>3, <2>2 DEF Sell
    <3> QED BY <1>2, <1>3, <3>1
  <2> QED BY <2>1, <2>2
<1>11. PICK b \in Nat : b = (n * px) \div ShareScale
  BY <1>1, <1>5, DivBound
<1>12. got <= b
  <2>1. got * ShareScale <= n * spx /\ n * px < (b + 1) * ShareScale
    BY <1>1, <1>5, <1>6, <1>11, DivBound
  <2>2. got * ShareScale \in Nat /\ got * ShareScale <= n * px
    BY <1>1, <1>5, <1>6, <2>1, SMT
  <2> QED BY <1>1, <1>5, <1>6, <1>11, <2>2, DivAtLeast
<1>13. /\ left * px \in Nat /\ old * px \in Nat
       /\ left * px + n * px <= old * px
  <2>1. PICK d \in Nat : old = left + n + d
    <3>1. old - (left + n) \in Nat /\ old = left + n + (old - (left + n))
      BY <1>2, <1>3, <1>10
    <3> QED BY <3>1
  <2>2. old * px = left * px + n * px + d * px /\ d * px \in Nat /\ left * px \in Nat
    BY <1>1, <1>3, <1>10, <2>1, SMT
  <2> QED BY <1>5, <2>2, SMT
<1>14. PICK a \in Nat : a = (left * px) \div ShareScale
  BY <1>1, <1>13, DivBound
<1>15. PICK e \in Nat : e = (old * px) \div ShareScale
  BY <1>1, <1>13, DivBound
<1>16. a + b <= e
  <2>1. PICK m \in Nat : m = (left * px + n * px) \div ShareScale
    <3>1. PICK x \in Nat : x = left * px + n * px
      BY <1>5, <1>13
    <3> QED BY <1>1, <3>1, DivBound
  <2>2. a + b <= m
    BY <1>1, <1>5, <1>11, <1>13, <1>14, <2>1, DivOfSum
  <2>3. m * ShareScale <= left * px + n * px /\ m * ShareScale \in Nat
    BY <1>1, <1>5, <1>13, <2>1, DivBound, SMT
  <2>4. m * ShareScale <= old * px
    BY <1>5, <1>13, <2>3, SMT
  <2>5. m <= e
    BY <1>1, <1>13, <1>15, <2>1, <2>4, DivAtLeast
  <2> QED BY <1>11, <1>14, <1>15, <2>1, <2>2, <2>5
<1>17. Worth(positions'[s].shares, px) = a /\ Worth(positions[s].shares, px) = e
  BY <1>2, <1>10, <1>14, <1>15 DEF Worth
<1>18. cash + (got - c) + a <= cash + e + 1
  BY <1>1, <1>6, <1>8, <1>11, <1>12, <1>14, <1>15, <1>16
<1> QED BY <1>9, <1>17, <1>18

\* No order makes money by itself (core/data.py, buy and sell): slippage and
\* commission are always paid by the account, for every order, every price and
\* every rate.
THEOREM NoOrderCreatesValue == Spec => TradesNeverCreateValue
<1> DEFINE NoGain ==
      \A s \in Symbols : positions'[s].shares # positions[s].shares =>
        \A px \in Fills :
          (\/ \E a \in Amounts, d \in Days : Buy(s, a, px, d)
           \/ \E pct \in SellPcts : Sell(s, pct, px))
          => cash' + Worth(positions'[s].shares, px)
               <= cash + Worth(positions[s].shares, px) + 1
<1>1. BookInvariant => [NoGain]_pvars
  BY BuyCreatesNoValue, SellCreatesNoValue
<1> HIDE DEF NoGain
<1>2. Spec => [][NoGain]_pvars
  BY <1>1, BookInvariantHolds, PTL
<1> QED BY <1>2 DEF TradesNeverCreateValue, NoGain

-----------------------------------------------------------------------------
(* The recorded book.  The trade history grows with the orders, is cut by   *)
(* the saves and comes back, shortened, at a restart.  What the daily       *)
(* report has done so far is known from the history alone: a sale of today  *)
(* that this process has reported is one of a date that is set.             *)

TradeRecords ==
  [action : {"BUY", "SELL"}, symbol : Symbols, shares : Nat, price : Nat, time : Nat,
   date : Nat, basis : Nat, opened : Nat]

Clocked == clock \in 0..MaxTrades

HistoryTyped ==
  /\ history \in Seq(TradeRecords) /\ savedHistory \in Seq(TradeRecords)
  /\ date \in Nat /\ reboots \in Nat /\ lastPostmortem \in Nat \cup {Never}
  /\ DOMAIN rows = 0..(MaxTrades - 1)
  /\ rows = [i \in DOMAIN rows |-> rows[i]]
  /\ \A i \in DOMAIN rows : rows[i].times \in Nat

\* A trade in the history or its copy has been made, and once this process has
\* reported it, its date is past or done.
ReportDated(t) ==
  /\ t.time < clock /\ t.date <= date
  /\ t.date = date /\ rows[t.time].times > reboots => lastPostmortem = date

ReportInvariant ==
  /\ HistoryTyped
  /\ ReportedOncePerStart
  /\ \A t \in Range(history) \cup Range(savedHistory) : ReportDated(t)
  /\ \A i \in DOMAIN rows : i >= clock => rows[i].times = 0

\* The clock is the number of orders.
LEMMA ClockTicks == Clocked /\ [PostmortemNext]_postvars => Clocked'
<1>1. MaxTrades \in Nat
  BY PostmortemAssumption
<1> QED BY <1>1 DEF Clocked, PostmortemNext, Trades, BuyRecorded, SellRecorded, RecordTrade, Marked,
                Quoted, DailyPostmortem, HourPasses, Rebooted, postvars, hvars

\* A step of the recorded book is a step of the book, or leaves it alone.
LEMMA RecordedStepImplements ==
  ASSUME Clocked, [PostmortemNext]_postvars
  PROVE  [Next]_pvars
<1>1. ASSUME NEW s \in Symbols, NEW px \in Fills, NEW a \in Amounts, BuyRecorded(s, a, px)
      PROVE  Trade
  <2>1. clock \in Days
    BY PostmortemAssumption DEF Clocked
  <2> QED BY <1>1, <2>1 DEF BuyRecorded, Trade
<1>2. ASSUME NEW s \in Symbols, NEW px \in Fills, NEW pct \in SellPcts, SellRecorded(s, pct, px)
      PROVE  Trade
  BY <1>2 DEF SellRecorded, Trade
<1>3. ASSUME NEW s \in Symbols, Marked(s) PROVE Next
  BY <1>3 DEF Marked, Next
<1>4. CASE Quoted
  BY <1>4 DEF Quoted, Next
<1>5. CASE Rebooted
  BY <1>5 DEF Rebooted, Next
<1>6. CASE DailyPostmortem \/ HourPasses \/ UNCHANGED postvars
  BY <1>6 DEF DailyPostmortem, HourPasses, postvars
<1> QED BY <1>1, <1>2, <1>3, <1>4, <1>5, <1>6 DEF PostmortemNext, Trades, Next

\* The book whose trades are recorded and reported is the book: the theorems above
\* hold of it.
THEOREM PostmortemImplementsPortfolio == PostmortemSpec => Spec
<1>1. PostmortemInit => Init /\ Clocked
  BY PostmortemAssumption DEF PostmortemInit, Clocked
<1>2. Clocked /\ [PostmortemNext]_postvars => [Next]_pvars
  BY RecordedStepImplements
<1> QED BY <1>1, <1>2, ClockTicks, PTL DEF PostmortemSpec, Spec

\* What is proved of the book for any caller, of the one whose trades are reported:
\* typed and consistent through every restart, and no order of it creates value.
THEOREM RecordedBookConsistent == PostmortemSpec => [](TypeOK /\ BookConsistent)
BY PostmortemImplementsPortfolio, PortfolioTyped, BookAlwaysConsistent, PTL

\* The action properties of the book, of the recorded book.
THEOREM RecordedTradesCreateNoValue ==
  PostmortemSpec => TradesNeverCreateValue /\ AverageBetweenFills /\ WatermarkNeverLowered
BY PostmortemImplementsPortfolio, NoOrderCreatesValue, AverageStaysBetweenFills,
   WatermarksOnlyRise, PTL

\* A rounded share count is a number.
LEMMA RoundedIsNatural == ASSUME NEW n \in Nat PROVE Rounded(n) \in Nat
<1>1. RoundTo \in Nat \ {0}
  BY PostmortemAssumption
<1>2. RoundTo \div 2 \in Nat
  BY <1>1, DivBound
<1>3. n + RoundTo \div 2 \in Nat
  BY <1>2
<1>4. (n + RoundTo \div 2) \div RoundTo \in Nat
  BY <1>1, <1>3, DivBound
<1> QED BY <1>1, <1>4 DEF Rounded

\* The record of an order.
LEMMA EntryTyped ==
  ASSUME BookInvariant, Clocked, date \in Nat, NEW action \in {"BUY", "SELL"},
         NEW s \in Symbols, NEW n \in Nat, NEW px \in Fills
  PROVE  /\ Entry(action, s, n, px) \in TradeRecords
         /\ Entry(action, s, n, px).time = clock /\ Entry(action, s, n, px).date = date
<1>1. positions[s].avgPrice \in Nat /\ positions[s].openedAt \in Nat
  BY InvariantSplit DEF BookType, Position
<1>2. px \in Nat /\ Rounded(n) \in Nat /\ clock \in Nat
  BY PortfolioAssumption, RoundedIsNatural DEF Clocked
<1> QED BY <1>1, <1>2 DEF Entry, TradeRecords

\* A longer history has one more trade, a cut one no other.
LEMMA AppendedTrades ==
  ASSUME NEW seq \in Seq(TradeRecords), NEW t \in TradeRecords
  PROVE  Append(seq, t) \in Seq(TradeRecords) /\ Range(Append(seq, t)) = Range(seq) \cup {t}
<1>1. /\ Append(seq, t) \in Seq(TradeRecords) /\ Len(Append(seq, t)) = Len(seq) + 1
      /\ Append(seq, t)[Len(seq) + 1] = t
      /\ \A k \in 1..Len(seq) : Append(seq, t)[k] = seq[k]
      /\ Len(seq) \in Nat
  BY AppendProperties
<1>2. DOMAIN Append(seq, t) = 1..(Len(seq) + 1) /\ DOMAIN seq = 1..Len(seq)
  BY <1>1
<1> QED BY <1>1, <1>2 DEF Range

\* A history cut to its length holds no trade that was not in it.
LEMMA CutTrades ==
  ASSUME NEW seq \in Seq(TradeRecords)
  PROVE  Cut(seq) \in Seq(TradeRecords) /\ Range(Cut(seq)) \subseteq Range(seq)
<1> DEFINE m == IF Len(seq) > MaxHistory THEN Len(seq) - MaxHistory + 1 ELSE 1
<1>1. Len(seq) \in Nat /\ MaxHistory \in Nat \ {0} /\ DOMAIN seq = 1..Len(seq)
  BY PostmortemAssumption
<1>2. m \in Int /\ 1 <= m /\ Cut(seq) = SubSeq(seq, m, Len(seq))
  BY <1>1 DEF Cut
<1> HIDE DEF m
<1>3. \A k \in m..Len(seq) : seq[k] \in TradeRecords
  BY <1>1, <1>2
<1>4. /\ Cut(seq) \in Seq(TradeRecords)
      /\ Len(Cut(seq)) = IF m <= Len(seq) THEN Len(seq) - m + 1 ELSE 0
      /\ \A k \in 1..(Len(seq) - m + 1) : Cut(seq)[k] = seq[m + k - 1]
  BY <1>1, <1>2, <1>3, SubSeqProperties
<1>5. ASSUME NEW k \in DOMAIN Cut(seq) PROVE Cut(seq)[k] \in Range(seq)
  <2>1. k \in 1..(Len(seq) - m + 1)
    BY <1>1, <1>2, <1>4
  <2>2. m + k - 1 \in DOMAIN seq /\ Cut(seq)[k] = seq[m + k - 1]
    BY <1>1, <1>2, <1>4, <2>1
  <2> QED BY <2>2 DEF Range
<1> QED BY <1>4, <1>5 DEF Range

\* An order: its row is still blank.
LEMMA TradeKeepsReports ==
  ASSUME ReportInvariant, Clocked, NEW t \in TradeRecords, t.time = clock, t.date = date,
         RecordTrade(t)
  PROVE  ReportInvariant'
<1>1. /\ clock < MaxTrades /\ clock' = clock + 1 /\ history' = Append(history, t)
      /\ savedHistory' = Cut(history') \/ savedHistory' = savedHistory
      /\ UNCHANGED <<date, hour, lastPostmortem, reboots, rows>>
  BY DEF RecordTrade
<1>2. /\ history \in Seq(TradeRecords) /\ savedHistory \in Seq(TradeRecords)
      /\ clock \in Nat /\ MaxTrades \in Nat /\ clock \in DOMAIN rows /\ reboots \in Nat
      /\ date \in Nat
  BY <1>1, PostmortemAssumption DEF ReportInvariant, HistoryTyped, Clocked
<1>3. /\ history' \in Seq(TradeRecords) /\ Range(history') = Range(history) \cup {t}
  BY <1>1, <1>2, AppendedTrades
<1>4. /\ savedHistory' \in Seq(TradeRecords)
      /\ Range(savedHistory') \subseteq Range(history') \cup Range(savedHistory)
  BY <1>1, <1>2, <1>3, CutTrades
<1>5. rows[clock].times = 0
  BY <1>2 DEF ReportInvariant
<1>6. ASSUME NEW u \in Range(history') \cup Range(savedHistory') PROVE ReportDated(u)'
  <2>1. CASE u = t
    BY <1>1, <1>2, <1>5, <2>1 DEF ReportDated
  <2>2. CASE u \in Range(history) \cup Range(savedHistory)
    <3>1. u \in TradeRecords
      BY <1>2, <2>2 DEF Range
    <3>2. ReportDated(u) /\ u.time \in Nat
      BY <2>2, <3>1 DEF ReportInvariant, TradeRecords
    <3> QED BY <1>1, <1>2, <3>2 DEF ReportDated
  <2> QED BY <1>3, <1>4, <2>1, <2>2
<1>7. \A i \in DOMAIN rows : i >= clock' => rows[i].times = 0
  BY <1>1, <1>2 DEF ReportInvariant, HistoryTyped
<1>8. HistoryTyped'
  BY <1>1, <1>3, <1>4 DEF ReportInvariant, HistoryTyped
<1>9. ReportedOncePerStart'
  BY <1>1 DEF ReportInvariant, ReportedOncePerStart
<1> QED BY <1>1, <1>6, <1>7, <1>8, <1>9 DEF ReportInvariant

\* The daily report: no sale of today has been reported by this process before.
LEMMA ReportKeepsReports ==
  ASSUME ReportInvariant, Clocked, DailyPostmortem
  PROVE  ReportInvariant'
<1>1. /\ lastPostmortem # date /\ lastPostmortem' = date
      /\ UNCHANGED <<history, savedHistory, clock, date, reboots>>
  BY DEF DailyPostmortem, DateInAnyCase
<1>2. PICK end \in 0..MaxTrades :
        rows' = [i \in DOMAIN rows |->
                   IF \E t \in {u \in SalesToday : u.time < end} : t.time = i
                   THEN Reported(CHOOSE t \in {u \in SalesToday : u.time < end} : t.time = i)
                   ELSE rows[i]]
  BY DEF DailyPostmortem
<1> DEFINE done == {u \in SalesToday : u.time < end}
<1>3. /\ HistoryTyped /\ reboots \in Nat /\ date \in Nat /\ DOMAIN rows = 0..(MaxTrades - 1)
      /\ clock \in Nat /\ MaxTrades \in Nat
  BY PostmortemAssumption DEF ReportInvariant, HistoryTyped, Clocked
<1>4. rows' = [i \in DOMAIN rows |-> rows'[i]] /\ DOMAIN rows' = DOMAIN rows
  BY <1>2
<1>5. ASSUME NEW i \in DOMAIN rows, ~\E t \in done : t.time = i PROVE rows'[i] = rows[i]
  BY <1>2, <1>5
<1>6. ASSUME NEW i \in DOMAIN rows, \E t \in done : t.time = i
      PROVE  /\ rows[i].times <= reboots /\ i < clock
             /\ rows'[i].times \in {rows[i].times, rows[i].times + 1}
  <2> DEFINE t == CHOOSE t \in done : t.time = i
  <2>1. t \in done /\ t.time = i
    BY <1>6
  <2>2. rows'[i] = Reported(t)
    BY <1>2, <1>6
  <2> HIDE DEF t
  <2>3. t \in Range(history) /\ t.date = date
    BY <2>1 DEF SalesToday
  <2>4. ReportDated(t)
    BY <2>3 DEF ReportInvariant
  <2>5. i < clock /\ ~(rows[i].times > reboots)
    BY <1>1, <2>1, <2>3, <2>4 DEF ReportDated
  <2>6. rows[i].times <= reboots
    BY <1>3, <2>5 DEF HistoryTyped
  <2>7. rows'[i].times \in {rows[i].times, rows[i].times + 1}
    BY <2>1, <2>2 DEF Reported
  <2> QED BY <2>5, <2>6, <2>7
<1> HIDE DEF done
<1>7. ASSUME NEW i \in DOMAIN rows
      PROVE  /\ rows'[i].times \in Nat /\ rows'[i].times <= 1 + reboots
             /\ i >= clock => rows'[i].times = 0
  <2>1. rows[i].times \in Nat /\ rows[i].times <= 1 + reboots
    BY <1>3 DEF HistoryTyped, ReportInvariant, ReportedOncePerStart
  <2>2. CASE \E t \in done : t.time = i
    <3>1. i \in Int
      BY <1>3
    <3> QED BY <1>3, <1>6, <2>1, <2>2, <3>1
  <2>3. CASE ~\E t \in done : t.time = i
    BY <1>5, <2>1, <2>3 DEF ReportInvariant
  <2> QED BY <2>2, <2>3
<1>8. HistoryTyped'
  BY <1>1, <1>3, <1>4, <1>7 DEF HistoryTyped
<1>9. ReportedOncePerStart'
  BY <1>1, <1>4, <1>7 DEF ReportedOncePerStart
<1>10. \A t \in Range(history) \cup Range(savedHistory) : ReportDated(t)'
  BY <1>1 DEF ReportInvariant, ReportDated
<1> QED BY <1>1, <1>4, <1>7, <1>8, <1>9, <1>10 DEF ReportInvariant

\* A restart has reported nothing yet, and its history is the saved one.
LEMMA RebootKeepsReports ==
  ASSUME ReportInvariant, Clocked, Rebooted
  PROVE  ReportInvariant'
<1>1. /\ reboots' = reboots + 1 /\ history' = savedHistory /\ lastPostmortem' = Never
      /\ UNCHANGED <<savedHistory, clock, date, rows>>
  BY DEF Rebooted
<1>2. HistoryTyped /\ ReportedOncePerStart /\ reboots \in Nat
  BY DEF ReportInvariant, HistoryTyped
<1>3. ASSUME NEW i \in DOMAIN rows PROVE rows[i].times \in Nat /\ rows[i].times <= 1 + reboots
  BY <1>2 DEF HistoryTyped, ReportedOncePerStart
<1>4. HistoryTyped'
  BY <1>1, <1>2 DEF HistoryTyped
<1>5. ReportedOncePerStart'
  BY <1>1, <1>2, <1>3 DEF ReportedOncePerStart
<1>6. ASSUME NEW t \in Range(savedHistory) PROVE ReportDated(t)'
  <2>1. t \in TradeRecords /\ ReportDated(t)
    BY <1>2 DEF HistoryTyped, ReportInvariant, Range
  <2>2. t.time < clock /\ t.date <= date
    BY <2>1 DEF ReportDated
  <2>3. t.time \in DOMAIN rows
    BY <1>2, <2>1, <2>2, PostmortemAssumption DEF HistoryTyped, Clocked, TradeRecords
  <2>4. ~(rows[t.time].times > reboots + 1)
    BY <1>2, <1>3, <2>3
  <2> QED BY <1>1, <2>2, <2>4 DEF ReportDated
<1> QED BY <1>1, <1>4, <1>5, <1>6 DEF ReportInvariant

\* Every step keeps what is known of the reports.
LEMMA StepKeepsReports ==
  ASSUME ReportInvariant, BookInvariant, Clocked, [PostmortemNext]_postvars
  PROVE  ReportInvariant'
<1>1. ASSUME NEW s \in Symbols, NEW px \in Fills, NEW a \in Amounts, BuyRecorded(s, a, px)
      PROVE  ReportInvariant'
  <2>0. cash \in Nat /\ a \in Nat
    BY InvariantSplit, PortfolioAssumption DEF BookType
  <2>1. Spend(a) \in Nat \ {0}
    BY <1>1, <2>0, SpendCovered DEF BuyRecorded, Buy, CanBuy
  <2>2. SharesFor(Spend(a), px) \in Nat
    BY <2>1, SharesBought
  <2> QED BY <1>1, <2>2, EntryTyped, TradeKeepsReports DEF BuyRecorded, ReportInvariant, HistoryTyped
<1>2. ASSUME NEW s \in Symbols, NEW px \in Fills, NEW pct \in SellPcts, SellRecorded(s, pct, px)
      PROVE  ReportInvariant'
  <2>1. positions[s].shares \in Nat /\ pct \in Nat /\ pct <= 100
    BY <1>2, InvariantSplit, PortfolioAssumption DEF BookType, Position, SellRecorded, Sell, CanSell
  <2>2. SharesSold(s, pct) \in Nat
    BY <2>1, SharesLeft DEF SharesSold
  <2> QED BY <1>2, <2>2, EntryTyped, TradeKeepsReports DEF SellRecorded, ReportInvariant, HistoryTyped
<1>3. CASE DailyPostmortem
  BY <1>3, ReportKeepsReports
<1>4. CASE Rebooted
  BY <1>4, RebootKeepsReports
<1>5. CASE HourPasses
  <2>1. /\ date' \in {date, date + 1} /\ date \in Nat
        /\ history \in Seq(TradeRecords) /\ savedHistory \in Seq(TradeRecords)
        /\ UNCHANGED <<history, savedHistory, clock, lastPostmortem, reboots, rows>>
    BY <1>5 DEF HourPasses, ReportInvariant, HistoryTyped
  <2>2. ASSUME NEW t \in Range(history) \cup Range(savedHistory) PROVE ReportDated(t)'
    <3>1. t \in TradeRecords /\ ReportDated(t)
      BY <2>1 DEF ReportInvariant, Range
    <3>2. t.date \in Nat
      BY <3>1 DEF TradeRecords
    <3> QED BY <2>1, <3>1, <3>2 DEF ReportDated
  <2>3. HistoryTyped'
    BY <2>1 DEF ReportInvariant, HistoryTyped
  <2> QED BY <2>1, <2>2, <2>3 DEF ReportInvariant, ReportedOncePerStart
<1>6. CASE \/ \E s \in Symbols : Marked(s)
           \/ Quoted
           \/ UNCHANGED postvars
  <2>1. UNCHANGED hvars
    BY <1>6 DEF Marked, Quoted, postvars
  <2> QED BY <2>1 DEF hvars, ReportInvariant, HistoryTyped, ReportedOncePerStart, ReportDated
<1> QED BY <1>1, <1>2, <1>3, <1>4, <1>5, <1>6 DEF PostmortemNext, Trades

\* Nothing is traded or reported at first.
LEMMA NothingReported == PostmortemInit => ReportInvariant
<1> SUFFICES ASSUME PostmortemInit PROVE ReportInvariant
  OBVIOUS
<1>1. /\ history = <<>> /\ savedHistory = <<>> /\ clock = 0 /\ date = 0 /\ reboots = 0
      /\ lastPostmortem = Never /\ rows = [i \in 0..(MaxTrades - 1) |-> Unreported]
  BY DEF PostmortemInit
<1>2. Unreported.times = 0
  BY DEF Unreported
<1>3. Range(history) = {} /\ Range(savedHistory) = {}
  BY <1>1 DEF Range
<1>4. HistoryTyped
  BY <1>1, <1>2 DEF HistoryTyped
<1> QED BY <1>1, <1>2, <1>3, <1>4 DEF ReportInvariant, ReportedOncePerStart

\* The daily report writes a sale at most once in one process, even after a report
\* that failed half-way: the date is set in any case (runtime/controller.py).
THEOREM SalesReportedOnce == PostmortemSpec => []ReportedOncePerStart
<1>1. PostmortemInit => Clocked
  BY PostmortemAssumption DEF PostmortemInit, Clocked
<1>2. PostmortemSpec => []BookInvariant
  BY PostmortemImplementsPortfolio, BookInvariantHolds, PTL
<1>3. ReportInvariant /\ BookInvariant /\ Clocked /\ [PostmortemNext]_postvars => ReportInvariant'
  BY StepKeepsReports
<1>4. ReportInvariant => ReportedOncePerStart
  BY DEF ReportInvariant
<1> QED BY <1>1, <1>2, <1>3, <1>4, ClockTicks, NothingReported, PTL DEF PostmortemSpec

=============================================================================
