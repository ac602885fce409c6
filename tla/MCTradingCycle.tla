--------------------------- MODULE MCTradingCycle ---------------------------
(***************************************************************************)
(* The trading cycle on interchangeable symbols, one more than             *)
(* MaxPositions.  A rise from 100 to 115 takes profit, the fall back stops *)
(* the position out, a day without a move is a time stop, and two losing   *)
(* rounds block BUYs (drawdown) or kill the portfolio.                     *)
(***************************************************************************)
EXTENDS TradingCycle, TLC

SymbolSymmetry == Permutations(Symbols)

AnyAmount == Nat
=============================================================================
