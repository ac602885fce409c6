------------------------------ MODULE MCBacktest ------------------------------
(***************************************************************************)
(* Five bars as one history or as two folds; the lowest close stops out a  *)
(* position opened at the highest, and the middle one takes a gain over    *)
(* the lowest that its costs turn into a loss.                             *)
(***************************************************************************)
EXTENDS Backtest

NotANumber == -1
OrderSizes == 0..900
=============================================================================
