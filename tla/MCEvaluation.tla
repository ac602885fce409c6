----------------------------- MODULE MCEvaluation -----------------------------
(***************************************************************************)
(* Two trades, so that the files hold rows of the same id or one file two  *)
(* rows in a batch; two switches, so that the mode can leave a real mode   *)
(* and come back; one failing statement and one process stop.              *)
(***************************************************************************)
EXTENDS Evaluation

AnyMove == {-2, 0, 2}
BuyThenSell == <<"BUY", "SELL">>
=============================================================================
