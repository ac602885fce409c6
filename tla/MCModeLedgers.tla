---------------------------- MODULE MCModeLedgers ----------------------------
(***************************************************************************)
(* Two cycles on one symbol, mode switches anywhere, one restart, and no   *)
(* INSERT that fails.                                                      *)
(***************************************************************************)
EXTENDS ModeLedgers

AnyAmount == Nat
=============================================================================
