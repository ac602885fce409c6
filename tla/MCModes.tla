------------------------------- MODULE MCModes -------------------------------
(***************************************************************************)
(* Interchangeable request threads, so that as many switches overlap.      *)
(***************************************************************************)
EXTENDS Modes, TLC

RequestSymmetry == Permutations(Requests)
=============================================================================
