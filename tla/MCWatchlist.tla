----------------------------- MODULE MCWatchlist -----------------------------
(***************************************************************************)
(* Modes and Watchlist together.  The threads of a route are               *)
(* interchangeable, and so are the symbols outside the defaults.           *)
(***************************************************************************)
EXTENDS Watchlist, TLC

ThreadSymmetry ==
  Permutations(Requests) \cup Permutations(Clients) \cup Permutations(Symbols \ Defaults)

\* At most three of the four threads serve a request at once.
ThreeAtOnce == Cardinality(Active) + Cardinality(Busy \ {Lifespan}) <= 3
=============================================================================
