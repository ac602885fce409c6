------------------------------- MODULE MCFeeds -------------------------------
(***************************************************************************)
(* Every feed, asked by two threads: three failures open the circuit,      *)
(* three ticks make an entry stale, and the source has two versions, so    *)
(* that an answer can be older than the entry it replaces.                 *)
(***************************************************************************)
EXTENDS Feeds
=============================================================================
