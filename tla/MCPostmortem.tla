----------------------------- MODULE MCPostmortem -----------------------------
(***************************************************************************)
(* The Portfolio and its reports under an arbitrary caller.  One symbol,   *)
(* so that a few orders make two pyramided positions in a row.  The        *)
(* methods that only look at quotes, and the saves that fail, are bounded  *)
(* together.                                                               *)
(***************************************************************************)
EXTENDS Postmortem

CONSTANT MaxAsides  \* bound on the quotes looked at and the saves that fail

VARIABLE asides     \* those of this behaviour so far

mcvars == <<postvars, asides>>

MCInit == PostmortemInit /\ asides = 0

MCNext ==
  \/ /\ asides < MaxAsides
     /\ Quoted \/ (Trades /\ UNCHANGED saved)
     /\ asides' = asides + 1
  \/ /\ \/ Trades /\ saved' # saved
        \/ \E s \in Symbols : Marked(s)
        \/ DailyPostmortem
        \/ HourPasses
        \/ Rebooted
     /\ UNCHANGED asides

MCSpec == MCInit /\ [][MCNext]_mcvars
=============================================================================
