----------------------------- MODULE ModeLedgers -----------------------------
(***************************************************************************)
(* The trading cycle under mode switches: one Portfolio serves every mode, *)
(* and is saved to one state file, while the rows of its trades go to the  *)
(* file of the mode in force when each is inserted (agents/shared/db.py).  *)
(* At every start _reconcile_portfolio_state (runtime/controller.py)       *)
(* replays the rows of one file, that of SIM, which the boot has forced.   *)
(***************************************************************************)
EXTENDS TradingCycle

VARIABLES
  mode,
  rows,   \* file -> what the rows of this portfolio's life say
  drift   \* of the last start: loaded cash less implied cash, 0 without warning

ledgervars == <<vars, mode, rows, drift>>

Files == {"live", "paper", "sim"}

\* The drift that is put down to rounding.
Tolerance == 5

NoRows == [f \in Files |-> [any |-> FALSE, implied |-> InitialBalance]]

\* A step of the cycle; the row it inserts, if it does, goes to the file of the
\* mode.
Step ==
  /\ CycleNext
  /\ UNCHANGED restarts
  /\ rows' = IF ledger' = ledger THEN rows
             ELSE [rows EXCEPT ![mode] =
                     [any |-> TRUE, implied |-> @.implied + (ledger' - ledger)]]
  /\ UNCHANGED <<mode, drift>>

\* _reconcile_portfolio_state, which has nothing to say of a file without rows.
Drift == IF rows[mode'].any THEN cash' - rows[mode'].implied ELSE 0

\* The boot forces SIM, then loads the portfolio and reconciles it.
Start ==
  /\ Reboot
  /\ mode' = "sim"
  /\ rows' = IF saved.exists THEN rows ELSE NoRows
  /\ drift' = IF saved.exists THEN Drift ELSE 0

\* The portfolio is the same object, and has the same state file, in every mode.
SwitchMode ==
  /\ mode' \in Files \ {mode}
  /\ UNCHANGED <<vars, rows, drift>>

LedgersInit == CycleInit /\ mode = "sim" /\ rows = NoRows /\ drift = 0

LedgersNext == Step \/ Start \/ SwitchMode

LedgersSpec == LedgersInit /\ [][LedgersNext]_ledgervars

-----------------------------------------------------------------------------
(* Properties. *)

\* "Compare JSON-loaded state with trades.db to detect divergence after crash":
\* the start finds a drift only if some trade of the portfolio has lost its row,
\* to a process stop between the two or to a failed INSERT.
DriftMeansLostRow == drift \notin -Tolerance..Tolerance => rowLost
=============================================================================
