------------------------------ MODULE Evaluation ------------------------------
(***************************************************************************)
(* The deferred evaluation of trades.  The agent thread records votes, the *)
(* trade and a pending_evaluations row (agents/multi.py, nodes.py); once a *)
(* row is due the postmortem thread compares prices and writes was_correct *)
(* into the votes (evaluate_pending_trades, agents/shared/eval.py).  Both  *)
(* go through one SQLite file per mode (agents/shared/db.py), the mode may *)
(* be switched between any two of their statements, and a statement may    *)
(* fail after its retries.                                                 *)
(***************************************************************************)
EXTENDS Integers, Sequences

CONSTANTS
  TradeActions,    \* the trades of one behaviour: BUY or SELL, one after another
  MaxEvalRetries,  \* _MAX_EVAL_RETRIES
  Significance,    \* EVAL_SIGNIFICANCE_PCT, in the unit of Moves
  Moves,           \* price changes since the entry
  MaxSwitches,     \* bound on mode switches
  MaxFaults,       \* bound on failing SQLite statements
  MaxCrashes       \* bound on process stops

ASSUME EvaluationAssumption ==
  /\ TradeActions \in Seq({"BUY", "SELL"}) /\ MaxEvalRetries \in Nat \ {0}
  /\ Significance \in Nat /\ Moves \subseteq Int
  /\ MaxSwitches \in Nat /\ MaxFaults \in Nat /\ MaxCrashes \in Nat

VARIABLES
  mode,      \* the runtime mode, which selects the SQLite file
  rows,      \* file -> its pending_evaluations, the id being the index
  votes,     \* file -> trade -> was_correct of the votes that agreed with it
  saving,    \* the agent thread: what it has written of the current trade
  trade,     \* the current trade
  at,        \* the evaluator: its next statement
  dbPath,    \* the file it writes to ("sim" when it is not running)
  todo,      \* the rows it has selected and not finished
  verdict,   \* was_correct of the first of them
  switches, faults, crashes,
  \* History, read by the properties only.
  source,    \* the file todo was selected from
  split,     \* some selection read another file than dbPath
  decision   \* <<file, id>> -> what was last decided of that row

evars == <<mode, rows, votes, saving, trade, at, dbPath, todo, verdict, switches,
           faults, crashes, source, split, decision>>

Files == {"live", "paper", "sim"}
Trades == DOMAIN TradeActions
Verdicts == {"right", "wrong", "inconclusive"}

Agent == <<votes, saving, trade>>
Limits == <<mode, switches, crashes>>
Past == <<source, split, decision>>

\* A statement that fails changes nothing and is counted.
Fails == faults < MaxFaults /\ faults' = faults + 1
Succeeds == UNCHANGED faults

-----------------------------------------------------------------------------
(* The agent thread.  Every statement resolves its file again.             *)

\* _record_vote: the votes that agree with the trade about to be made.
RecordVotes ==
  /\ saving = "nothing" /\ trade < Len(TradeActions)
  /\ trade' = trade + 1
  /\ saving' = "votes"
  /\ \/ Succeeds /\ votes' = [votes EXCEPT ![mode][trade + 1] = "null"]
     \/ Fails /\ UNCHANGED votes
  /\ UNCHANGED <<rows, at, dbPath, todo, verdict, Limits, Past>>

\* save_memory, the trades row; the evaluation is not scheduled if it fails.
InsertTrade ==
  /\ saving = "votes"
  /\ \/ Succeeds /\ saving' = "trade"
     \/ Fails /\ saving' = "nothing"
  /\ UNCHANGED <<votes, trade, rows, at, dbPath, todo, verdict, Limits, Past>>

\* save_memory, the pending_evaluations row.
InsertPending ==
  /\ saving = "trade"
  /\ saving' = "nothing"
  /\ \/ /\ Succeeds
        /\ rows' = [rows EXCEPT ![mode] =
                       Append(@, [trade |-> trade, action |-> TradeActions[trade],
                                  due |-> FALSE, evaluated |-> FALSE, retries |-> 0])]
     \/ Fails /\ UNCHANGED rows
  /\ UNCHANGED <<votes, trade, at, dbPath, todo, verdict, Limits, Past>>

\* eval_after_date passes.
ComeDue ==
  /\ \E f \in Files : \E i \in DOMAIN rows[f] :
       ~rows[f][i].due /\ rows' = [rows EXCEPT ![f][i].due = TRUE]
  /\ UNCHANGED <<Agent, at, dbPath, todo, verdict, faults, Limits, Past>>

-----------------------------------------------------------------------------
(* evaluate_pending_trades. *)

Selected(f) ==
  {[id |-> i, trade |-> rows[f][i].trade, action |-> rows[f][i].action] :
     i \in {j \in DOMAIN rows[f] : rows[f][j].due /\ ~rows[f][j].evaluated}}

\* The minute tick of _postmortem_loop: not in SIM, says a first reading of the mode.
Begin ==
  /\ at = "idle" /\ mode # "sim"
  /\ at' = "resolve"
  /\ UNCHANGED <<rows, Agent, dbPath, todo, verdict, faults, Limits, Past>>

\* The file the batch will write to, by a second reading.
ResolvePath ==
  /\ at = "resolve"
  /\ dbPath' = mode
  /\ at' = "select"
  /\ UNCHANGED <<rows, Agent, todo, verdict, faults, Limits, Past>>

\* The rows are taken in the order they were made, which is that of their dates.
Row == CHOOSE r \in todo : \A q \in todo : r.id <= q.id

\* On to these rows, or out of the function and its locals when there are none.
GoOnWith(rest) ==
  /\ todo' = rest
  /\ at' = IF rest = {} THEN "idle" ELSE "price"
  /\ dbPath' = IF rest = {} THEN "sim" ELSE dbPath
  /\ source' = IF rest = {} THEN "sim" ELSE IF at = "select" THEN mode ELSE source
  /\ verdict' = "inconclusive"

NextRow == GoOnWith(todo \ {Row})

\* The SELECT goes through _db_read, which resolves the file a third time.  A read
\* that fails returns no row.
SelectDue ==
  /\ at = "select"
  /\ \/ Succeeds /\ GoOnWith(Selected(mode))
     \/ Fails /\ GoOnWith({})
  /\ split' = (split \/ (mode # dbPath /\ at' # "idle"))
  /\ UNCHANGED <<rows, Agent, Limits, decision>>

\* A BUY was right if the price rose by more than the significance.
Judged(action, move) ==
  LET gain == IF action = "BUY" THEN move ELSE -move
  IN IF gain > Significance THEN "right"
     ELSE IF gain < -Significance THEN "wrong"
     ELSE "inconclusive"

\* _fast_last_price: a price, or none.
FetchPrice ==
  /\ at = "price"
  /\ \/ \E m \in Moves : verdict' = Judged(Row.action, m) /\ at' = "verdict"
     \/ at' = "retry" /\ UNCHANGED verdict
  /\ UNCHANGED <<rows, Agent, dbPath, todo, faults, Limits, Past>>

\* Every write of the batch goes to the file resolved at its start.
ResolvedAgain == mode
BatchFile == dbPath

\* UPDATE ... WHERE id: of a file that has no such row it changes nothing.
Stored == rows[BatchFile][Row.id]
UpdateRow(new) ==
  rows' = IF Row.id \in DOMAIN rows[BatchFile]
          THEN [rows EXCEPT ![BatchFile][Row.id] = new] ELSE rows

LeftPending(r) == r
Flagged(r) == [r EXCEPT !.evaluated = TRUE]

CountRetry ==
  /\ at = "retry"
  /\ \/ Succeeds /\ UpdateRow([Stored EXCEPT !.retries = @ + 1])
     \/ Fails /\ UNCHANGED rows
  /\ at' = "give_up"
  /\ UNCHANGED <<Agent, dbPath, todo, verdict, Limits, Past>>

NeverExhausted(f, i) == FALSE
Exhausted(f, i) == i \in DOMAIN rows[f] /\ rows[f][i].retries >= MaxEvalRetries

\* The count is read back, and the row is abandoned when it is exhausted.  The
\* read or the write may fail.
GiveUp ==
  /\ at = "give_up"
  /\ NextRow
  /\ \/ /\ Succeeds
        /\ IF Exhausted(BatchFile, Row.id)
           THEN /\ UpdateRow(Flagged(Stored))
                /\ decision' = [decision EXCEPT ![<<source, Row.id>>] = "abandoned"]
           ELSE UNCHANGED <<rows, decision>>
     \/ Fails /\ UNCHANGED <<rows, decision>>
  /\ UNCHANGED <<Agent, Limits, split>>

\* was_correct of the votes of this trace that have none yet; an inconclusive
\* verdict writes NULL.
Overwritten(old) ==
  IF old = "absent" THEN old ELSE IF verdict = "inconclusive" THEN "null" ELSE verdict
Resolved(old) == IF old = "null" /\ verdict # "inconclusive" THEN verdict ELSE old

NeverRetry == FALSE
RetryWhenUnwritten == TRUE

AfterVerdict == at' = "flag" /\ UNCHANGED <<todo, dbPath, verdict, source>>

\* A verdict that could not be written leaves the row pending.
WriteVerdict ==
  /\ at = "verdict"
  /\ \/ /\ Succeeds
        /\ votes' = [votes EXCEPT ![BatchFile][Row.trade] = Resolved(@)]
        /\ decision' = [decision EXCEPT ![<<source, Row.id>>] = verdict]
        /\ AfterVerdict
     \/ /\ Fails
        /\ UNCHANGED votes
        /\ IF RetryWhenUnwritten
           THEN NextRow /\ UNCHANGED decision
           ELSE /\ AfterVerdict
                /\ decision' = [decision EXCEPT ![<<source, Row.id>>] = verdict]
  /\ UNCHANGED <<rows, saving, trade, Limits, split>>

Flag ==
  /\ at = "flag"
  /\ NextRow
  /\ \/ Succeeds /\ UpdateRow(Flagged(Stored))
     \/ Fails /\ UNCHANGED rows
  /\ UNCHANGED <<Agent, Limits, split, decision>>

-----------------------------------------------------------------------------
SwitchMode ==
  /\ switches < MaxSwitches
  /\ switches' = switches + 1
  /\ \E m \in Files \ {mode} : mode' = m
  /\ UNCHANGED <<rows, Agent, at, dbPath, todo, verdict, faults, crashes, Past>>

\* The process stops and starts again, in SIM (lifespan).
Crash ==
  /\ crashes < MaxCrashes
  /\ crashes' = crashes + 1
  /\ mode' = "sim"
  /\ saving' = "nothing"
  /\ at' = "idle" /\ todo' = {} /\ dbPath' = "sim" /\ verdict' = "inconclusive"
  /\ source' = "sim"
  /\ UNCHANGED <<rows, votes, trade, switches, faults, split, decision>>

Init ==
  /\ mode = "sim"
  /\ rows = [f \in Files |-> <<>>]
  /\ votes = [f \in Files |-> [t \in Trades |-> "absent"]]
  /\ saving = "nothing" /\ trade = 0
  /\ at = "idle" /\ dbPath = "sim" /\ todo = {} /\ verdict = "inconclusive"
  /\ switches = 0 /\ faults = 0 /\ crashes = 0
  /\ source = "sim" /\ split = FALSE
  /\ decision = [r \in Files \X Trades |-> "none"]

Save == RecordVotes \/ InsertTrade \/ InsertPending
Evaluate ==
  \/ Begin \/ ResolvePath \/ SelectDue \/ FetchPrice \/ CountRetry \/ GiveUp \/ WriteVerdict \/ Flag

Next == Save \/ ComeDue \/ Evaluate \/ SwitchMode \/ Crash

\* Time passes and _postmortem_loop ticks every minute; neither a trade, nor a
\* switch, nor a crash has to happen, but a trade begun is written.
Fairness ==
  WF_evars(Evaluate) /\ WF_evars(ComeDue) /\ WF_evars(InsertTrade \/ InsertPending)

Spec == Init /\ [][Next]_evars /\ Fairness

-----------------------------------------------------------------------------
(* Properties. *)

PendingRow ==
  [trade : Trades, action : {"BUY", "SELL"}, due : BOOLEAN, evaluated : BOOLEAN,
   retries : 0..MaxEvalRetries]

\* The type invariant; a row is retried more than MaxEvalRetries times only when
\* a failed statement, a process stop or a switch kept it from being abandoned.
TypeOK ==
  /\ mode \in Files /\ dbPath \in Files /\ source \in Files
  /\ \A f \in Files : \A i \in DOMAIN rows[f] :
       [rows[f][i] EXCEPT !.retries = 0] \in PendingRow
         /\ rows[f][i].retries \in 0..(MaxEvalRetries + MaxFaults + MaxCrashes + MaxSwitches)
  /\ votes \in [Files -> [Trades -> {"absent", "null", "right", "wrong"}]]
  /\ saving \in {"nothing", "votes", "trade"} /\ trade \in 0..Len(TradeActions)
  /\ at \in {"idle", "resolve", "select", "price", "retry", "give_up", "verdict", "flag"}
  /\ verdict \in Verdicts
  /\ split \in BOOLEAN
  /\ decision \in [Files \X Trades -> Verdicts \cup {"none", "abandoned"}]

JudgedBeforeFlagged ==
  \A f \in Files : \A i \in DOMAIN rows[f] :
    rows[f][i].evaluated => decision[<<f, i>>] # "none"

\* Until a batch is split, a row is marked evaluated only after a decision about
\* that very row: no mode switch from the selection on routes a batch's writes to
\* another file.  A batch is split when it was selected from another file than it
\* writes to: the selection resolves the path again, and the code does not survive
\* a switch between the two resolutions, which the premise leaves out.
FlagFollowsDecision == ~split => JudgedBeforeFlagged

\* Until a batch is split (see above), a row decided right or wrong and marked
\* evaluated has its verdict in the votes of its file: a verdict that could not be
\* written is not lost, the row is tried again.
VerdictReachesVotes ==
  ~split => \A f \in Files : \A i \in DOMAIN rows[f] :
    rows[f][i].evaluated /\ decision[<<f, i>>] \in {"right", "wrong"}
      => votes[f][rows[f][i].trade] # "null"

\* A verdict is written once: the evaluation repeated after a lost flag, at
\* another price, does not change it.
VerdictIsFinal ==
  [][\A f \in Files, t \in Trades :
       votes[f][t] \in {"right", "wrong"} => votes'[f][t] = votes[f][t]]_evars

\* Every row of the file of a mode that is not SIM and is not left any more is
\* settled: by a verdict, or abandoned when no price is ever found.
DueRowsSettle ==
  \A f \in {"live", "paper"} :
    <>[](mode = f) => <>[](\A i \in DOMAIN rows[f] : rows[f][i].evaluated)
=============================================================================
