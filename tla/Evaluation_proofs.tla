--------------------------- MODULE Evaluation_proofs ---------------------------
(***************************************************************************)
(* Proofs about the deferred evaluation, for any sequence of trades, any   *)
(* prices and any number of mode switches, failing statements and process  *)
(* stops: a row is marked evaluated only after a decision about that row   *)
(* (FlagFollowsDecision), a verdict in the votes never changes             *)
(* (VerdictIsFinal), and the verdict of a row marked evaluated is there    *)
(* (VerdictReachesVotes).                                                  *)
(*                                                                         *)
(* The invariant says what the evaluator relies on between two of its      *)
(* statements: the row it is about to flag has been decided, and as long   *)
(* as no selection was split the file it writes to is the one it selected  *)
(* from; and what the agent thread has not written yet: no file has more   *)
(* rows than trades were made, or a vote of a trade to come.               *)
(***************************************************************************)
EXTENDS Evaluation, SequenceTheorems, WellFoundedInduction, TLAPS

Places == {"idle", "resolve", "select", "price", "retry", "give_up", "verdict", "flag"}
InBatch == at \in {"price", "retry", "give_up", "verdict", "flag"}

EvaluatorType ==
  /\ mode \in Files /\ dbPath \in Files /\ source \in Files
  /\ at \in Places
  /\ verdict \in Verdicts
  /\ decision \in [Files \X Trades -> Verdicts \cup {"none", "abandoned"}]

AnyRow ==
  [trade : Nat, action : {"BUY", "SELL"}, due : BOOLEAN, evaluated : BOOLEAN, retries : Nat]

RowsType ==
  /\ rows \in [Files -> Seq(AnyRow)]
  /\ trade \in 0..Len(TradeActions)
  /\ saving \in {"nothing", "votes", "trade"}

\* Each trade has made at most one row, the current one possibly none yet.
RowsMade ==
  \A f \in Files : Len(rows[f]) <= IF saving = "nothing" THEN trade ELSE trade - 1

VotesType == votes \in [Files -> [Trades -> {"absent", "null", "right", "wrong"}]]

\* No vote of a trade to come.
VotesMade == \A f \in Files, t \in Trades : t > trade => votes[f][t] = "absent"

\* A batch that is not split writes to the file it was selected from.
OneFile == InBatch /\ ~split => source = dbPath

\* The row about to be flagged has been decided.
DecidedAtFlag ==
  at = "flag" /\ Row.id \in Trades => decision[<<source, Row.id>>] # "none"

EvaluationInvariant ==
  /\ EvaluatorType /\ RowsType /\ RowsMade
  /\ OneFile /\ DecidedAtFlag
  /\ FlagFollowsDecision

VotesInvariant ==
  /\ VotesType /\ VotesMade
  /\ trade \in 0..Len(TradeActions)
  /\ saving \in {"nothing", "votes", "trade"}
  /\ verdict \in Verdicts /\ mode \in Files /\ dbPath \in Files

-----------------------------------------------------------------------------
(* The votes.                                                               *)

\* The trades are numbered from one.
LEMMA TradesRange == Trades = 1..Len(TradeActions) /\ Len(TradeActions) \in Nat
BY EvaluationAssumption DEF Trades

\* At the start no file has a vote.
LEMMA InitVotes == Init => VotesInvariant
BY TradesRange DEF Init, VotesInvariant, VotesType, VotesMade, Files, Verdicts

\* Writing a verdict keeps the ones that are there.
LEMMA WriteKeepsVotes ==
  ASSUME VotesInvariant, WriteVerdict
  PROVE  /\ VotesInvariant'
         /\ \A f \in Files, t \in Trades :
              votes[f][t] \in {"right", "wrong"} => votes'[f][t] = votes[f][t]
<1>1. \/ UNCHANGED votes
      \/ votes' = [votes EXCEPT ![dbPath][Row.trade] = Resolved(@)]
  BY DEF WriteVerdict, BatchFile
<1>2. verdict' \in Verdicts /\ dbPath' \in Files /\ UNCHANGED <<mode, trade, saving>>
  BY DEF WriteVerdict, AfterVerdict, NextRow, GoOnWith, Limits, VotesInvariant, Verdicts, Files
<1>3. CASE UNCHANGED votes
  BY <1>2, <1>3 DEF VotesInvariant, VotesType, VotesMade
<1>4. CASE votes' = [votes EXCEPT ![dbPath][Row.trade] = Resolved(@)]
  <2>1. ASSUME NEW f \in Files, NEW t \in Trades
        PROVE  /\ votes'[f][t] \in {votes[f][t], Resolved(votes[f][t])}
    BY <1>4 DEF VotesInvariant, VotesType
  <2>2. ASSUME NEW v \in {"absent", "null", "right", "wrong"}
        PROVE  /\ Resolved(v) \in {"absent", "null", "right", "wrong"}
               /\ v # "null" => Resolved(v) = v
    BY DEF Resolved, VotesInvariant, Verdicts
  <2>3. votes' \in [Files -> [Trades -> {"absent", "null", "right", "wrong"}]]
    <3>1. ASSUME NEW f \in Files
          PROVE  votes'[f] \in [Trades -> {"absent", "null", "right", "wrong"}]
      <4>1. CASE f = dbPath
        <5>1. votes'[f] = [votes[f] EXCEPT ![Row.trade] = Resolved(@)]
          BY <1>4, <4>1 DEF VotesInvariant, VotesType
        <5>2. votes[f] \in [Trades -> {"absent", "null", "right", "wrong"}]
          BY DEF VotesInvariant, VotesType
        <5> QED BY <5>1, <5>2, <2>2
      <4>2. CASE f # dbPath
        BY <1>4, <4>2 DEF VotesInvariant, VotesType
      <4> QED BY <4>1, <4>2
    <3> QED BY <1>4, <3>1 DEF VotesInvariant, VotesType
  <2>4. \A f \in Files, t \in Trades : votes[f][t] # "null" => votes'[f][t] = votes[f][t]
    BY <2>1, <2>2 DEF VotesInvariant, VotesType
  <2>5. VotesMade'
    BY <1>2, <2>4 DEF VotesInvariant, VotesMade
  <2> QED BY <1>2, <2>3, <2>4, <2>5 DEF VotesInvariant, VotesType
<1> QED BY <1>1, <1>3, <1>4

\* The votes of a new trade are those of a trade nobody voted on before.
LEMMA RecordKeepsVotes ==
  ASSUME VotesInvariant, RecordVotes
  PROVE  /\ VotesInvariant'
         /\ \A f \in Files, t \in Trades :
              votes[f][t] \in {"right", "wrong"} => votes'[f][t] = votes[f][t]
<1>1. /\ trade < Len(TradeActions) /\ trade' = trade + 1 /\ saving' = "votes"
      /\ UNCHANGED <<verdict, mode, dbPath>>
  BY DEF RecordVotes, Limits
<1>2. trade + 1 \in Trades /\ trade' \in 0..Len(TradeActions) /\ trade \in Nat
  BY <1>1, TradesRange DEF VotesInvariant
<1>3. CASE UNCHANGED votes
  BY <1>1, <1>2, <1>3, TradesRange DEF VotesInvariant, VotesType, VotesMade
<1>4. CASE votes' = [votes EXCEPT ![mode][trade + 1] = "null"]
  <2>1. votes' \in [Files -> [Trades -> {"absent", "null", "right", "wrong"}]]
    BY <1>2, <1>4 DEF VotesInvariant, VotesType
  <2>2. ASSUME NEW f \in Files, NEW t \in Trades
        PROVE  votes'[f][t] = votes[f][t] \/ (t = trade + 1 /\ votes[f][t] = "absent")
    <3>1. votes[f][trade + 1] = "absent"
      BY <1>2 DEF VotesInvariant, VotesMade
    <3> QED BY <1>4, <3>1 DEF VotesInvariant, VotesType
  <2>3. VotesMade'
    BY <1>1, <1>2, <2>2, TradesRange DEF VotesInvariant, VotesMade
  <2> QED BY <1>1, <1>2, <2>1, <2>2, <2>3 DEF VotesInvariant, VotesType
<1> QED BY <1>3, <1>4 DEF RecordVotes

\* No step takes a verdict back.
LEMMA StepKeepsVotes ==
  ASSUME VotesInvariant, [Next]_evars
  PROVE  /\ VotesInvariant'
         /\ \A f \in Files, t \in Trades :
              votes[f][t] \in {"right", "wrong"} => votes'[f][t] = votes[f][t]
<1>1. CASE RecordVotes
  BY <1>1, RecordKeepsVotes
<1>2. CASE WriteVerdict
  BY <1>2, WriteKeepsVotes
<1>3. CASE InsertTrade \/ InsertPending
  BY <1>3 DEF InsertTrade, InsertPending, Limits, VotesInvariant, VotesType, VotesMade
<1>4. CASE Begin \/ ResolvePath
  BY <1>4 DEF Begin, ResolvePath, Agent, Limits, VotesInvariant, VotesType, VotesMade
<1>5. CASE SelectDue \/ GiveUp \/ Flag
  BY <1>5 DEF SelectDue, GiveUp, Flag, NextRow, GoOnWith, Agent, Limits,
              VotesInvariant, VotesType, VotesMade, Verdicts, Files
<1>6. CASE FetchPrice \/ CountRetry
  BY <1>6 DEF FetchPrice, CountRetry, Judged, Agent, Limits,
              VotesInvariant, VotesType, VotesMade, Verdicts
<1>7. CASE ComeDue \/ SwitchMode \/ Crash
  BY <1>7 DEF ComeDue, SwitchMode, Crash, Agent, Limits,
              VotesInvariant, VotesType, VotesMade, Verdicts, Files
<1>8. CASE UNCHANGED evars
  BY <1>8 DEF evars, VotesInvariant, VotesType, VotesMade
<1> QED BY <1>1, <1>2, <1>3, <1>4, <1>5, <1>6, <1>7, <1>8 DEF Next, Save, Evaluate

\* A verdict in the votes is final (agents/shared/eval.py, the UPDATE guarded by
\* was_correct IS NULL): no repeated evaluation, restart or switch changes it.
THEOREM VerdictsAreFinal == Spec => VerdictIsFinal
<1>1. VotesInvariant /\ [Next]_evars
        => [\A f \in Files, t \in Trades :
              votes[f][t] \in {"right", "wrong"} => votes'[f][t] = votes[f][t]]_evars
  BY StepKeepsVotes
<1>2. VotesInvariant /\ [Next]_evars => VotesInvariant'
  BY StepKeepsVotes
<1> QED BY <1>1, <1>2, InitVotes, PTL DEF Spec, VerdictIsFinal

-----------------------------------------------------------------------------
(* The rows.                                                                *)

\* What an UPDATE by id does to the rows, whatever it writes.
LEMMA UpdateRowEffect ==
  ASSUME RowsType, dbPath \in Files, NEW new \in AnyRow, UpdateRow(new)
  PROVE  /\ rows' \in [Files -> Seq(AnyRow)]
         /\ \A f \in Files : Len(rows'[f]) = Len(rows[f])
         /\ \A f \in Files : \A i \in 1..Len(rows[f]) :
              rows'[f][i] = IF f = dbPath /\ i = Row.id THEN new ELSE rows[f][i]
<1>1. \A f \in Files : rows[f] \in Seq(AnyRow) /\ DOMAIN rows[f] = 1..Len(rows[f])
  BY DEF RowsType
<1>2. CASE Row.id \notin DOMAIN rows[dbPath]
  <2>1. rows' = rows
    BY <1>2 DEF UpdateRow, BatchFile
  <2> QED BY <1>1, <1>2, <2>1 DEF RowsType
<1>3. CASE Row.id \in DOMAIN rows[dbPath]
  <2>1. PICK s \in Seq(AnyRow) : s = rows[dbPath]
    BY <1>1
  <2>2. PICK i \in 1..Len(s) : i = Row.id
    BY <1>1, <1>3, <2>1
  <2>3. PICK t : t = [s EXCEPT ![i] = new]
    OBVIOUS
  <2>4. /\ t \in Seq(AnyRow) /\ Len(t) = Len(s)
        /\ \A j \in 1..Len(s) : t[j] = IF j = i THEN new ELSE s[j]
    BY <2>3, ExceptSeq
  <2>5. rows' = [rows EXCEPT ![dbPath] = t]
    BY <1>3, <2>1, <2>2, <2>3 DEF UpdateRow, BatchFile
  <2>6. rows' \in [Files -> Seq(AnyRow)]
    BY <2>4, <2>5 DEF RowsType
  <2>7. rows'[dbPath] = t /\ \A f \in Files : f # dbPath => rows'[f] = rows[f]
    BY <2>5 DEF RowsType
  <2> QED BY <1>1, <2>1, <2>2, <2>4, <2>6, <2>7
<1> QED BY <1>2, <1>3

\* Where the row to be written is not there, nothing is written.
LEMMA NoSuchRow ==
  ASSUME RowsType, NEW new, UpdateRow(new), Row.id \notin DOMAIN rows[dbPath]
  PROVE  UNCHANGED rows
BY DEF UpdateRow, BatchFile

\* A row that exists belongs to a trade that was made.
LEMMA RowsAreTrades ==
  ASSUME RowsType, RowsMade, NEW f \in Files
  PROVE  /\ DOMAIN rows[f] = 1..Len(rows[f]) /\ Len(rows[f]) \in Nat
         /\ DOMAIN rows[f] \subseteq Trades
<1>1. rows[f] \in Seq(AnyRow)
  BY DEF RowsType
<1>2. Len(rows[f]) \in Nat /\ DOMAIN rows[f] = 1..Len(rows[f])
  BY <1>1
<1>3. Len(rows[f]) <= Len(TradeActions)
  BY <1>2, TradesRange DEF RowsType, RowsMade
<1> QED BY <1>2, <1>3, TradesRange

\* At the start no batch is running and no row is there.
LEMMA InitEvaluation == Init => EvaluationInvariant
<1> SUFFICES ASSUME Init PROVE EvaluationInvariant
  OBVIOUS
<1>1. EvaluatorType
  BY DEF Init, EvaluatorType, Files, Places, Verdicts
<1>2. <<>> \in Seq(AnyRow) /\ Len(<<>>) = 0
  BY EmptySeq
<1>3. RowsType /\ RowsMade
  BY <1>2, TradesRange DEF Init, RowsType, RowsMade
<1>4. FlagFollowsDecision
  BY DEF Init, FlagFollowsDecision, JudgedBeforeFlagged
<1> QED BY <1>1, <1>3, <1>4 DEF Init, EvaluationInvariant, OneFile, DecidedAtFlag, InBatch

\* The steps of the agent thread: none of them touches the evaluator.
LEMMA AgentKeepsEvaluation ==
  ASSUME EvaluationInvariant, RecordVotes \/ InsertTrade \/ InsertPending
  PROVE  EvaluationInvariant'
<1>1. UNCHANGED <<mode, at, dbPath, todo, verdict, source, split, decision>>
  BY DEF RecordVotes, InsertTrade, InsertPending, Limits, Past
<1>2. EvaluatorType' /\ OneFile' /\ DecidedAtFlag'
  BY <1>1 DEF EvaluationInvariant, EvaluatorType, OneFile, InBatch, DecidedAtFlag, Row
<1>3. \A f \in Files : Len(rows[f]) \in Nat
  BY DEF EvaluationInvariant, RowsType
<1>4. CASE UNCHANGED rows
  <2>1. FlagFollowsDecision'
    BY <1>1, <1>4 DEF EvaluationInvariant, FlagFollowsDecision, JudgedBeforeFlagged
  <2>2. RowsType' /\ RowsMade'
    BY <1>3, <1>4, TradesRange
       DEF EvaluationInvariant, RowsType, RowsMade, RecordVotes, InsertTrade, InsertPending
  <2> QED BY <1>2, <2>1, <2>2 DEF EvaluationInvariant
<1>5. CASE InsertPending /\ ~UNCHANGED rows
  <2> DEFINE row == [trade |-> trade, action |-> TradeActions[trade],
                     due |-> FALSE, evaluated |-> FALSE, retries |-> 0]
  <2>1. /\ saving = "trade" /\ saving' = "nothing" /\ trade' = trade
        /\ rows' = [rows EXCEPT ![mode] = Append(@, row)]
    BY <1>5 DEF InsertPending
  <2>2. mode \in Files /\ rows[mode] \in Seq(AnyRow)
    BY DEF EvaluationInvariant, EvaluatorType, RowsType
  <2>3. trade \in 1..Len(TradeActions)
    <3>1. Len(rows[mode]) <= trade - 1 /\ Len(rows[mode]) \in Nat
      BY <1>3, <2>1, <2>2 DEF EvaluationInvariant, RowsMade
    <3> QED BY <3>1, TradesRange DEF EvaluationInvariant, RowsType
  <2>4. row \in AnyRow
    <3>1. TradeActions[trade] \in {"BUY", "SELL"}
      BY <2>3, EvaluationAssumption
    <3> QED BY <2>3, <3>1, TradesRange DEF AnyRow
  <2>5. ~row.evaluated
    OBVIOUS
  <2> HIDE DEF row
  <2>13. PICK q \in Seq(AnyRow) : q = rows[mode]
    BY <2>2
  <2>6. PICK s : s = Append(q, row)
    OBVIOUS
  <2>7. /\ s \in Seq(AnyRow) /\ Len(s) = Len(rows[mode]) + 1
        /\ \A i \in 1..Len(rows[mode]) : s[i] = rows[mode][i]
        /\ s[Len(rows[mode]) + 1] = row
    BY <2>4, <2>6, <2>13, AppendProperties
  <2>8. rows' = [rows EXCEPT ![mode] = s]
    BY <2>1, <2>6, <2>13
  <2>9. rows' \in [Files -> Seq(AnyRow)]
    BY <2>7, <2>8 DEF EvaluationInvariant, RowsType
  <2>10. rows'[mode] = s /\ \A f \in Files : f # mode => rows'[f] = rows[f]
    BY <2>2, <2>8 DEF EvaluationInvariant, RowsType
  <2>11. RowsType' /\ RowsMade'
    <3>1. \A f \in Files : Len(rows[f]) <= trade - 1
      BY <2>1 DEF EvaluationInvariant, RowsMade
    <3>2. \A f \in Files : Len(rows'[f]) <= trade
      BY <1>3, <2>2, <2>3, <2>7, <2>10, <3>1
    <3> QED BY <2>1, <2>9, <3>2 DEF EvaluationInvariant, RowsType, RowsMade
  <2>12. FlagFollowsDecision'
    <3> SUFFICES ASSUME ~split, NEW f \in Files, NEW i \in DOMAIN rows'[f], rows'[f][i].evaluated
                 PROVE  decision[<<f, i>>] # "none"
      BY <1>1 DEF FlagFollowsDecision, JudgedBeforeFlagged
    <3>1. CASE f # mode
      BY <2>10, <3>1 DEF EvaluationInvariant, FlagFollowsDecision, JudgedBeforeFlagged
    <3>2. CASE f = mode
      <4>1. i \in 1..Len(s) /\ s[i].evaluated
        BY <2>7, <2>10, <3>2
      <4>2. i \in 1..Len(rows[mode]) /\ rows[mode][i].evaluated
        BY <1>3, <2>2, <2>5, <2>7, <4>1
      <4> QED BY <2>2, <3>2, <4>2
              DEF EvaluationInvariant, FlagFollowsDecision, JudgedBeforeFlagged
    <3> QED BY <3>1, <3>2
  <2> QED BY <1>2, <2>11, <2>12 DEF EvaluationInvariant
<1> QED BY <1>4, <1>5 DEF RecordVotes, InsertTrade

\* Going on to the next row of the batch, or out of it.
LEMMA GoingOn ==
  ASSUME EvaluationInvariant, InBatch, NextRow, UNCHANGED <<mode, split>>,
         decision' \in [Files \X Trades -> Verdicts \cup {"none", "abandoned"}]
  PROVE  EvaluatorType' /\ OneFile' /\ DecidedAtFlag'
<1>1. /\ at' \in {"idle", "price"} /\ dbPath' \in Files /\ source' \in Files
      /\ verdict' = "inconclusive"
      /\ at' = "price" => dbPath' = dbPath /\ source' = source
  BY DEF NextRow, GoOnWith, EvaluationInvariant, EvaluatorType, InBatch, Files
<1>2. EvaluatorType'
  BY <1>1 DEF EvaluationInvariant, EvaluatorType, Places, Verdicts
<1>3. OneFile' /\ DecidedAtFlag'
  BY <1>1 DEF EvaluationInvariant, OneFile, DecidedAtFlag, InBatch
<1> QED BY <1>2, <1>3

\* A decision about the current row, if it is one of a trade, is remembered.
LEMMA Decide ==
  ASSUME EvaluationInvariant, NEW d \in Verdicts \cup {"abandoned"},
         decision' = [decision EXCEPT ![<<source, Row.id>>] = d]
  PROVE  /\ decision' \in [Files \X Trades -> Verdicts \cup {"none", "abandoned"}]
         /\ Row.id \in Trades => decision'[<<source, Row.id>>] # "none"
         /\ \A f \in Files, i \in Trades :
              decision[<<f, i>>] # "none" => decision'[<<f, i>>] # "none"
<1>1. d # "none"
  BY DEF Verdicts
<1>2. decision \in [Files \X Trades -> Verdicts \cup {"none", "abandoned"}] /\ source \in Files
  BY DEF EvaluationInvariant, EvaluatorType
<1>3. decision' \in [Files \X Trades -> Verdicts \cup {"none", "abandoned"}]
  BY <1>2
<1>4. \A c \in Files \X Trades :
        decision'[c] = IF c = <<source, Row.id>> THEN d ELSE decision[c]
  BY <1>2
<1>5. Row.id \in Trades => decision'[<<source, Row.id>>] # "none"
  BY <1>1, <1>2, <1>4
<1>6. ASSUME NEW f \in Files, NEW i \in Trades, decision[<<f, i>>] # "none"
      PROVE  decision'[<<f, i>>] # "none"
  BY <1>1, <1>4, <1>6
<1> QED BY <1>3, <1>5, <1>6

\* Flags only set after a decision: what a step of the evaluator must preserve.
LEMMA StillDecided ==
  ASSUME EvaluationInvariant,
         split => split',
         rows' \in [Files -> Seq(AnyRow)],
         \A f \in Files : Len(rows'[f]) = Len(rows[f]),
         \A f \in Files : \A i \in 1..Len(rows[f]) :
           rows'[f][i].evaluated /\ ~split'
             => rows[f][i].evaluated \/ decision'[<<f, i>>] # "none",
         \A f \in Files, i \in Trades :
           decision[<<f, i>>] # "none" => decision'[<<f, i>>] # "none",
         UNCHANGED <<trade, saving>>
  PROVE  RowsType' /\ RowsMade' /\ FlagFollowsDecision'
<1>1. RowsType' /\ RowsMade'
  BY DEF EvaluationInvariant, RowsType, RowsMade
<1>2. SUFFICES ASSUME ~split', NEW f \in Files, NEW i \in DOMAIN rows'[f], rows'[f][i].evaluated
               PROVE  decision'[<<f, i>>] # "none"
  BY <1>1 DEF FlagFollowsDecision, JudgedBeforeFlagged
<1>3. i \in 1..Len(rows[f]) /\ i \in DOMAIN rows[f] /\ i \in Trades
  <2>1. rows'[f] \in Seq(AnyRow)
    OBVIOUS
  <2>2. DOMAIN rows'[f] = 1..Len(rows'[f])
    BY <2>1
  <2> QED BY <2>2, RowsAreTrades DEF EvaluationInvariant
<1>4. rows[f][i].evaluated => decision[<<f, i>>] # "none"
  BY <1>2, <1>3 DEF EvaluationInvariant, FlagFollowsDecision, JudgedBeforeFlagged
<1> QED BY <1>2, <1>3, <1>4

\* The row that is flagged is the one that was decided, in the file it is in.
LEMMA FlaggedWasDecided ==
  ASSUME EvaluationInvariant, InBatch, UNCHANGED <<trade, saving, split>>,
         NEW i \in DOMAIN rows[dbPath], i = Row.id, UpdateRow(Flagged(rows[dbPath][i])),
         Row.id \in Trades => decision'[<<source, Row.id>>] # "none",
         \A f \in Files, j \in Trades :
           decision[<<f, j>>] # "none" => decision'[<<f, j>>] # "none"
  PROVE  RowsType' /\ RowsMade' /\ FlagFollowsDecision'
<1>1. dbPath \in Files /\ RowsType /\ RowsMade
  BY DEF EvaluationInvariant, EvaluatorType
<1>2. i \in 1..Len(rows[dbPath]) /\ i \in Trades /\ rows[dbPath] \in Seq(AnyRow)
  BY <1>1, RowsAreTrades DEF RowsType
<1>3. PICK new \in AnyRow : new = Flagged(rows[dbPath][i])
  <2>1. PICK r \in AnyRow : r = rows[dbPath][i]
    BY <1>2
  <2>2. [r EXCEPT !.evaluated = TRUE] \in AnyRow
    BY DEF AnyRow
  <2> QED BY <2>1, <2>2 DEF Flagged
<1>4. /\ rows' \in [Files -> Seq(AnyRow)]
      /\ \A f \in Files : Len(rows'[f]) = Len(rows[f])
      /\ \A f \in Files : \A j \in 1..Len(rows[f]) :
           rows'[f][j] = IF f = dbPath /\ j = Row.id THEN new ELSE rows[f][j]
  BY <1>1, <1>3, UpdateRowEffect
<1>5. ASSUME NEW f \in Files, NEW j \in 1..Len(rows[f]), rows'[f][j].evaluated, ~split'
      PROVE  rows[f][j].evaluated \/ decision'[<<f, j>>] # "none"
  <2>1. CASE f = dbPath /\ j = Row.id
    <3>1. source = dbPath
      BY <1>5 DEF EvaluationInvariant, OneFile
    <3> QED BY <1>2, <2>1, <3>1
  <2>2. CASE ~(f = dbPath /\ j = Row.id)
    BY <1>4, <1>5, <2>2
  <2> QED BY <2>1, <2>2
<1> QED BY <1>4, <1>5, StillDecided

\* Steps that write no row and decide nothing.
LEMMA LookingKeepsEvaluation ==
  ASSUME EvaluationInvariant, Begin \/ ResolvePath \/ FetchPrice \/ SelectDue
  PROVE  EvaluationInvariant'
<1>1. UNCHANGED <<rows, trade, saving, mode, decision>> /\ (split => split')
  <2>1. CASE Begin \/ ResolvePath \/ FetchPrice
    BY <2>1 DEF Begin, ResolvePath, FetchPrice, Agent, Limits, Past
  <2>2. CASE SelectDue
    <3>1. UNCHANGED <<rows, trade, saving, mode, decision>>
      BY <2>2 DEF SelectDue, Agent, Limits
    <3>2. split => split'
      BY <2>2 DEF SelectDue
    <3> QED BY <3>1, <3>2
  <2> QED BY <2>1, <2>2
<1>2. RowsType' /\ RowsMade' /\ FlagFollowsDecision'
  BY <1>1 DEF EvaluationInvariant, RowsType, RowsMade, FlagFollowsDecision, JudgedBeforeFlagged
<1>3. CASE Begin \/ ResolvePath \/ FetchPrice
  <2>1. EvaluatorType'
    BY <1>1, <1>3 DEF Begin, ResolvePath, FetchPrice, Past, Judged,
                      EvaluationInvariant, EvaluatorType, Places, Verdicts
  <2>2. OneFile' /\ DecidedAtFlag'
    BY <1>3 DEF Begin, ResolvePath, FetchPrice, Past,
                EvaluationInvariant, OneFile, DecidedAtFlag, InBatch
  <2> QED BY <1>2, <2>1, <2>2 DEF EvaluationInvariant
<1>4. CASE SelectDue
  <2>1. PICK rest : GoOnWith(rest)
    BY <1>4 DEF SelectDue
  <2>2. /\ at' \in {"idle", "price"} /\ dbPath' \in Files /\ source' \in Files
        /\ verdict' = "inconclusive"
        /\ at' = "price" => dbPath' = dbPath /\ source' = mode
    BY <1>4, <2>1 DEF SelectDue, GoOnWith, EvaluationInvariant, EvaluatorType, Files
  <2>3. at' = "price" /\ ~split' => mode = dbPath
    BY <1>4 DEF SelectDue
  <2>4. EvaluatorType'
    BY <1>1, <2>2 DEF EvaluationInvariant, EvaluatorType, Places, Verdicts
  <2>5. OneFile' /\ DecidedAtFlag'
    BY <2>2, <2>3 DEF OneFile, DecidedAtFlag, InBatch
  <2> QED BY <1>2, <2>4, <2>5 DEF EvaluationInvariant
<1> QED BY <1>3, <1>4

\* Counting a retry flags nothing.
LEMMA CountKeepsEvaluation ==
  ASSUME EvaluationInvariant, CountRetry
  PROVE  EvaluationInvariant'
<1>1. /\ UNCHANGED <<trade, saving, mode, decision, split, source, dbPath, verdict>>
      /\ at = "retry" /\ at' = "give_up"
  BY DEF CountRetry, Agent, Limits, Past
<1>2. EvaluatorType' /\ OneFile' /\ DecidedAtFlag'
  BY <1>1 DEF EvaluationInvariant, EvaluatorType, OneFile, DecidedAtFlag, InBatch, Places
<1>3. CASE UNCHANGED rows
  BY <1>1, <1>2, <1>3
     DEF EvaluationInvariant, RowsType, RowsMade, FlagFollowsDecision, JudgedBeforeFlagged
<1>4. CASE ~UNCHANGED rows
  <2>1. UpdateRow([Stored EXCEPT !.retries = @ + 1]) /\ Row.id \in DOMAIN rows[dbPath]
    BY <1>4 DEF CountRetry, UpdateRow, BatchFile
  <2>2. dbPath \in Files /\ RowsType /\ RowsMade
    BY DEF EvaluationInvariant, EvaluatorType
  <2>3. PICK i \in DOMAIN rows[dbPath] : i = Row.id
    BY <2>1
  <2>4. PICK r \in AnyRow : r = rows[dbPath][i]
    <3>1. rows[dbPath] \in Seq(AnyRow)
      BY <2>2 DEF RowsType
    <3> QED BY <3>1
  <2>5. [r EXCEPT !.retries = @ + 1] \in AnyRow
    BY DEF AnyRow
  <2>6. PICK new \in AnyRow : new = [r EXCEPT !.retries = @ + 1]
    BY <2>5
  <2>7. new.evaluated = r.evaluated
    BY <2>6 DEF AnyRow
  <2>8. UpdateRow(new)
    BY <2>1, <2>3, <2>4, <2>6 DEF Stored, BatchFile
  <2>9. /\ rows' \in [Files -> Seq(AnyRow)]
        /\ \A f \in Files : Len(rows'[f]) = Len(rows[f])
        /\ \A f \in Files : \A j \in 1..Len(rows[f]) :
             rows'[f][j] = IF f = dbPath /\ j = Row.id THEN new ELSE rows[f][j]
    BY <2>2, <2>8, UpdateRowEffect
  <2>10. \A f \in Files : \A j \in 1..Len(rows[f]) :
           rows'[f][j].evaluated => rows[f][j].evaluated
    BY <2>3, <2>4, <2>7, <2>9
  <2>11. RowsType' /\ RowsMade' /\ FlagFollowsDecision'
    BY <1>1, <2>9, <2>10, StillDecided
  <2> QED BY <1>2, <2>11 DEF EvaluationInvariant
<1> QED BY <1>3, <1>4

\* Where no row changes and no decision is undone, what holds of the rows holds on.
LEMMA RowsUntouched ==
  ASSUME EvaluationInvariant, UNCHANGED <<rows, trade, saving, split>>,
         \A f \in Files, i \in Trades :
           decision[<<f, i>>] # "none" => decision'[<<f, i>>] # "none"
  PROVE  RowsType' /\ RowsMade' /\ FlagFollowsDecision'
<1>1. rows' \in [Files -> Seq(AnyRow)]
  BY DEF EvaluationInvariant, RowsType
<1> QED BY <1>1, StillDecided

\* Giving up on a row: the decision to abandon it and the flag are one step.
LEMMA GiveUpKeepsEvaluation ==
  ASSUME EvaluationInvariant, GiveUp
  PROVE  EvaluationInvariant'
<1>1. UNCHANGED <<trade, saving, mode, split>> /\ NextRow /\ InBatch
  BY DEF GiveUp, Agent, Limits, InBatch
<1>2. CASE UNCHANGED <<rows, decision>>
  <2>1. EvaluatorType' /\ OneFile' /\ DecidedAtFlag'
    BY <1>1, <1>2, GoingOn DEF EvaluationInvariant, EvaluatorType
  <2>2. RowsType' /\ RowsMade' /\ FlagFollowsDecision'
    BY <1>1, <1>2, RowsUntouched
  <2> QED BY <2>1, <2>2 DEF EvaluationInvariant
<1>3. CASE /\ Exhausted(dbPath, Row.id) /\ UpdateRow(Flagged(Stored))
           /\ decision' = [decision EXCEPT ![<<source, Row.id>>] = "abandoned"]
  <2>1. /\ decision' \in [Files \X Trades -> Verdicts \cup {"none", "abandoned"}]
        /\ Row.id \in Trades => decision'[<<source, Row.id>>] # "none"
        /\ \A f \in Files, i \in Trades :
             decision[<<f, i>>] # "none" => decision'[<<f, i>>] # "none"
    BY <1>3, Decide
  <2>2. PICK i \in DOMAIN rows[dbPath] : i = Row.id
    BY <1>3 DEF Exhausted
  <2>3. UpdateRow(Flagged(rows[dbPath][i]))
    BY <1>3, <2>2 DEF Stored, BatchFile
  <2>4. RowsType' /\ RowsMade' /\ FlagFollowsDecision'
    BY <1>1, <2>1, <2>2, <2>3, FlaggedWasDecided
  <2>5. EvaluatorType' /\ OneFile' /\ DecidedAtFlag'
    BY <1>1, <2>1, GoingOn
  <2> QED BY <2>4, <2>5 DEF EvaluationInvariant
<1> QED BY <1>2, <1>3 DEF GiveUp, BatchFile

\* A verdict is a decision; one that could not be written is none.
LEMMA VerdictKeepsEvaluation ==
  ASSUME EvaluationInvariant, WriteVerdict
  PROVE  EvaluationInvariant'
<1>1. UNCHANGED <<rows, trade, saving, mode, split>> /\ at = "verdict" /\ InBatch
  BY DEF WriteVerdict, Limits, InBatch
<1>2. CASE NextRow /\ UNCHANGED decision
  <2>1. EvaluatorType' /\ OneFile' /\ DecidedAtFlag'
    BY <1>1, <1>2, GoingOn DEF EvaluationInvariant, EvaluatorType
  <2>2. RowsType' /\ RowsMade' /\ FlagFollowsDecision'
    BY <1>1, <1>2, RowsUntouched
  <2> QED BY <2>1, <2>2 DEF EvaluationInvariant
<1>3. CASE AfterVerdict /\ decision' = [decision EXCEPT ![<<source, Row.id>>] = verdict]
  <2>1. verdict \in Verdicts
    BY DEF EvaluationInvariant, EvaluatorType
  <2>2. /\ decision' \in [Files \X Trades -> Verdicts \cup {"none", "abandoned"}]
        /\ Row.id \in Trades => decision'[<<source, Row.id>>] # "none"
        /\ \A f \in Files, i \in Trades :
             decision[<<f, i>>] # "none" => decision'[<<f, i>>] # "none"
    BY <1>3, <2>1, Decide
  <2>3. RowsType' /\ RowsMade' /\ FlagFollowsDecision'
    BY <1>1, <2>2, RowsUntouched
  <2>4. at' = "flag" /\ UNCHANGED <<todo, dbPath, verdict, source>>
    BY <1>3 DEF AfterVerdict
  <2>5. EvaluatorType'
    BY <1>1, <2>2, <2>4 DEF EvaluationInvariant, EvaluatorType, Places
  <2>6. OneFile' /\ DecidedAtFlag'
    BY <1>1, <2>2, <2>4 DEF EvaluationInvariant, OneFile, DecidedAtFlag, InBatch, Row
  <2> QED BY <2>3, <2>5, <2>6 DEF EvaluationInvariant
<1> QED BY <1>2, <1>3 DEF WriteVerdict, RetryWhenUnwritten

\* The flag itself.
LEMMA FlagKeepsEvaluation ==
  ASSUME EvaluationInvariant, Flag
  PROVE  EvaluationInvariant'
<1>1. UNCHANGED <<trade, saving, mode, split, decision>> /\ NextRow /\ at = "flag" /\ InBatch
  BY DEF Flag, Agent, Limits, InBatch
<1>2. EvaluatorType' /\ OneFile' /\ DecidedAtFlag'
  BY <1>1, GoingOn DEF EvaluationInvariant, EvaluatorType
<1>3. CASE UNCHANGED rows
  <2>1. RowsType' /\ RowsMade' /\ FlagFollowsDecision'
    BY <1>1, <1>3, RowsUntouched
  <2> QED BY <1>2, <2>1 DEF EvaluationInvariant
<1>4. CASE ~UNCHANGED rows
  <2>1. UpdateRow(Flagged(Stored)) /\ Row.id \in DOMAIN rows[dbPath]
    BY <1>4 DEF Flag, UpdateRow, BatchFile
  <2>2. PICK i \in DOMAIN rows[dbPath] : i = Row.id
    BY <2>1
  <2>3. UpdateRow(Flagged(rows[dbPath][i]))
    BY <2>1, <2>2 DEF Stored, BatchFile
  <2>4. Row.id \in Trades => decision'[<<source, Row.id>>] # "none"
    BY <1>1 DEF EvaluationInvariant, DecidedAtFlag
  <2>5. RowsType' /\ RowsMade' /\ FlagFollowsDecision'
    BY <1>1, <2>2, <2>3, <2>4, FlaggedWasDecided
  <2> QED BY <1>2, <2>5 DEF EvaluationInvariant
<1> QED BY <1>3, <1>4

\* A row that comes due, a mode switch, a process stop.
LEMMA OutsideKeepsEvaluation ==
  ASSUME EvaluationInvariant, ComeDue \/ SwitchMode \/ Crash
  PROVE  EvaluationInvariant'
<1>1. CASE ComeDue
  <2>1. UNCHANGED <<trade, saving, mode, decision, split, source, dbPath, verdict, at, todo>>
    BY <1>1 DEF ComeDue, Agent, Limits, Past
  <2>2. EvaluatorType' /\ OneFile' /\ DecidedAtFlag'
    BY <2>1 DEF EvaluationInvariant, EvaluatorType, OneFile, DecidedAtFlag, InBatch, Row
  <2>a. PICK f \in Files : \E k \in DOMAIN rows[f] : rows' = [rows EXCEPT ![f][k].due = TRUE]
    BY <1>1 DEF ComeDue
  <2>3. PICK i \in DOMAIN rows[f] : rows' = [rows EXCEPT ![f][i].due = TRUE]
    BY <2>a
  <2>4. PICK s \in Seq(AnyRow) : s = rows[f]
    BY DEF EvaluationInvariant, RowsType
  <2>5. i \in 1..Len(s)
    BY <2>3, <2>4
  <2>6. PICK r \in AnyRow : r = s[i]
    BY <2>5
  <2>7. PICK new \in AnyRow : new = [r EXCEPT !.due = TRUE]
    BY DEF AnyRow
  <2>8. new.evaluated = r.evaluated
    BY <2>7 DEF AnyRow
  <2>9. PICK t : t = [s EXCEPT ![i] = new]
    OBVIOUS
  <2>10. /\ t \in Seq(AnyRow) /\ Len(t) = Len(s)
         /\ \A j \in 1..Len(s) : t[j] = IF j = i THEN new ELSE s[j]
    BY <2>5, <2>9, ExceptSeq
  <2>11. rows' = [rows EXCEPT ![f] = t]
    BY <2>3, <2>4, <2>6, <2>7, <2>9
  <2>12. /\ rows' \in [Files -> Seq(AnyRow)] /\ rows'[f] = t
         /\ \A g \in Files : g # f => rows'[g] = rows[g]
    BY <2>10, <2>11 DEF EvaluationInvariant, RowsType
  <2>13. \A g \in Files : Len(rows'[g]) = Len(rows[g])
    BY <2>4, <2>10, <2>12
  <2>14. \A g \in Files : \A j \in 1..Len(rows[g]) :
           rows'[g][j].evaluated => rows[g][j].evaluated
    BY <2>4, <2>6, <2>8, <2>10, <2>12
  <2>15. RowsType' /\ RowsMade' /\ FlagFollowsDecision'
    BY <2>1, <2>12, <2>13, <2>14, StillDecided
  <2> QED BY <2>2, <2>15 DEF EvaluationInvariant
<1>2. CASE SwitchMode
  <2>1. UNCHANGED <<rows, trade, saving, decision, split, source, dbPath, verdict, at, todo>>
        /\ mode' \in Files
    BY <1>2 DEF SwitchMode, Agent, Past
  <2> QED BY <2>1 DEF EvaluationInvariant, EvaluatorType, RowsType, RowsMade, OneFile,
                      DecidedAtFlag, InBatch, Row, FlagFollowsDecision, JudgedBeforeFlagged
<1>3. CASE Crash
  <2>1. UNCHANGED <<rows, trade, decision, split>> /\ saving' = "nothing" /\ at' = "idle"
    BY <1>3 DEF Crash
  <2>2. EvaluatorType' /\ OneFile' /\ DecidedAtFlag'
    BY <1>3 DEF Crash, EvaluationInvariant, EvaluatorType, OneFile, DecidedAtFlag, InBatch,
                Files, Places, Verdicts
  <2>3. \A f \in Files : Len(rows[f]) \in Nat
    BY DEF EvaluationInvariant, RowsType
  <2>4. RowsType' /\ RowsMade'
    BY <2>1, <2>3, TradesRange DEF EvaluationInvariant, RowsType, RowsMade
  <2>5. FlagFollowsDecision'
    BY <2>1 DEF EvaluationInvariant, FlagFollowsDecision, JudgedBeforeFlagged
  <2> QED BY <2>2, <2>4, <2>5 DEF EvaluationInvariant
<1> QED BY <1>1, <1>2, <1>3

\* Every step keeps the invariant, one lemma for each statement of the batch.
LEMMA StepKeepsEvaluation ==
  ASSUME EvaluationInvariant, [Next]_evars
  PROVE  EvaluationInvariant'
<1>1. CASE UNCHANGED evars
  BY <1>1 DEF evars, EvaluationInvariant, EvaluatorType, RowsType, RowsMade, OneFile,
              DecidedAtFlag, InBatch, Row, FlagFollowsDecision, JudgedBeforeFlagged
<1> QED BY <1>1, AgentKeepsEvaluation, LookingKeepsEvaluation, CountKeepsEvaluation,
           GiveUpKeepsEvaluation, VerdictKeepsEvaluation, FlagKeepsEvaluation,
           OutsideKeepsEvaluation DEF Next, Save, Evaluate

\* The inductive invariant of the evaluator and the rows.
THEOREM EvaluationInvariantHolds == Spec => []EvaluationInvariant
BY InitEvaluation, StepKeepsEvaluation, PTL DEF Spec

\* No row is marked evaluated before a decision about that very row, as long as
\* no batch was selected from another file than the one it writes to
\* (evaluate_pending_trades, agents/shared/eval.py).
THEOREM FlagAlwaysFollowsDecision == Spec => []FlagFollowsDecision
<1>1. EvaluationInvariant => FlagFollowsDecision
  BY DEF EvaluationInvariant
<1> QED BY <1>1, EvaluationInvariantHolds, PTL
-----------------------------------------------------------------------------
(* The verdicts reach the votes.  A decision is about a row that is there,  *)
(* and the batch knows of each of its rows the trade it was made for, so    *)
(* that the votes it writes to are those of the row it decides.             *)

RowsOfTrades == \A f \in Files : \A i \in DOMAIN rows[f] : rows[f][i].trade \in 1..trade

\* What the batch remembers of its rows is still what they are.
BatchKnown ==
  \A r \in todo : r.id \in DOMAIN rows[source] /\ r.trade = rows[source][r.id].trade

DecidedRowsVoted ==
  ~split => \A f \in Files, i \in Trades :
    decision[<<f, i>>] \in {"right", "wrong"}
      => i \in DOMAIN rows[f] /\ votes[f][rows[f][i].trade] # "null"

ReachInvariant ==
  /\ InBatch => todo # {}
  /\ RowsOfTrades
  /\ BatchKnown
  /\ DecidedRowsVoted

\* The current row is one of the batch: some row of it has the least id.
LEMMA RowInBatch ==
  ASSUME EvaluationInvariant, ReachInvariant, InBatch
  PROVE  Row \in todo
<1>1. todo # {} /\ source \in Files
  BY DEF ReachInvariant, EvaluationInvariant, EvaluatorType
<1>2. \A r \in todo : r.id \in Nat
  <2>1. DOMAIN rows[source] \subseteq Nat
    BY <1>1, RowsAreTrades DEF EvaluationInvariant
  <2> QED BY <2>1 DEF ReachInvariant, BatchKnown
<1> DEFINE Ids == {r.id : r \in todo}
<1>3. Ids \subseteq Nat /\ Ids # {}
  BY <1>1, <1>2
<1>4. PICK x \in Ids : \A y \in Ids : ~(<<y, x>> \in OpToRel(<, Nat))
  BY <1>3, NatLessThanWellFounded, WFMin
<1>5. \A y \in Ids : x <= y
  <2> SUFFICES ASSUME NEW y \in Ids, y < x PROVE FALSE
    BY <1>3
  <2>1. x \in Nat /\ y \in Nat
    BY <1>3
  <2>2. <<y, x>> \in OpToRel(<, Nat)
    BY <2>1 DEF OpToRel
  <2> QED BY <1>4, <2>2
<1>6. PICK r \in todo : r.id = x
  OBVIOUS
<1>7. \A q \in todo : r.id <= q.id
  BY <1>5, <1>6
<1> QED BY <1>7 DEF Row

\* At the start there is neither a row nor a decision.
LEMMA InitReach == Init => ReachInvariant
<1> SUFFICES ASSUME Init PROVE ReachInvariant
  OBVIOUS
<1>1. \A f \in Files : DOMAIN rows[f] = {}
  BY DEF Init
<1>2. \A f \in Files, i \in Trades : decision[<<f, i>>] = "none"
  BY DEF Init
<1> QED BY <1>1, <1>2
        DEF Init, ReachInvariant, InBatch, RowsOfTrades, BatchKnown, DecidedRowsVoted

\* A step that leaves the trade of every row what it was, takes no vote back to
\* unknown and decides nothing right or wrong.
LEMMA ReachKept ==
  ASSUME EvaluationInvariant, ReachInvariant,
         UNCHANGED trade,
         split => split',
         \A f \in Files : \A i \in DOMAIN rows[f] :
           i \in DOMAIN rows'[f] /\ rows'[f][i].trade = rows[f][i].trade,
         \A f \in Files : \A i \in DOMAIN rows'[f] :
           i \in DOMAIN rows[f] \/ rows'[f][i].trade \in 1..trade,
         \A f \in Files, t \in Trades : votes[f][t] # "null" => votes'[f][t] # "null",
         \A f \in Files, i \in Trades :
           decision'[<<f, i>>] \in {"right", "wrong"} => decision'[<<f, i>>] = decision[<<f, i>>],
         todo' = {} \/ (todo' \subseteq todo /\ source' = source),
         InBatch' => todo' # {}
  PROVE  ReachInvariant'
<1>1. trade \in 0..Len(TradeActions) /\ source \in Files
  BY DEF EvaluationInvariant, EvaluatorType, RowsType
<1>2. RowsOfTrades'
  BY DEF ReachInvariant, RowsOfTrades
<1>3. BatchKnown'
  BY <1>1 DEF ReachInvariant, BatchKnown
<1>4. DecidedRowsVoted'
  <2> SUFFICES ASSUME ~split', NEW f \in Files, NEW i \in Trades,
                      decision'[<<f, i>>] \in {"right", "wrong"}
               PROVE  i \in DOMAIN rows'[f] /\ votes'[f][rows'[f][i].trade] # "null"
    BY DEF DecidedRowsVoted
  <2>1. i \in DOMAIN rows[f] /\ votes[f][rows[f][i].trade] # "null"
    BY DEF ReachInvariant, DecidedRowsVoted
  <2>2. rows[f][i].trade \in Trades
    <3>1. rows[f][i].trade \in 1..trade
      BY <2>1 DEF ReachInvariant, RowsOfTrades
    <3> QED BY <1>1, <3>1, TradesRange
  <2> QED BY <2>1, <2>2
<1> QED BY <1>2, <1>3, <1>4 DEF ReachInvariant

\* Going on drops the current row, or ends the batch.
LEMMA GoingOnKnows ==
  ASSUME NextRow
  PROVE  /\ todo' = {} \/ (todo' \subseteq todo /\ (source' = source \/ at = "select"))
         /\ InBatch' => todo' # {}
<1>1. /\ todo' = todo \ {Row}
      /\ at' = IF todo' = {} THEN "idle" ELSE "price"
      /\ todo' # {} /\ at # "select" => source' = source
  BY DEF NextRow, GoOnWith
<1> QED BY <1>1 DEF InBatch

\* An UPDATE by id that keeps the trade of its row keeps that of every row.
LEMMA UpdateKeepsTrades ==
  ASSUME EvaluationInvariant, NEW new, UpdateRow(new),
         Row.id \in DOMAIN rows[dbPath] =>
           new \in AnyRow /\ new.trade = rows[dbPath][Row.id].trade
  PROVE  \A f \in Files : /\ DOMAIN rows'[f] = DOMAIN rows[f]
                          /\ \A i \in DOMAIN rows[f] : rows'[f][i].trade = rows[f][i].trade
<1>1. RowsType /\ dbPath \in Files /\ RowsMade
  BY DEF EvaluationInvariant, EvaluatorType
<1>2. CASE Row.id \notin DOMAIN rows[dbPath]
  BY <1>1, <1>2, NoSuchRow
<1>3. CASE Row.id \in DOMAIN rows[dbPath]
  <2>1. /\ rows' \in [Files -> Seq(AnyRow)]
        /\ \A f \in Files : Len(rows'[f]) = Len(rows[f])
        /\ \A f \in Files : \A i \in 1..Len(rows[f]) :
             rows'[f][i] = IF f = dbPath /\ i = Row.id THEN new ELSE rows[f][i]
    BY <1>1, <1>3, UpdateRowEffect
  <2>2. \A f \in Files : DOMAIN rows[f] = 1..Len(rows[f])
    BY <1>1, RowsAreTrades
  <2>3. \A f \in Files : DOMAIN rows'[f] = 1..Len(rows'[f])
    BY <2>1
  <2> QED BY <1>3, <2>1, <2>2, <2>3
<1> QED BY <1>2, <1>3

\* A field of a stored row that is not its trade may be rewritten.
LEMMA RewrittenRows ==
  ASSUME EvaluationInvariant, Row.id \in DOMAIN rows[dbPath]
  PROVE  /\ Flagged(Stored) \in AnyRow
         /\ Flagged(Stored).trade = rows[dbPath][Row.id].trade
         /\ [Stored EXCEPT !.retries = @ + 1] \in AnyRow
         /\ [Stored EXCEPT !.retries = @ + 1].trade = rows[dbPath][Row.id].trade
<1>1. rows[dbPath] \in Seq(AnyRow)
  BY DEF EvaluationInvariant, EvaluatorType, RowsType
<1>2. PICK i \in DOMAIN rows[dbPath] : i = Row.id
  OBVIOUS
<1>3. PICK r \in AnyRow : r = rows[dbPath][i]
  BY <1>1
<1>4. Stored = r
  BY <1>2, <1>3 DEF Stored, BatchFile
<1>5. /\ [r EXCEPT !.evaluated = TRUE] \in AnyRow
      /\ [r EXCEPT !.evaluated = TRUE].trade = r.trade
      /\ [r EXCEPT !.retries = @ + 1] \in AnyRow
      /\ [r EXCEPT !.retries = @ + 1].trade = r.trade
  <2>1. [r EXCEPT !.evaluated = TRUE] \in AnyRow
    BY DEF AnyRow
  <2>2. [r EXCEPT !.evaluated = TRUE].trade = r.trade
    BY DEF AnyRow
  <2>3. [r EXCEPT !.retries = @ + 1] \in AnyRow
    BY DEF AnyRow
  <2>4. [r EXCEPT !.retries = @ + 1].trade = r.trade
    BY DEF AnyRow
  <2> QED BY <2>1, <2>2, <2>3, <2>4
<1>6. Flagged(Stored) = [r EXCEPT !.evaluated = TRUE]
  BY <1>4 DEF Flagged
<1>7. [Stored EXCEPT !.retries = @ + 1] = [r EXCEPT !.retries = @ + 1]
  BY <1>4
<1>8. rows[dbPath][Row.id].trade = r.trade
  BY <1>2, <1>3
<1>9. /\ Flagged(Stored) \in AnyRow
      /\ Flagged(Stored).trade = rows[dbPath][Row.id].trade
  BY <1>5, <1>6, <1>8, Zenon
<1>10. /\ [Stored EXCEPT !.retries = @ + 1] \in AnyRow
       /\ [Stored EXCEPT !.retries = @ + 1].trade = rows[dbPath][Row.id].trade
  BY <1>5, <1>7, <1>8, Zenon
<1> QED BY <1>9, <1>10

\* The steps of the agent thread: a vote of a trade that has no row yet, or the
\* row of the trade that is being saved.
LEMMA AgentKeepsReach ==
  ASSUME EvaluationInvariant, VotesInvariant, ReachInvariant,
         RecordVotes \/ InsertTrade \/ InsertPending
  PROVE  ReachInvariant'
<1>1. UNCHANGED <<at, dbPath, todo, source, split, decision>>
  BY DEF RecordVotes, InsertTrade, InsertPending, Limits, Past
<1>2. InBatch' => todo' # {}
  BY <1>1 DEF ReachInvariant, InBatch
<1>3. CASE UNCHANGED <<rows, votes, trade>>
  BY <1>1, <1>2, <1>3, ReachKept
<1>4. CASE RecordVotes /\ ~UNCHANGED votes
  <2>1. /\ UNCHANGED rows /\ trade' = trade + 1 /\ trade \in Nat
        /\ votes' = [votes EXCEPT ![mode][trade + 1] = "null"]
    BY <1>4, TradesRange DEF RecordVotes, VotesInvariant
  <2>2. \A f \in Files, t \in 1..trade : votes'[f][t] = votes[f][t]
    BY <2>1 DEF VotesInvariant, VotesType
  <2>3. RowsOfTrades'
    BY <2>1 DEF ReachInvariant, RowsOfTrades
  <2>4. BatchKnown'
    BY <1>1, <2>1 DEF ReachInvariant, BatchKnown
  <2>5. DecidedRowsVoted'
    BY <1>1, <2>1, <2>2 DEF ReachInvariant, RowsOfTrades, DecidedRowsVoted
  <2> QED BY <1>2, <2>3, <2>4, <2>5 DEF ReachInvariant
<1>5. CASE RecordVotes /\ UNCHANGED votes
  <2>1. UNCHANGED rows /\ trade' = trade + 1 /\ trade \in Nat
    BY <1>5, TradesRange DEF RecordVotes, VotesInvariant
  <2> QED BY <1>1, <1>2, <1>5, <2>1
          DEF ReachInvariant, RowsOfTrades, BatchKnown, DecidedRowsVoted
<1>6. CASE InsertPending /\ ~UNCHANGED rows
  <2> DEFINE row == [trade |-> trade, action |-> TradeActions[trade],
                     due |-> FALSE, evaluated |-> FALSE, retries |-> 0]
  <2>1. /\ saving = "trade" /\ UNCHANGED <<votes, trade>>
        /\ rows' = [rows EXCEPT ![mode] = Append(@, row)]
    BY <1>6 DEF InsertPending
  <2>2. /\ mode \in Files /\ RowsType /\ RowsMade
        /\ \A f \in Files : DOMAIN rows[f] = 1..Len(rows[f]) /\ Len(rows[f]) \in Nat
    BY RowsAreTrades DEF EvaluationInvariant, EvaluatorType
  <2>3. trade \in 1..trade
    <3>1. Len(rows[mode]) <= trade - 1 /\ trade \in Nat
      BY <2>1, <2>2, TradesRange DEF RowsMade, RowsType
    <3> QED BY <2>2, <3>1
  <2>4. row.trade = trade
    OBVIOUS
  <2> HIDE DEF row
  <2>5. PICK q \in Seq(AnyRow) : q = rows[mode]
    BY <2>2 DEF RowsType
  <2>6. PICK n \in Nat : n = Len(q)
    OBVIOUS
  <2>7. PICK s : s = Append(q, row)
    OBVIOUS
  <2>8. /\ DOMAIN s = 1..(n + 1) /\ s[n + 1] = row
        /\ \A i \in 1..n : s[i] = q[i]
    BY <2>6, <2>7
  <2>9. rows'[mode] = s /\ \A f \in Files : f # mode => rows'[f] = rows[f]
    BY <2>1, <2>2, <2>5, <2>7 DEF RowsType
  <2>10. \A f \in Files : \A i \in DOMAIN rows[f] :
           i \in DOMAIN rows'[f] /\ rows'[f][i].trade = rows[f][i].trade
    BY <2>2, <2>5, <2>6, <2>8, <2>9
  <2>11. \A f \in Files : \A i \in DOMAIN rows'[f] :
           i \in DOMAIN rows[f] \/ rows'[f][i].trade \in 1..trade
    <3> SUFFICES ASSUME NEW f \in Files, NEW i \in DOMAIN rows'[f], i \notin DOMAIN rows[f]
                 PROVE  rows'[f][i].trade \in 1..trade
      OBVIOUS
    <3>1. f = mode /\ i \in 1..(n + 1) /\ i \notin 1..n
      BY <2>2, <2>5, <2>6, <2>8, <2>9
    <3>2. i = n + 1
      BY <3>1
    <3> QED BY <2>3, <2>4, <2>8, <2>9, <3>1, <3>2
  <2> QED BY <1>1, <1>2, <2>1, <2>10, <2>11, ReachKept
<1>7. CASE InsertPending /\ UNCHANGED rows
  BY <1>3, <1>7 DEF InsertPending
<1> QED BY <1>3, <1>4, <1>5, <1>6, <1>7 DEF InsertTrade

\* Selecting: the batch remembers the rows as they are.
LEMMA SelectKeepsReach ==
  ASSUME EvaluationInvariant, ReachInvariant, SelectDue
  PROVE  ReachInvariant'
<1>1. UNCHANGED <<rows, votes, trade, decision, mode>> /\ (split => split') /\ at = "select"
  BY DEF SelectDue, Agent, Limits
<1>2. PICK rest : GoOnWith(rest) /\ (rest = Selected(mode) \/ rest = {})
  BY DEF SelectDue
<1>3. /\ todo' = rest
      /\ at' = IF rest = {} THEN "idle" ELSE "price"
      /\ rest # {} => source' = mode
  BY <1>1, <1>2 DEF GoOnWith
<1>4. BatchKnown'
  <2> SUFFICES ASSUME NEW r \in todo'
               PROVE  r.id \in DOMAIN rows[mode] /\ r.trade = rows[mode][r.id].trade
    BY <1>1, <1>3 DEF BatchKnown
  <2> QED BY <1>2, <1>3 DEF Selected
<1>5. RowsOfTrades' /\ DecidedRowsVoted'
  BY <1>1 DEF ReachInvariant, RowsOfTrades, DecidedRowsVoted
<1>6. InBatch' => todo' # {}
  BY <1>3 DEF InBatch
<1> QED BY <1>4, <1>5, <1>6 DEF ReachInvariant

\* Steps of a batch that write neither a vote nor a verdict.
LEMMA BatchKeepsReach ==
  ASSUME EvaluationInvariant, ReachInvariant,
         Begin \/ ResolvePath \/ FetchPrice \/ CountRetry \/ GiveUp \/ Flag
  PROVE  ReachInvariant'
<1>1. CASE Begin \/ ResolvePath
  <2>1. UNCHANGED <<rows, votes, trade, todo, source, split, decision>> /\ ~InBatch'
    BY <1>1 DEF Begin, ResolvePath, Agent, Past, InBatch
  <2> QED BY <2>1, ReachKept
<1>2. CASE FetchPrice
  <2>1. UNCHANGED <<rows, votes, trade, todo, source, split, decision>> /\ InBatch
    BY <1>2 DEF FetchPrice, Agent, Past, InBatch
  <2>2. InBatch' => todo' # {}
    BY <2>1 DEF ReachInvariant
  <2> QED BY <2>1, <2>2, ReachKept
<1>3. CASE CountRetry
  <2>1. UNCHANGED <<votes, trade, todo, source, split, decision>> /\ InBatch
    BY <1>3 DEF CountRetry, Agent, Past, InBatch
  <2>2. UNCHANGED rows \/ UpdateRow([Stored EXCEPT !.retries = @ + 1])
    BY <1>3 DEF CountRetry
  <2>3. \A f \in Files : /\ DOMAIN rows'[f] = DOMAIN rows[f]
                         /\ \A i \in DOMAIN rows[f] : rows'[f][i].trade = rows[f][i].trade
    BY <2>2, RewrittenRows, UpdateKeepsTrades
  <2>4. InBatch' => todo' # {}
    BY <2>1 DEF ReachInvariant
  <2> QED BY <2>1, <2>3, <2>4, ReachKept
<1>4. CASE GiveUp \/ Flag
  <2>1. UNCHANGED <<votes, trade, split>> /\ NextRow /\ at # "select"
    BY <1>4 DEF GiveUp, Flag, Agent
  <2>2. UNCHANGED rows \/ UpdateRow(Flagged(Stored))
    BY <1>4 DEF GiveUp, Flag
  <2>3. \A f \in Files : /\ DOMAIN rows'[f] = DOMAIN rows[f]
                         /\ \A i \in DOMAIN rows[f] : rows'[f][i].trade = rows[f][i].trade
    BY <2>2, RewrittenRows, UpdateKeepsTrades
  <2>4. UNCHANGED decision \/ decision' = [decision EXCEPT ![<<source, Row.id>>] = "abandoned"]
    BY <1>4 DEF GiveUp, Flag
  <2>5. \A f \in Files, i \in Trades :
          decision'[<<f, i>>] \in {"right", "wrong"} => decision'[<<f, i>>] = decision[<<f, i>>]
    BY <2>4 DEF EvaluationInvariant, EvaluatorType
  <2>6. /\ todo' = {} \/ (todo' \subseteq todo /\ source' = source)
        /\ InBatch' => todo' # {}
    BY <2>1, GoingOnKnows
  <2> QED BY <2>1, <2>3, <2>5, <2>6, ReachKept
<1> QED BY <1>1, <1>2, <1>3, <1>4

\* A verdict and the decision it stands for are about the same row, in the same
\* file: the vote that was unknown is the one of the trade that was decided.
LEMMA VerdictKeepsReach ==
  ASSUME EvaluationInvariant, VotesInvariant, ReachInvariant, WriteVerdict
  PROVE  ReachInvariant'
<1>1. UNCHANGED <<rows, trade, split>> /\ at = "verdict" /\ InBatch
  BY DEF WriteVerdict, InBatch
<1>2. CASE NextRow /\ UNCHANGED <<votes, decision>>
  <2>1. /\ todo' = {} \/ (todo' \subseteq todo /\ source' = source)
        /\ InBatch' => todo' # {}
    BY <1>1, <1>2, GoingOnKnows
  <2> QED BY <1>1, <1>2, <2>1, ReachKept
<1>3. CASE /\ AfterVerdict
           /\ votes' = [votes EXCEPT ![dbPath][Row.trade] = Resolved(@)]
           /\ decision' = [decision EXCEPT ![<<source, Row.id>>] = verdict]
  <2>1. UNCHANGED <<todo, source>> /\ Row \in todo /\ todo # {}
    BY <1>1, <1>3, RowInBatch DEF AfterVerdict
  <2>2. /\ source \in Files /\ dbPath \in Files
        /\ decision \in [Files \X Trades -> Verdicts \cup {"none", "abandoned"}]
        /\ votes \in [Files -> [Trades -> {"absent", "null", "right", "wrong"}]]
    BY DEF EvaluationInvariant, EvaluatorType, VotesInvariant, VotesType
  <2>3. PICK k \in DOMAIN rows[source] : k = Row.id /\ Row.trade = rows[source][k].trade
    BY <2>1 DEF ReachInvariant, BatchKnown
  <2>4. PICK t \in Trades : t = Row.trade
    <3>1. Row.trade \in 1..trade /\ trade \in 0..Len(TradeActions)
      BY <2>2, <2>3 DEF ReachInvariant, RowsOfTrades, VotesInvariant
    <3> QED BY <3>1, TradesRange
  <2>5. k \in Trades
    BY <2>2, <2>3, RowsAreTrades DEF EvaluationInvariant
  <2>6. \A f \in Files, u \in Trades :
          votes'[f][u] = IF f = dbPath /\ u = t THEN Resolved(votes[f][u]) ELSE votes[f][u]
    BY <1>3, <2>2, <2>4
  <2>7. \A f \in Files, u \in Trades : votes[f][u] # "null" => votes'[f][u] # "null"
    BY <2>6 DEF Resolved
  <2>8. \A f \in Files, i \in Trades :
          decision'[<<f, i>>] = IF f = source /\ i = k THEN verdict ELSE decision[<<f, i>>]
    BY <1>3, <2>2, <2>3, <2>5
  <2>9. DecidedRowsVoted'
    <3> SUFFICES ASSUME ~split, NEW f \in Files, NEW i \in Trades,
                        decision'[<<f, i>>] \in {"right", "wrong"}
                 PROVE  i \in DOMAIN rows[f] /\ votes'[f][rows[f][i].trade] # "null"
      BY <1>1 DEF DecidedRowsVoted
    <3>1. CASE f = source /\ i = k
      <4>1. source = dbPath /\ verdict \in {"right", "wrong"}
        BY <1>1, <2>8, <3>1 DEF EvaluationInvariant, OneFile
      <4>2. votes'[dbPath][t] = Resolved(votes[dbPath][t])
        BY <2>2, <2>6
      <4>3. votes'[dbPath][t] # "null"
        BY <4>1, <4>2 DEF Resolved
      <4> QED BY <2>3, <2>4, <3>1, <4>1, <4>3
    <3>2. CASE ~(f = source /\ i = k)
      <4>1. i \in DOMAIN rows[f] /\ votes[f][rows[f][i].trade] # "null"
        BY <2>8, <3>2 DEF ReachInvariant, DecidedRowsVoted
      <4>2. rows[f][i].trade \in Trades
        <5>1. rows[f][i].trade \in 1..trade /\ trade \in 0..Len(TradeActions)
          BY <4>1 DEF ReachInvariant, RowsOfTrades, VotesInvariant
        <5> QED BY <5>1, TradesRange
      <4> QED BY <2>7, <4>1, <4>2
    <3> QED BY <3>1, <3>2
  <2>10. RowsOfTrades' /\ BatchKnown'
    BY <1>1, <2>1 DEF ReachInvariant, RowsOfTrades, BatchKnown
  <2> QED BY <2>1, <2>9, <2>10 DEF ReachInvariant
<1> QED BY <1>2, <1>3 DEF WriteVerdict, RetryWhenUnwritten, BatchFile

\* A row that comes due, a mode switch, a process stop.
LEMMA OutsideKeepsReach ==
  ASSUME EvaluationInvariant, ReachInvariant, ComeDue \/ SwitchMode \/ Crash
  PROVE  ReachInvariant'
<1>1. CASE ComeDue
  <2>1. UNCHANGED <<votes, trade, at, todo, source, split, decision>>
    BY <1>1 DEF ComeDue, Agent, Past
  <2>2. \A f \in Files : rows[f] \in Seq(AnyRow)
    BY DEF EvaluationInvariant, RowsType
  <2>3. PICK f \in Files : \E k \in DOMAIN rows[f] : rows' = [rows EXCEPT ![f][k].due = TRUE]
    BY <1>1 DEF ComeDue
  <2>4. PICK k \in DOMAIN rows[f] : rows' = [rows EXCEPT ![f][k].due = TRUE]
    BY <2>3
  <2>5. PICK r \in AnyRow : r = rows[f][k]
    BY <2>2
  <2>6. PICK new : new = [r EXCEPT !.due = TRUE]
    OBVIOUS
  <2>7. new.trade = r.trade
    BY <2>6 DEF AnyRow
  <2>8. rows' = [rows EXCEPT ![f] = [rows[f] EXCEPT ![k] = new]]
    BY <2>4, <2>5, <2>6
  <2>9. /\ rows'[f] = [rows[f] EXCEPT ![k] = new]
        /\ \A g \in Files : g # f => rows'[g] = rows[g]
    BY <2>8 DEF EvaluationInvariant, RowsType
  <2>10. \A g \in Files : /\ DOMAIN rows'[g] = DOMAIN rows[g]
                          /\ \A i \in DOMAIN rows[g] : rows'[g][i].trade = rows[g][i].trade
    BY <2>5, <2>7, <2>9
  <2>11. InBatch' => todo' # {}
    BY <2>1 DEF ReachInvariant, InBatch
  <2> QED BY <2>1, <2>10, <2>11, ReachKept
<1>2. CASE SwitchMode
  <2>1. UNCHANGED <<rows, votes, trade, at, todo, source, split, decision>>
    BY <1>2 DEF SwitchMode, Agent, Past
  <2>2. InBatch' => todo' # {}
    BY <2>1 DEF ReachInvariant, InBatch
  <2> QED BY <2>1, <2>2, ReachKept
<1>3. CASE Crash
  <2>1. UNCHANGED <<rows, votes, trade, split, decision>> /\ todo' = {} /\ ~InBatch'
    BY <1>3 DEF Crash, InBatch
  <2> QED BY <2>1, ReachKept
<1> QED BY <1>1, <1>2, <1>3

\* Every step keeps the invariant.
LEMMA StepKeepsReach ==
  ASSUME EvaluationInvariant, VotesInvariant, ReachInvariant, [Next]_evars
  PROVE  ReachInvariant'
<1>1. CASE UNCHANGED evars
  BY <1>1 DEF evars, ReachInvariant, InBatch, RowsOfTrades, BatchKnown, DecidedRowsVoted
<1> QED BY <1>1, AgentKeepsReach, SelectKeepsReach, BatchKeepsReach, VerdictKeepsReach,
           OutsideKeepsReach DEF Next, Save, Evaluate

\* As long as no batch was selected from another file than the one it writes to, a
\* row that was judged and marked evaluated has its verdict in the votes of its
\* file, whatever statements failed, whenever the process stopped, and in whatever
\* mode the agent went on writing: a verdict that could not be written leaves the
\* row pending (evaluate_pending_trades, agents/shared/eval.py).
THEOREM VerdictsAlwaysReachVotes == Spec => []VerdictReachesVotes
<1>1. Init => VotesInvariant /\ ReachInvariant
  BY InitVotes, InitReach
<1>2. EvaluationInvariant /\ VotesInvariant /\ ReachInvariant /\ [Next]_evars
        => VotesInvariant' /\ ReachInvariant'
  BY StepKeepsVotes, StepKeepsReach
<1>3. EvaluationInvariant /\ ReachInvariant => VerdictReachesVotes
  <2> SUFFICES ASSUME EvaluationInvariant, ReachInvariant, ~split,
                      NEW f \in Files, NEW i \in DOMAIN rows[f],
                      decision[<<f, i>>] \in {"right", "wrong"}
               PROVE  votes[f][rows[f][i].trade] # "null"
    BY DEF VerdictReachesVotes
  <2>1. i \in Trades
    BY RowsAreTrades DEF EvaluationInvariant
  <2> QED BY <2>1 DEF ReachInvariant, DecidedRowsVoted
<1> QED BY <1>1, <1>2, <1>3, EvaluationInvariantHolds, PTL DEF Spec
================================================================================
