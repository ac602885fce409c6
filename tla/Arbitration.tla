----------------------------- MODULE Arbitration -----------------------------
(***************************************************************************)
(* The decision of a cycle (agents/multi.py): six specialists vote in      *)
(* parallel threads, arbitrate_node weighs the votes, filters them and, in *)
(* LIVE, lets an LLM decide under vetoes; an unsure decision passes by the *)
(* research node on its way to the risk check, which is TradingCycle's.    *)
(*                                                                         *)
(* Every node reads the mode for itself, and a mode request may come       *)
(* between two of them.  SIM and PAPER follow the same rules here and are  *)
(* one mode.  What the LLM answers is a choice from the sets of answers,   *)
(* the validators of agents/shared/schemas.py already applied; an answer   *)
(* that names another agent than the one asked is left out, and so is the  *)
(* size of a BUY.  No vote of a technician carries a sell_pct: its schema  *)
(* drops the field, so the sizing alone decides how much a SELL sells.     *)
(* Percentages are integers; a score is in 1/40 of a weight times percent. *)
(***************************************************************************)
EXTENDS Integers, FiniteSets

CONSTANTS
  Symbols,         \* the watchlist
  FirstSymbol,     \* its head, what the rules name in a HOLD
  NoSymbol,        \* the empty symbol of a HOLD or of an incomplete answer
  MaxPositions,    \* MAX_POSITIONS
  Scenes,          \* books and markets a cycle may begin with
  Accuracies,      \* accuracy profiles agent_memory may hold
  Unknown,         \* the accuracy of an agent with too few evaluated votes
  TechAnswers, AnalystAnswers, RiskAnswers, MacroAnswers, EconomistAnswers,
  GeoAnswers,      \* what the LLM may vote for each specialist
  ArbiterAnswers   \* what it may decide

Agents == {"technician", "analyst", "risk_manager", "macro_watcher",
           "economist", "geopolitician"}
SlowAgents == {"economist", "geopolitician"}
Directional == {"technician", "analyst"}

Actions == {"BUY", "SELL", "HOLD"}
Targets == Symbols \cup {NoSymbol}
DirectedVotes == [action : Actions, symbol : Targets, conf : 0..100]
Sizings == {"FULL", "HALF", "QUARTER", "SKIP"}

ASSUME ArbitrationAssumption ==
  /\ NoSymbol \notin Symbols /\ FirstSymbol \in Symbols /\ MaxPositions \in Nat
  /\ Accuracies \subseteq [Agents -> (0..100) \cup {Unknown}]
  /\ Scenes \subseteq [held : SUBSET Symbols, quoted : SUBSET Symbols, health : Nat,
                       mood : -100..100, exposed : BOOLEAN]
  /\ \A sc \in Scenes : Cardinality(sc.held) <= MaxPositions
  /\ Unknown \notin Nat
  /\ TechAnswers \cup AnalystAnswers \subseteq DirectedVotes
  /\ RiskAnswers \subseteq [score : 0..10, sizing : Sizings]
  /\ MacroAnswers \subseteq {"risk-on", "risk-off", "transitional"}
  /\ EconomistAnswers \subseteq -100..100 /\ GeoAnswers \subseteq 0..10
  /\ \A d \in ArbiterAnswers :
       d \in DirectedVotes \/ d = [action |-> NoSymbol, symbol |-> NoSymbol, conf |-> 0]

VARIABLES
  live,        \* get_runtime_mode() = "live": the LLM decides
  step,        \* "vote", "route", "research", "check" or "failed"
  scene,       \* the book and the market as the cycle read them
  votes,       \* agent -> its vote, for those that have voted in this cycle
  slow,        \* _slow_agent_cache: agent -> its last LLM vote, while it is fresh
  correlated,  \* the symbols _portfolio_correlation found above 0.7
  weights,     \* the accuracies the weights of the arbitration came from
  decision,    \* the decision of the arbiter
  asked        \* an LLM vote was cast in this cycle

vars == <<live, step, scene, votes, slow, correlated, weights, decision, asked>>
Reading == <<correlated, weights>>

Vote(action, symbol, conf) == [action |-> action, symbol |-> symbol, conf |-> conf]
NoDecision == [action |-> "HOLD", symbol |-> NoSymbol, conf |-> 0, sellPct |-> 100]

held == scene.held
quoted == scene.quoted  \* the symbols that have a price
Room == Cardinality(held) < MaxPositions

-----------------------------------------------------------------------------
(* The rules that replace the LLM in SIM and PAPER. *)

\* sim_technician sells the most overbought holding, else buys the most oversold
\* symbol; the RSI may single out any that has a price.
SellsAnyQuoted == quoted
Sellable == held \cap quoted

RuleTech ==
  {Vote("SELL", s, 74) : s \in Sellable}
  \cup (IF Room THEN {Vote("BUY", s, 79) : s \in quoted} ELSE {})
  \cup {Vote("HOLD", FirstSymbol, 58)}

Capped(n) == IF n > 85 THEN 85 ELSE n
Strength(mood) == IF mood < 0 THEN -mood ELSE mood

RuleAnalyst ==
  LET conf == Capped(65 + (20 * Strength(scene.mood)) \div 100)
      candidates == quoted \ held
  IN
  IF scene.mood > 15 /\ Room
    THEN {Vote("BUY", s, conf) : s \in IF candidates = {} THEN {FirstSymbol} ELSE candidates}
  ELSE IF scene.mood < -15 /\ held # {}
    THEN {Vote("SELL", s, conf) : s \in held}
  ELSE {Vote("HOLD", FirstSymbol, 55)}

RuleRisk ==
  CASE scene.health < 70 -> [score |-> 9, sizing |-> "SKIP"]
    [] scene.health \in 70..84 -> [score |-> 7, sizing |-> "QUARTER"]
    [] scene.health > 84 /\ scene.exposed -> [score |-> 6, sizing |-> "HALF"]
    [] OTHER -> [score |-> 2, sizing |-> "FULL"]

RuleMacro ==
  IF scene.health < 70 THEN "risk-off"
  ELSE IF scene.health > 130 \/ scene.mood > 15 THEN "risk-on"
  ELSE IF scene.mood < -15 THEN "risk-off" ELSE "transitional"

RuleEconomist ==
  IF scene.health < 70 THEN -70 ELSE IF scene.health > 130 THEN 50 ELSE 0

RuleGeo ==
  IF scene.mood < -30 THEN 7 ELSE IF scene.mood > 30 THEN 2 ELSE 4

RuleVotes(a) ==
  CASE a = "technician" -> RuleTech
    [] a = "analyst" -> RuleAnalyst
    [] a = "risk_manager" -> {RuleRisk}
    [] a = "macro_watcher" -> {RuleMacro}
    [] a = "economist" -> {RuleEconomist}
    [] a = "geopolitician" -> {RuleGeo}

Answers(a) ==
  CASE a = "technician" -> TechAnswers
    [] a = "analyst" -> AnalystAnswers
    [] a = "risk_manager" -> RiskAnswers
    [] a = "macro_watcher" -> MacroAnswers
    [] a = "economist" -> EconomistAnswers
    [] a = "geopolitician" -> GeoAnswers

-----------------------------------------------------------------------------
(* The specialists. *)

With(f, a, v) == [b \in DOMAIN f \cup {a} |-> IF b = a THEN v ELSE f[b]]

CastByRules(a) ==
  /\ ~live
  /\ \E v \in RuleVotes(a) : votes' = With(votes, a, v)
  /\ UNCHANGED <<slow, asked>>

\* A fresh vote of a slow agent is cast again, without a call.
CastFromCache(a) ==
  /\ live /\ a \in DOMAIN slow
  /\ votes' = With(votes, a, slow[a])
  /\ asked' = TRUE
  /\ UNCHANGED slow

CastByLlm(a) ==
  /\ live /\ a \notin DOMAIN slow
  /\ \E v \in Answers(a) :
       /\ votes' = With(votes, a, v)
       /\ slow' = IF a \in SlowAgents THEN With(slow, a, v) ELSE slow
  /\ asked' = TRUE

Cast(a) ==
  /\ step = "vote" /\ a \notin DOMAIN votes
  /\ CastByRules(a) \/ CastFromCache(a) \/ CastByLlm(a)
  /\ UNCHANGED <<live, step, scene, Reading, decision>>

-----------------------------------------------------------------------------
(* The weights. *)

StaticWeight ==
  [technician |-> 28, analyst |-> 32, risk_manager |-> 15, macro_watcher |-> 10,
   economist |-> 10, geopolitician |-> 5]

Unevaluated == [a \in Agents |-> Unknown]

SumOver(f) ==
  f["technician"] + f["analyst"] + f["risk_manager"] + f["macro_watcher"]
  + f["economist"] + f["geopolitician"]

Known(acc, a) == IF acc[a] = Unknown THEN 0 ELSE acc[a]

\* An accuracy taken as a share of all the accuracies.
ShareOfAccuracy(acc, a) ==
  IF acc[a] = Unknown THEN 100 * StaticWeight[a]
  ELSE 70 * StaticWeight[a]
       + (IF acc[a] = 0 THEN 0
          ELSE 30 * ((100 * acc[a]) \div SumOver([b \in Agents |-> Known(acc, b)])))

Blended(acc, a) ==
  IF acc[a] = Unknown THEN 100 * StaticWeight[a] ELSE 70 * StaticWeight[a] + 30 * acc[a]

Weight(acc) == [a \in Agents |-> Blended(acc, a)]
Total(acc) == SumOver(Weight(acc))

\* The accuracies behind the weights: read from the file of either mode up to ten
\* minutes ago, or none, when reading them failed.
Profiles == {Unevaluated} \cup Accuracies

-----------------------------------------------------------------------------
(* The composite score of arbitrate_node. *)

Support(acc, action) ==
  LET For(a) == IF votes[a].action = action THEN Weight(acc)[a] * votes[a].conf ELSE 0
  IN 40 * (For("technician") + For("analyst"))

HoldBaseline(acc) ==
  8 * Weight(acc)["risk_manager"] + 5 * Weight(acc)["macro_watcher"]
  + 5 * Weight(acc)["economist"] + 2 * Weight(acc)["geopolitician"]

RiskHigh == votes["risk_manager"].score > 8
RiskOff == votes["macro_watcher"] = "risk-off"
Headwind == votes["economist"] < -50
GeoHigh == votes["geopolitician"] > 7

Times(n, percent) == (n * (percent \div 5)) \div 20
Damp(n, when, percent) == IF when THEN Times(n, percent) ELSE n

BuyScore(acc) ==
  Damp(Damp(Damp(Damp(Support(acc, "BUY"), RiskHigh, 15), RiskOff, 50), Headwind, 60),
       GeoHigh, 50)

Scores(acc) ==
  [BUY |-> BuyScore(acc), SELL |-> Support(acc, "SELL"),
   HOLD |-> Support(acc, "HOLD") + 100 * HoldBaseline(acc)]

\* max() over the dictionary: the first of equals.
Best(scores) ==
  IF scores["BUY"] >= scores["SELL"] /\ scores["BUY"] >= scores["HOLD"] THEN "BUY"
  ELSE IF scores["SELL"] >= scores["HOLD"] THEN "SELL" ELSE "HOLD"

Confidence(acc, score) == score \div (40 * Total(acc))

\* The symbol of the most confident of those who voted for the action.
Target(action) ==
  LET t == votes["technician"]
      a == votes["analyst"]
  IN IF a.action = action /\ a.conf > 0 /\ (t.action # action \/ a.conf > t.conf)
       THEN a.symbol
     ELSE IF t.action = action /\ t.conf > 0 THEN t.symbol ELSE NoSymbol

TooCorrelated(symbol, corr) == symbol # NoSymbol /\ held # {} /\ symbol \in corr

KeepsTarget(action, was) == Target(was)
NewTarget(action, was) == Target(action)

\* The decision of the weighted votes, a correlated BUY damped once more.
Composite(acc, corr) ==
  LET scores == Scores(acc)
      first == Best(scores)
      damped == [scores EXCEPT !["BUY"] = Times(scores["BUY"], 75)]
      second == Best(damped)
  IN IF first = "BUY" /\ TooCorrelated(Target("BUY"), corr)
       THEN Vote(second, NewTarget(second, first), Confidence(acc, damped[second]))
       ELSE Vote(first, Target(first), Confidence(acc, scores[first]))

-----------------------------------------------------------------------------
(* The LLM's decision and the vetoes after it. *)

\* What an answer leaves open keeps the composite's value; one that cannot be
\* parsed, of action NoSymbol, leaves all.
AnswerAsIs(composite, answer) == answer
Merged(composite, answer) ==
  IF answer.action = NoSymbol THEN composite
  ELSE [answer EXCEPT !.symbol = IF answer.symbol = NoSymbol THEN composite.symbol
                                 ELSE answer.symbol]

OnlyRiskVetoes(symbol, corr) == RiskHigh
Vetoes(symbol, corr) == RiskHigh \/ GeoHigh \/ Headwind \/ TooCorrelated(symbol, corr)

AfterVetoes(d, corr) ==
  IF d.action = "BUY" /\ Vetoes(d.symbol, corr) THEN [d EXCEPT !.action = "HOLD", !.conf = 30]
  ELSE d

PctOfSizing(sizing) ==
  CASE sizing = "FULL" -> 100 [] sizing = "HALF" -> 50
    [] sizing = "QUARTER" -> 25 [] sizing = "SKIP" -> 0

\* A sizing of SKIP is about buying: it does not turn a sale into nothing.
SellPct(sizing) == IF sizing = "SKIP" THEN 100 ELSE PctOfSizing(sizing)

IsPyramid(d) == d.action = "BUY" /\ d.symbol \in held

Final(d) ==
  [action |-> d.action, symbol |-> d.symbol,
   conf |-> IF IsPyramid(d) THEN Times(d.conf, 80) ELSE d.conf,
   sellPct |-> IF d.action = "SELL" THEN SellPct(votes["risk_manager"].sizing) ELSE 100]

NoVotes == [a \in {} |-> NoSymbol]

\* Nothing reads the votes of the cycle after this.
Arbitrate ==
  /\ step = "vote" /\ DOMAIN votes = Agents
  /\ \E acc \in Profiles, corr \in SUBSET Symbols :
       /\ weights' = acc /\ correlated' = corr
       /\ IF live
            THEN \E answer \in ArbiterAnswers :
                   decision' = Final(AfterVetoes(Merged(Composite(acc, corr), answer), corr))
            ELSE decision' = Final(Composite(acc, corr))
  /\ step' = "route"
  /\ votes' = NoVotes
  /\ UNCHANGED <<live, scene, slow, asked>>

\* _route_arbitrate; research is skipped when fetch_data found the prices flat.
Route ==
  /\ step = "route"
  /\ \E flat \in BOOLEAN :
       step' = IF live /\ ~flat /\ decision.conf < 72 THEN "research" ELSE "check"
  /\ UNCHANGED <<live, scene, votes, slow, Reading, decision, asked>>

\* research_node adds to the news, which nothing reads any more; sim_research,
\* reached when the mode has changed since, replaces the confidence.
Research ==
  /\ step = "research"
  /\ decision' = IF live THEN decision ELSE [decision EXCEPT !.conf = 75]
  /\ step' = "check"
  /\ UNCHANGED <<live, scene, votes, slow, Reading, asked>>

-----------------------------------------------------------------------------
(* The next cycle, the mode and the passing of time. *)

\* A node raised: the cycle's votes are lost, the slow agents' cache is not.
Fail ==
  /\ step \in {"vote", "route", "research"}
  /\ step' = "failed"
  /\ votes' = NoVotes /\ decision' = NoDecision
  /\ UNCHANGED <<live, scene, slow, Reading, asked>>

BeginCycle ==
  /\ step \in {"check", "failed"}
  /\ scene' \in Scenes
  /\ step' = "vote"
  /\ decision' = NoDecision /\ asked' = FALSE
  /\ correlated' = {} /\ weights' = Unevaluated
  /\ UNCHANGED <<live, votes, slow>>

SwitchMode ==
  /\ live' = ~live
  /\ UNCHANGED <<step, scene, votes, slow, Reading, decision, asked>>

\* The end of SLOW_AGENT_TTL_SEC.
Expire ==
  /\ \E a \in DOMAIN slow : slow' = [b \in DOMAIN slow \ {a} |-> slow[b]]
  /\ UNCHANGED <<live, step, scene, votes, Reading, decision, asked>>

Init ==
  /\ live = FALSE /\ step = "vote"
  /\ scene \in Scenes
  /\ votes = NoVotes /\ slow = NoVotes
  /\ correlated = {} /\ weights = Unevaluated
  /\ decision = NoDecision /\ asked = FALSE

Next ==
  \/ \E a \in Agents : Cast(a)
  \/ Arbitrate \/ Route \/ Research \/ Fail \/ BeginCycle \/ SwitchMode \/ Expire

Spec == Init /\ [][Next]_vars

-----------------------------------------------------------------------------
(* Properties. *)

TypeOK ==
  /\ live \in BOOLEAN /\ asked \in BOOLEAN
  /\ step \in {"vote", "route", "research", "check", "failed"}
  /\ scene \in Scenes /\ correlated \subseteq Symbols /\ weights \in Profiles
  /\ DOMAIN votes \subseteq Agents /\ DOMAIN slow \subseteq SlowAgents
  /\ decision \in [action : Actions, symbol : Targets, conf : 0..100,
                   sellPct : 0..100]

Arbitrates == step = "vote" /\ step' = "route"

\* "The last line of defence for capital preservation": with a risk score above 8,
\* a geopolitical risk above 7 or an economic score below -0.5 no BUY is decided,
\* neither by the LLM, whatever it answers, nor by the rules on votes of their own,
\* whatever the weights have learned; and the LLM buys nothing correlated.
FiltersHold ==
  [][Arbitrates /\ decision'.action = "BUY" /\ (live \/ ~asked) =>
       /\ ~RiskHigh /\ ~GeoHigh /\ ~Headwind
       /\ live => ~TooCorrelated(decision'.symbol, correlated')]_vars

\* A trade the rules decide is one a technician or an analyst voted for, action
\* and symbol together, also when the damping of a correlated BUY changes the
\* winner.
TargetWasVoted ==
  [][Arbitrates /\ ~live /\ decision'.action # "HOLD" =>
       \E a \in Directional : /\ votes[a].action = decision'.action
                              /\ votes[a].symbol = decision'.symbol]_vars

\* What the rules decide on votes of their own fits the book of this cycle: a sale
\* is of a symbol that is held, a buy finds room among the positions.  Votes of a
\* cycle that failed, on a book that has changed since, decide nothing, nor does the
\* symbol of a BUY that lost to a sale once it was damped.
RulesFitTheBook ==
  [][Arbitrates /\ ~live /\ ~asked =>
       /\ decision'.action = "SELL" => decision'.symbol \in held
       /\ decision'.action = "BUY" => Room]_vars

\* What an agent weighs among the six grows with its own accuracy, whatever the
\* others' is: being right ten times in a hundred is not worth being always right.
AccuracyCounts ==
  \A a \in Agents, n \in {10, 50, 100} :
    weights[a] # Unknown /\ n > weights[a] =>
      LET better == [weights EXCEPT ![a] = n]
      IN Weight(better)[a] * Total(weights) > Weight(weights)[a] * Total(better)
=============================================================================
