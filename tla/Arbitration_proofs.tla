-------------------------- MODULE Arbitration_proofs --------------------------
(***************************************************************************)
(* What a decision stands on and what it may never be, for any watchlist,  *)
(* any answers of the LLM and any learned accuracies.                      *)
(***************************************************************************)
EXTENDS Arbitration, TLAPS

\* The votes the decision reads are well formed, wherever they come from, and the
\* cache holds none of them.
VotesTyped == \A a \in Directional : a \in DOMAIN votes => votes[a] \in DirectedVotes

ArbitrationInvariant ==
  /\ scene \in Scenes
  /\ DOMAIN slow \subseteq SlowAgents
  /\ VotesTyped

-----------------------------------------------------------------------------
(* The votes. *)

\* A rule's vote on a direction: its confidence is a percentage, its symbol one of
\* the watchlist.
LEMMA RuleVotesTyped ==
  ASSUME scene \in Scenes
  PROVE  RuleTech \cup RuleAnalyst \subseteq DirectedVotes
<1>1. scene.held \subseteq Symbols /\ scene.quoted \subseteq Symbols /\ scene.mood \in -100..100 /\ FirstSymbol \in Symbols
  BY ArbitrationAssumption
<1>2. \A action \in Actions, s \in Targets, n \in 0..100 : Vote(action, s, n) \in DirectedVotes
  BY DEF Vote, DirectedVotes
<1>3. RuleTech \subseteq DirectedVotes
  BY <1>1, <1>2 DEF RuleTech, Sellable, held, quoted, Actions, Targets
<1> DEFINE conf == Capped(65 + (20 * Strength(scene.mood)) \div 100)
<1>4. conf \in 0..100
  <2>1. Strength(scene.mood) \in 0..100
    BY <1>1 DEF Strength
  <2> DEFINE m == Strength(scene.mood)
  <2>2. \A n \in 0..100 : (20 * n) \div 100 \in Nat
    OBVIOUS
  <2>3. (20 * m) \div 100 \in Nat
    BY <2>1, <2>2
  <2> HIDE DEF m
  <2> QED BY <2>3 DEF Capped, m
<1> HIDE DEF conf
<1>5. RuleAnalyst \subseteq DirectedVotes
  <2>1. RuleAnalyst \subseteq
          {Vote("BUY", s, conf) : s \in Symbols} \cup {Vote("SELL", s, conf) : s \in Symbols}
          \cup {Vote("HOLD", FirstSymbol, 55)}
    BY <1>1 DEF RuleAnalyst, held, quoted, conf
  <2> QED BY <2>1, <1>1, <1>2, <1>4 DEF Actions, Targets
<1> QED BY <1>3, <1>5

\* A vote cast by rules, cache or LLM is well formed (multi.py, the agent nodes).
LEMMA CastKeepsVotes ==
  ASSUME ArbitrationInvariant, NEW a \in Agents, Cast(a)
  PROVE  ArbitrationInvariant'
<1>1. a \notin DOMAIN votes /\ scene' = scene
  BY DEF Cast
<1>2. scene' \in Scenes
  BY <1>1 DEF ArbitrationInvariant
<1>3. \A v : votes' = With(votes, a, v) =>
        /\ DOMAIN votes' = DOMAIN votes \cup {a}
        /\ votes'[a] = v /\ \A b \in DOMAIN votes : votes'[b] = votes[b]
  BY <1>1 DEF With
<1>4. RuleTech \cup RuleAnalyst \subseteq DirectedVotes
  BY RuleVotesTyped DEF ArbitrationInvariant
<1>5. DOMAIN slow' \subseteq SlowAgents
  BY DEF Cast, CastByRules, CastFromCache, CastByLlm, With, ArbitrationInvariant
<1>6. PICK v : /\ votes' = With(votes, a, v)
               /\ a \in SlowAgents \/ v \in RuleVotes(a) \cup Answers(a)
  BY DEF Cast, CastByRules, CastFromCache, CastByLlm, ArbitrationInvariant
<1>7. a \in Directional => v \in DirectedVotes
  BY <1>4, <1>6, ArbitrationAssumption DEF Directional, SlowAgents, RuleVotes, Answers
<1>8. VotesTyped'
  BY <1>3, <1>6, <1>7 DEF ArbitrationInvariant, VotesTyped
<1> QED BY <1>2, <1>5, <1>8 DEF ArbitrationInvariant

\* Every vote the arbiter reads is well formed, in any sequence of cycles
\* (agents/multi.py).
THEOREM ArbitrationInvariantHolds == Spec => []ArbitrationInvariant
<1>1. Init => ArbitrationInvariant
  BY DEF Init, NoVotes, ArbitrationInvariant, VotesTyped
<1>2. ArbitrationInvariant /\ [Next]_vars => ArbitrationInvariant'
  <2> SUFFICES ASSUME ArbitrationInvariant, [Next]_vars PROVE ArbitrationInvariant'
    OBVIOUS
  <2>1. CASE UNCHANGED vars
    BY <2>1 DEF vars, ArbitrationInvariant, VotesTyped
  <2>2. CASE Route \/ SwitchMode
    BY <2>2 DEF Route, SwitchMode, ArbitrationInvariant, VotesTyped
  <2>3. CASE Research
    BY <2>3 DEF Research, ArbitrationInvariant, VotesTyped
  <2>4. CASE Arbitrate \/ Fail \/ BeginCycle
    BY <2>4 DEF Arbitrate, Fail, BeginCycle, NoVotes, ArbitrationInvariant, VotesTyped,
       Directional
  <2>5. CASE Expire
    BY <2>5 DEF Expire, ArbitrationInvariant, VotesTyped
  <2> QED BY <2>1, <2>2, <2>3, <2>4, <2>5, CastKeepsVotes DEF Next
<1> QED BY <1>1, <1>2, PTL DEF Spec

-----------------------------------------------------------------------------
(* The winner of the composite score. *)

Voted(action) == \E a \in Directional : votes[a].action = action /\ votes[a].conf > 0

\* Every agent of the graph has voted.
AllVoted == DOMAIN votes = Agents /\ VotesTyped

\* Every specialist weighs something, whatever it was wrong about (_dynamic_weights).
LEMMA WeightsArePositive ==
  ASSUME NEW acc \in Profiles, NEW a \in Agents
  PROVE  Weight(acc)[a] \in Nat \ {0}
<1>1. acc[a] = Unknown \/ acc[a] \in Nat
  BY ArbitrationAssumption DEF Profiles, Unevaluated
<1>2. StaticWeight[a] \in Nat \ {0}
  BY DEF Agents, StaticWeight
<1>3. Blended(acc, a) \in Nat \ {0}
  BY <1>1, <1>2 DEF Blended
<1> QED BY <1>3 DEF Weight

\* What nobody voted for has no support (arbitrate_node).
LEMMA SupportCounted ==
  ASSUME AllVoted, NEW acc \in Profiles, NEW action
  PROVE  Support(acc, action) \in Nat /\ (~Voted(action) => Support(acc, action) = 0)
<1> DEFINE For(a) == IF votes[a].action = action THEN Weight(acc)[a] * votes[a].conf ELSE 0
<1>1. ASSUME NEW a \in Directional
      PROVE  For(a) \in Nat /\ (~Voted(action) => For(a) = 0)
  <2>1. Weight(acc)[a] \in Nat /\ votes[a].conf \in Nat
    BY WeightsArePositive DEF AllVoted, VotesTyped, DirectedVotes, Agents, Directional
  <2> DEFINE w == Weight(acc)[a]
             n == votes[a].conf
  <2> HIDE DEF w, n
  <2>2. w * n \in Nat /\ (n = 0 => w * n = 0)
    BY <2>1 DEF w, n
  <2>3. ~Voted(action) /\ votes[a].action = action => n = 0
    BY <2>1 DEF Voted, n
  <2> QED BY <2>2, <2>3 DEF w, n
<1>2. Support(acc, action) = 40 * (For("technician") + For("analyst"))
  BY DEF Support
<1> HIDE DEF For
<1> QED BY <1>1, <1>2 DEF Directional

\* Damping a score leaves a score, and nothing of nothing.
LEMMA DampedScore ==
  ASSUME NEW n \in Nat, NEW when \in BOOLEAN, NEW percent \in {15, 50, 60, 75}
  PROVE  /\ Times(n, percent) \in Nat /\ (n = 0 => Times(n, percent) = 0)
         /\ Damp(n, when, percent) \in Nat /\ (n = 0 => Damp(n, when, percent) = 0)
<1>1. Times(n, percent) \in Nat /\ (n = 0 => Times(n, percent) = 0)
  BY DEF Times
<1> QED BY <1>1 DEF Damp

\* The four dampings make nothing of a BUY nobody voted for (arbitrate_node).
LEMMA BuyScoreCounted ==
  ASSUME AllVoted, NEW acc \in Profiles
  PROVE  BuyScore(acc) \in Nat /\ (~Voted("BUY") => BuyScore(acc) = 0)
<1> DEFINE s0 == Support(acc, "BUY")
           s1 == Damp(s0, RiskHigh, 15)
           s2 == Damp(s1, RiskOff, 50)
           s3 == Damp(s2, Headwind, 60)
           s4 == Damp(s3, GeoHigh, 50)
<1>0. /\ RiskHigh \in BOOLEAN /\ RiskOff \in BOOLEAN /\ Headwind \in BOOLEAN
      /\ GeoHigh \in BOOLEAN
  BY DEF RiskHigh, RiskOff, Headwind, GeoHigh
<1>1. BuyScore(acc) = s4
  BY DEF BuyScore
<1>2. s0 \in Nat /\ (~Voted("BUY") => s0 = 0)
  BY SupportCounted
<1> HIDE DEF s0
<1>3. s1 \in Nat /\ (s0 = 0 => s1 = 0)
  BY <1>0, <1>2, DampedScore
<1> HIDE DEF s1
<1>4. s2 \in Nat /\ (s1 = 0 => s2 = 0)
  BY <1>0, <1>3, DampedScore
<1> HIDE DEF s2
<1>5. s3 \in Nat /\ (s2 = 0 => s3 = 0)
  BY <1>0, <1>4, DampedScore
<1> HIDE DEF s3
<1>6. s4 \in Nat /\ (s3 = 0 => s4 = 0)
  BY <1>0, <1>5, DampedScore
<1> QED BY <1>1, <1>2, <1>3, <1>4, <1>5, <1>6

\* An action nobody voted for scores nothing, and HOLD always scores something.
Fair(scores) ==
  /\ scores["BUY"] \in Nat /\ scores["SELL"] \in Nat /\ scores["HOLD"] \in Nat \ {0}
  /\ ~Voted("BUY") => scores["BUY"] = 0
  /\ ~Voted("SELL") => scores["SELL"] = 0

\* The scores are fair, before and after the damping of a correlated BUY.
LEMMA ScoresAreFair ==
  ASSUME AllVoted, NEW acc \in Profiles
  PROVE  /\ Fair(Scores(acc))
         /\ Fair([Scores(acc) EXCEPT !["BUY"] = Times(Scores(acc)["BUY"], 75)])
<1>1. HoldBaseline(acc) \in Nat \ {0}
  <2>1. \A a \in Agents : Weight(acc)[a] \in Nat \ {0}
    BY WeightsArePositive
  <2> QED BY <2>1 DEF HoldBaseline, Agents
<1>2. Support(acc, "HOLD") \in Nat
  BY SupportCounted
<1>3. Support(acc, "SELL") \in Nat /\ (~Voted("SELL") => Support(acc, "SELL") = 0)
  BY SupportCounted
<1>4. BuyScore(acc) \in Nat /\ (~Voted("BUY") => BuyScore(acc) = 0)
  BY BuyScoreCounted
<1>5. Times(BuyScore(acc), 75) \in Nat /\ (BuyScore(acc) = 0 => Times(BuyScore(acc), 75) = 0)
  BY <1>4, DampedScore
<1> QED BY <1>1, <1>2, <1>3, <1>4, <1>5 DEF Scores, Fair

\* Among fair scores, a winner other than HOLD was voted for.
LEMMA WinnerWasVoted ==
  ASSUME NEW scores, Fair(scores), Best(scores) # "HOLD"
  PROVE  Best(scores) \in {"BUY", "SELL"} /\ Voted(Best(scores))
BY DEF Best, Fair

\* The symbol of an action somebody voted for is that of one who did.
LEMMA TargetOfWinner ==
  ASSUME AllVoted, NEW action, Voted(action)
  PROVE  \E a \in Directional : votes[a].action = action /\ votes[a].symbol = Target(action)
<1>1. votes["technician"].conf \in Nat /\ votes["analyst"].conf \in Nat
  BY DEF AllVoted, VotesTyped, DirectedVotes, Agents, Directional
<1> QED BY <1>1 DEF Voted, Target, Directional

InFavour(d) == \E a \in Directional : /\ votes[a].action = d.action
                                      /\ votes[a].symbol = d.symbol

\* What the rules decide, if not HOLD, is what an agent voted for (arbitrate_node).
LEMMA RulesFollowAVote ==
  ASSUME ArbitrationInvariant, Next, Arbitrates, ~live, decision'.action # "HOLD"
  PROVE  Arbitrate /\ InFavour(decision')
<1>1. ASSUME AllVoted, NEW acc \in Profiles, NEW corr, Composite(acc, corr).action # "HOLD"
      PROVE  InFavour(Composite(acc, corr))
  <2> DEFINE scores == Scores(acc)
             damped == [scores EXCEPT !["BUY"] = Times(scores["BUY"], 75)]
  <2>1. Fair(scores) /\ Fair(damped)
    BY <1>1, ScoresAreFair
  <2> HIDE DEF scores, damped
  <2>2. \A s : Fair(s) /\ Best(s) # "HOLD" =>
          InFavour([action |-> Best(s), symbol |-> Target(Best(s))])
    BY <1>1, WinnerWasVoted, TargetOfWinner DEF InFavour
  <2>3. \/ /\ Composite(acc, corr).action = Best(scores)
           /\ Composite(acc, corr).symbol = Target(Best(scores))
        \/ /\ Composite(acc, corr).action = Best(damped)
           /\ Composite(acc, corr).symbol = Target(Best(damped))
    BY DEF Composite, NewTarget, Vote, scores, damped
  <2> QED BY <1>1, <2>1, <2>2, <2>3 DEF InFavour
<1>2. Arbitrate
  BY DEF Next, Arbitrates, Cast, Route, Research, Fail, BeginCycle, SwitchMode, Expire
<1>3. AllVoted
  BY <1>2 DEF Arbitrate, ArbitrationInvariant, AllVoted
<1>4. PICK acc \in Profiles, corr \in SUBSET Symbols : decision' = Final(Composite(acc, corr))
  BY <1>2 DEF Arbitrate
<1>5. /\ decision'.action = Composite(acc, corr).action
      /\ decision'.symbol = Composite(acc, corr).symbol
  BY <1>4 DEF Final
<1>6. InFavour(Composite(acc, corr))
  BY <1>1, <1>3, <1>5
<1> QED BY <1>2, <1>5, <1>6 DEF InFavour

\* A trade the rules decide is one somebody voted for, action and symbol together,
\* also when the damping of a correlated BUY changes the winner
\* (agents/multi.py, arbitrate_node).
THEOREM TradesWereVotedFor == Spec => TargetWasVoted
<1>1. ArbitrationInvariant /\ [Next]_vars =>
        [Arbitrates /\ ~live /\ decision'.action # "HOLD" => InFavour(decision')]_vars
  BY RulesFollowAVote
<1> QED BY <1>1, ArbitrationInvariantHolds, PTL DEF Spec, TargetWasVoted, InFavour

-----------------------------------------------------------------------------
(* The filters. *)

\* As long as no LLM vote was cast in the cycle, its votes are those of the rules.
RulesInvariant ==
  /\ scene \in Scenes
  /\ step # "vote" => votes = NoVotes
  /\ ~asked => \A a \in DOMAIN votes : votes[a] \in RuleVotes(a)

\* What the rules vote depends on the scene of the cycle alone.
LEMMA RuleVotesUnchanged ==
  ASSUME scene' = scene
  PROVE  \A b : RuleVotes(b)' = RuleVotes(b)
<1>1. /\ RuleTech' = RuleTech /\ RuleAnalyst' = RuleAnalyst /\ RuleRisk' = RuleRisk
      /\ RuleMacro' = RuleMacro /\ RuleEconomist' = RuleEconomist /\ RuleGeo' = RuleGeo
  BY DEF RuleTech, RuleAnalyst, RuleRisk, RuleMacro, RuleEconomist, RuleGeo, Sellable, held,
         quoted, Room, Strength
<1> QED BY <1>1 DEF RuleVotes

\* Until the LLM has voted in a cycle, all its votes are those of the rules
\* (multi.py, the sim_ nodes).
LEMMA RulesInvariantHolds == Spec => []RulesInvariant
<1>1. Init => RulesInvariant
  BY DEF Init, NoVotes, RulesInvariant
<1>2. RulesInvariant /\ [Next]_vars => RulesInvariant'
  <2> SUFFICES ASSUME RulesInvariant, [Next]_vars PROVE RulesInvariant'
    OBVIOUS
  <2>1. CASE UNCHANGED <<scene, votes, step, asked>>
    BY <2>1, RuleVotesUnchanged DEF RulesInvariant
  <2>2. ASSUME NEW a \in Agents, Cast(a) PROVE RulesInvariant'
    <3>1. step' = step /\ scene' = scene /\ step = "vote"
      BY <2>2 DEF Cast
    <3>2. CASE CastByRules(a)
      <4>1. PICK v \in RuleVotes(a) : votes' = With(votes, a, v)
        BY <3>2 DEF CastByRules
      <4>2. \A b \in DOMAIN votes' : \/ b = a /\ votes'[b] = v
                                     \/ b \in DOMAIN votes /\ votes'[b] = votes[b]
        BY <4>1 DEF With
      <4>3. \A b : RuleVotes(b)' = RuleVotes(b)
        BY <3>1, RuleVotesUnchanged
      <4> QED BY <3>1, <3>2, <4>2, <4>3 DEF CastByRules, RulesInvariant
    <3>3. CASE CastFromCache(a) \/ CastByLlm(a)
      BY <3>1, <3>3 DEF CastFromCache, CastByLlm, RulesInvariant
    <3> QED BY <2>2, <3>2, <3>3 DEF Cast
  <2>3. CASE Arbitrate \/ Fail
    BY <2>3 DEF Arbitrate, Fail, NoVotes, RulesInvariant
  <2>4. CASE BeginCycle
    BY <2>4 DEF BeginCycle, NoVotes, RulesInvariant
  <2>5. CASE Route \/ Research
    BY <2>5 DEF Route, Research, NoVotes, RulesInvariant
  <2> QED
    BY <2>1, <2>2, <2>3, <2>4, <2>5 DEF Next, vars, SwitchMode, Expire
<1> QED BY <1>1, <1>2, PTL DEF Spec

\* A rule votes to sell what the cycle holds and to buy when there is room
\* (sim_technician, sim_analyst).
LEMMA RuleVoteFits ==
  ASSUME NEW v \in RuleTech \cup RuleAnalyst
  PROVE  /\ v.action = "SELL" => v.symbol \in held
         /\ v.action = "BUY" => Room
BY DEF RuleTech, RuleAnalyst, Sellable, Vote

\* A decision of the rules on votes of their own fits the book of its own cycle,
\* after failed cycles and damped winners too (agents/multi.py).
THEOREM RulesAlwaysFit == Spec => RulesFitTheBook
<1> DEFINE Fits == /\ decision'.action = "SELL" => decision'.symbol \in held
                   /\ decision'.action = "BUY" => Room
<1>1. ArbitrationInvariant /\ RulesInvariant /\ [Next]_vars =>
        [Arbitrates /\ ~live /\ ~asked => Fits]_vars
  <2> SUFFICES ASSUME ArbitrationInvariant, RulesInvariant, Next, Arbitrates, ~live, ~asked,
                      decision'.action # "HOLD"
               PROVE  Fits
    OBVIOUS
  <2>1. Arbitrate /\ InFavour(decision')
    BY RulesFollowAVote
  <2>2. PICK a \in Directional :
          votes[a].action = decision'.action /\ votes[a].symbol = decision'.symbol
    BY <2>1 DEF InFavour
  <2>3. votes[a] \in RuleTech \cup RuleAnalyst
    BY <2>1 DEF Arbitrate, RulesInvariant, RuleVotes, Directional, Agents
  <2> QED BY <2>2, <2>3, RuleVoteFits
<1> QED BY <1>1, ArbitrationInvariantHolds, RulesInvariantHolds, PTL DEF Spec, RulesFitTheBook

\* What the rules see is either no danger or all of it at once.
LEMMA DangerIsShared ==
  ASSUME scene \in Scenes, DOMAIN votes = Agents, \A a \in Agents : votes[a] \in RuleVotes(a),
         RiskHigh \/ GeoHigh \/ Headwind
  PROVE  RiskHigh /\ RiskOff /\ Headwind /\ ~GeoHigh
<1>1. scene.health \in Nat
  BY ArbitrationAssumption
<1>2. /\ votes["risk_manager"] = RuleRisk /\ votes["macro_watcher"] = RuleMacro
      /\ votes["economist"] = RuleEconomist /\ votes["geopolitician"] = RuleGeo
  BY DEF Agents, RuleVotes
<1>3. ~GeoHigh
  BY <1>2 DEF GeoHigh, RuleGeo
<1>4. RiskHigh <=> scene.health < 70
  BY <1>1, <1>2 DEF RiskHigh, RuleRisk
<1>5. Headwind <=> scene.health < 70
  BY <1>1, <1>2 DEF Headwind, RuleEconomist
<1>6. scene.health < 70 => RiskOff
  BY <1>2 DEF RiskOff, RuleMacro
<1> QED BY <1>3, <1>4, <1>5, <1>6

\* How far learning can move the weights of _dynamic_weights.
LEMMA WeightBounds ==
  ASSUME NEW acc \in Profiles
  PROVE  /\ Weight(acc)["technician"] \in Nat /\ Weight(acc)["technician"] <= 4960
         /\ Weight(acc)["analyst"] \in Nat /\ Weight(acc)["analyst"] <= 5240
         /\ Weight(acc)["risk_manager"] \in Nat /\ Weight(acc)["risk_manager"] >= 1050
         /\ Weight(acc)["macro_watcher"] \in Nat /\ Weight(acc)["macro_watcher"] >= 700
         /\ Weight(acc)["economist"] \in Nat /\ Weight(acc)["economist"] >= 700
         /\ Weight(acc)["geopolitician"] \in Nat /\ Weight(acc)["geopolitician"] >= 350
<1>1. \A a \in Agents : acc[a] = Unknown \/ acc[a] \in 0..100
  BY ArbitrationAssumption DEF Profiles, Unevaluated
<1>2. \A a \in Agents :
        /\ Weight(acc)[a] = 100 * StaticWeight[a]
           \/ \E n \in 0..100 : Weight(acc)[a] = 70 * StaticWeight[a] + 30 * n
  BY <1>1 DEF Weight, Blended
<1> QED BY <1>2 DEF Agents, StaticWeight

\* The confidence of a rule's vote is at most 85 percent.
LEMMA RulesAreModest ==
  ASSUME scene \in Scenes, DOMAIN votes = Agents, \A a \in Agents : votes[a] \in RuleVotes(a)
  PROVE  votes["technician"].conf \in 0..85 /\ votes["analyst"].conf \in 0..85
<1>1. votes["technician"] \in RuleTech /\ votes["analyst"] \in RuleAnalyst
  BY DEF Agents, RuleVotes
<1>2. votes["technician"].conf \in 0..85
  BY <1>1 DEF RuleTech, Vote
<1>3. votes["analyst"] \in DirectedVotes
  BY <1>1, RuleVotesTyped
<1> DEFINE n == 65 + (20 * Strength(scene.mood)) \div 100
<1>4. votes["analyst"].conf = 55 \/ votes["analyst"].conf = Capped(n)
  BY <1>1 DEF RuleAnalyst, Vote
<1> HIDE DEF n
<1>5. votes["analyst"].conf \in 0..100
  BY <1>3 DEF DirectedVotes
<1>6. n > 85 => Capped(n) = 85
  BY DEF Capped
<1>7. ~(n > 85) => Capped(n) = n
  BY DEF Capped
<1>8. n \in Int
  BY ArbitrationAssumption DEF n, Strength
<1> QED BY <1>2, <1>4, <1>5, <1>6, <1>7, <1>8

\* The greatest support of a BUY by the rules, the same damped, and the least
\* score of HOLD.
GreatestSupport == 34680000
GreatestBuy == 1560600
LeastHold == 1610000

\* A weight times the confidence of a rule.
LEMMA ProductBound ==
  ASSUME NEW w \in Nat, NEW c \in Nat, c <= 85
  PROVE  w * c \in Nat /\ w * c <= 85 * w
BY SMT

\* The three dampings that meet in danger, as factors.
LEMMA TimesFactor ==
  ASSUME NEW n \in Nat
  PROVE  /\ Times(n, 15) \in Nat /\ 20 * Times(n, 15) <= 3 * n
         /\ Times(n, 50) \in Nat /\ 20 * Times(n, 50) <= 10 * n
         /\ Times(n, 60) \in Nat /\ 20 * Times(n, 60) <= 12 * n
<1>1. 15 \div 5 = 3 /\ 50 \div 5 = 10 /\ 60 \div 5 = 12
  BY SMT
<1>2. (n * 3) \div 20 \in Nat /\ 20 * ((n * 3) \div 20) <= 3 * n
  BY SMT
<1>3. (n * 10) \div 20 \in Nat /\ 20 * ((n * 10) \div 20) <= 10 * n
  BY SMT
<1>4. (n * 12) \div 20 \in Nat /\ 20 * ((n * 12) \div 20) <= 12 * n
  BY SMT
<1> QED BY SMT, <1>1, <1>2, <1>3, <1>4 DEF Times

\* 85 percent of the two greatest possible weights, damped three times.
LEMMA DampedSupport ==
  ASSUME NEW x \in Nat, NEW y \in Nat, x <= 4960 * 85, y <= 5240 * 85
  PROVE  /\ Times(Times(Times(40 * (x + y), 15), 50), 60) \in Nat
         /\ Times(Times(Times(40 * (x + y), 15), 50), 60) <= GreatestBuy
<1>1. PICK n : n = 40 * (x + y)
  OBVIOUS
<1>2. PICK n1 : n1 = Times(n, 15)
  OBVIOUS
<1>3. PICK n2 : n2 = Times(n1, 50)
  OBVIOUS
<1>4. PICK n3 : n3 = Times(n2, 60)
  OBVIOUS
<1>5. n \in Nat /\ n <= GreatestSupport
  BY SMT, <1>1 DEF GreatestSupport
<1>6. n1 \in Nat /\ 20 * n1 <= 3 * n
  BY <1>2, <1>5, TimesFactor
<1>7. n2 \in Nat /\ 20 * n2 <= 10 * n1
  BY <1>3, <1>6, TimesFactor
<1>8. n3 \in Nat /\ 20 * n3 <= 12 * n2
  BY <1>4, <1>7, TimesFactor
<1>9. n3 <= GreatestBuy
  BY SMT, <1>5, <1>6, <1>7, <1>8 DEF GreatestSupport, GreatestBuy
<1> QED BY <1>1, <1>2, <1>3, <1>4, <1>8, <1>9

\* Whatever has been learned, the damped BUY of a rule-made vote stays below HOLD,
\* whose baseline is at least 1050, 700, 700 and 350 of the four other weights.
LEMMA DampedBuyLoses ==
  ASSUME scene \in Scenes, AllVoted, \A a \in Agents : votes[a] \in RuleVotes(a),
         RiskHigh \/ GeoHigh \/ Headwind, NEW acc \in Profiles
  PROVE  BuyScore(acc) < Scores(acc)["HOLD"]
<1> DEFINE x == IF votes["technician"].action = "BUY"
                  THEN Weight(acc)["technician"] * votes["technician"].conf ELSE 0
           y == IF votes["analyst"].action = "BUY"
                  THEN Weight(acc)["analyst"] * votes["analyst"].conf ELSE 0
<1>1. RiskHigh /\ RiskOff /\ Headwind /\ ~GeoHigh
  BY DangerIsShared DEF AllVoted
<1>2. PICK wt, wa : wt = Weight(acc)["technician"] /\ wa = Weight(acc)["analyst"]
  OBVIOUS
<1>3. PICK ct, ca : ct = votes["technician"].conf /\ ca = votes["analyst"].conf
  OBVIOUS
<1>4. wt \in Nat /\ wt <= 4960 /\ wa \in Nat /\ wa <= 5240
  BY <1>2, WeightBounds
<1>5. ct \in Nat /\ ct <= 85 /\ ca \in Nat /\ ca <= 85
  <2>1. votes["technician"].conf \in 0..85 /\ votes["analyst"].conf \in 0..85
    BY Zenon, RulesAreModest DEF AllVoted
  <2> QED BY SMT, <1>3, <2>1
<1>6. x \in Nat /\ x <= 4960 * 85 /\ y \in Nat /\ y <= 5240 * 85
  <2>1. wt * ct \in Nat /\ wt * ct <= 85 * wt /\ wa * ca \in Nat /\ wa * ca <= 85 * wa
    BY <1>4, <1>5, ProductBound
  <2> QED BY SMT, <1>2, <1>3, <1>4, <2>1
<1>7. Support(acc, "BUY") = 40 * (x + y)
  BY DEF Support
<1> HIDE DEF x, y
<1>8. BuyScore(acc) = Times(Times(Times(40 * (x + y), 15), 50), 60)
  BY <1>1, <1>7 DEF BuyScore, Damp
<1>9. BuyScore(acc) \in Nat /\ BuyScore(acc) <= GreatestBuy
  <2>1. PICK u, v : u = x /\ v = y
    OBVIOUS
  <2>2. u \in Nat /\ v \in Nat /\ u <= 4960 * 85 /\ v <= 5240 * 85
    BY <1>6, <2>1
  <2> QED BY <1>8, <2>1, <2>2, DampedSupport
<1>10. Scores(acc)["HOLD"] >= LeastHold /\ Scores(acc)["HOLD"] \in Nat
  <2>1. Scores(acc)["HOLD"] = Support(acc, "HOLD") + 100 * HoldBaseline(acc)
    BY DEF Scores
  <2>2. Support(acc, "HOLD") \in Nat
    BY SupportCounted
  <2>3. PICK r, m, e, g, h :
          /\ r = Weight(acc)["risk_manager"] /\ m = Weight(acc)["macro_watcher"]
          /\ e = Weight(acc)["economist"] /\ g = Weight(acc)["geopolitician"]
          /\ h = Support(acc, "HOLD")
    OBVIOUS
  <2>4. /\ r \in Nat /\ m \in Nat /\ e \in Nat /\ g \in Nat /\ h \in Nat
        /\ r >= 1050 /\ m >= 700 /\ e >= 700 /\ g >= 350
    BY <2>2, <2>3, WeightBounds
  <2>5. Scores(acc)["HOLD"] = h + 100 * (8 * r + 5 * m + 5 * e + 2 * g)
    BY <2>1, <2>3 DEF HoldBaseline
  <2> QED BY SMT, <2>4, <2>5 DEF LeastHold
<1> QED BY SMT, <1>9, <1>10 DEF GreatestBuy, LeastHold

\* No BUY is decided in danger: not by the LLM, whatever it and the specialists
\* answer, nor by the rules on their own votes, whatever the weights have learned
\* (agents/multi.py, arbitrate_node).
THEOREM FiltersAlwaysHold == Spec => FiltersHold
<1> DEFINE Safe == ~RiskHigh /\ ~GeoHigh /\ ~Headwind
           Demand == Arbitrates /\ decision'.action = "BUY" /\ (live \/ ~asked) =>
                       Safe /\ (live => ~TooCorrelated(decision'.symbol, correlated'))
<1>1. ASSUME ArbitrationInvariant, RulesInvariant, DOMAIN votes = Agents, ~asked,
             NEW acc \in Profiles, NEW corr, Composite(acc, corr).action = "BUY"
      PROVE  Safe
  <2> SUFFICES ASSUME RiskHigh \/ GeoHigh \/ Headwind PROVE FALSE
    OBVIOUS
  <2> DEFINE scores == Scores(acc)
             damped == [scores EXCEPT !["BUY"] = Times(scores["BUY"], 75)]
  <2>1. AllVoted
    BY <1>1 DEF AllVoted, ArbitrationInvariant
  <2>2. scene \in Scenes /\ \A a \in Agents : votes[a] \in RuleVotes(a)
    BY <1>1 DEF RulesInvariant
  <2>3. BuyScore(acc) < scores["HOLD"]
    BY <2>1, <2>2, DampedBuyLoses
  <2>4. Fair(scores) /\ Fair(damped)
    BY <2>1, ScoresAreFair
  <2>5. scores["BUY"] = BuyScore(acc) /\ damped["BUY"] = Times(BuyScore(acc), 75)
        /\ damped["HOLD"] = scores["HOLD"] /\ BuyScore(acc) \in Nat /\ scores["HOLD"] \in Nat
    BY <2>4 DEF Scores, Fair
  <2>6. damped["BUY"] < damped["HOLD"]
    BY <2>3, <2>5 DEF Times
  <2>7. Composite(acc, corr).action = Best(scores) \/ Composite(acc, corr).action = Best(damped)
    BY DEF Composite, Vote
  <2> HIDE DEF scores, damped
  <2> QED BY <1>1, <2>3, <2>4, <2>5, <2>6, <2>7 DEF Best, Fair
<1>2. ASSUME NEW d, NEW corr, Final(AfterVetoes(d, corr)).action = "BUY"
      PROVE  Safe /\ ~TooCorrelated(Final(AfterVetoes(d, corr)).symbol, corr)
  BY <1>2 DEF Final, AfterVetoes, Vetoes
<1>3. ArbitrationInvariant /\ RulesInvariant /\ [Next]_vars => [Demand]_vars
  <2> SUFFICES ASSUME ArbitrationInvariant, RulesInvariant, Next, Arbitrates,
                      decision'.action = "BUY", live \/ ~asked
               PROVE  Safe /\ (live => ~TooCorrelated(decision'.symbol, correlated'))
    OBVIOUS
  <2>1. Arbitrate
    BY DEF Next, Arbitrates, Cast, Route, Research, Fail, BeginCycle, SwitchMode, Expire
  <2>2. CASE live
    <3>1. PICK d, corr : decision' = Final(AfterVetoes(d, corr)) /\ correlated' = corr
      BY <2>1, <2>2 DEF Arbitrate
    <3>2. Safe /\ ~TooCorrelated(decision'.symbol, corr)
      BY <1>2, <3>1
    <3> QED BY <3>1, <3>2
  <2>3. CASE ~live
    <3>1. PICK acc \in Profiles, corr \in SUBSET Symbols : decision' = Final(Composite(acc, corr))
      BY <2>1, <2>3 DEF Arbitrate
    <3>2. Composite(acc, corr).action = "BUY"
      BY <3>1 DEF Final
    <3>3. DOMAIN votes = Agents
      BY <2>1 DEF Arbitrate
    <3> QED BY <1>1, <2>3, <3>2, <3>3
  <2> QED BY <2>2, <2>3
<1> QED BY <1>3, ArbitrationInvariantHolds, RulesInvariantHolds, PTL DEF Spec, FiltersHold

-----------------------------------------------------------------------------
(* The weights.  The share of an agent is its weight over the total.        *)

\* The larger of two parts has the larger share of a whole with the same rest.
LEMMA LargerPartLargerShare ==
  ASSUME NEW u \in Nat, NEW v \in Nat, NEW rest \in Nat \ {0}, u < v
  PROVE  v * (u + rest) > u * (v + rest)
<1>1. PICK k \in Nat \ {0} : v = u + k
  BY SMT
<1>2. v * rest = u * rest + k * rest /\ k * rest > 0
  BY <1>1, SMT
<1>3. v * (u + rest) = v * u + v * rest /\ u * (v + rest) = u * v + u * rest /\ v * u = u * v
  BY SMT
<1>4. PICK p, q, r : p = v * u /\ q = u * rest /\ r = k * rest
  OBVIOUS
<1>5. p \in Nat /\ q \in Nat /\ r \in Nat
  BY <1>1, <1>4, SMT
<1> QED BY <1>2, <1>3, <1>4, <1>5, SMT

\* A sum of positive parts is one part and a rest that it has no part in.
LEMMA SumIsPartAndRest ==
  ASSUME NEW f, \A b \in Agents : f[b] \in Nat \ {0},
         NEW a \in Agents, NEW k \in Nat,
         NEW h, h[a] = k, \A b \in Agents \ {a} : h[b] = f[b]
  PROVE  \E rest \in Nat \ {0} : SumOver(f) = f[a] + rest /\ SumOver(h) = k + rest
<1>1. \A b \in Agents : f[b] \in Nat \ {0}
  OBVIOUS
<1>2. PICK t, l, r, m, e, g :
        /\ t = f["technician"] /\ l = f["analyst"] /\ r = f["risk_manager"]
        /\ m = f["macro_watcher"] /\ e = f["economist"] /\ g = f["geopolitician"]
  OBVIOUS
<1>3. /\ t \in Nat \ {0} /\ l \in Nat \ {0} /\ r \in Nat \ {0}
      /\ m \in Nat \ {0} /\ e \in Nat \ {0} /\ g \in Nat \ {0}
  BY <1>1, <1>2 DEF Agents
<1>4. SumOver(f) = t + l + r + m + e + g
  BY <1>2 DEF SumOver
<1>5. \A b \in Agents : h[b] = IF b = a THEN k ELSE f[b]
  OBVIOUS
<1>6. CASE a = "technician"
  <2>1. SumOver(h) = k + l + r + m + e + g /\ f[a] = t
    BY <1>2, <1>5, <1>6 DEF Agents, SumOver
  <2>2. l + r + m + e + g \in Nat \ {0}
    BY <1>3, SMT
  <2>3. /\ t + l + r + m + e + g = t + (l + r + m + e + g)
        /\ k + l + r + m + e + g = k + (l + r + m + e + g)
    BY <1>3, SMT
  <2> QED BY <1>4, <2>1, <2>2, <2>3
<1>7. CASE a = "analyst"
  <2>1. SumOver(h) = t + k + r + m + e + g /\ f[a] = l
    BY <1>2, <1>5, <1>7 DEF Agents, SumOver
  <2>2. t + r + m + e + g \in Nat \ {0}
    BY <1>3, SMT
  <2>3. /\ t + l + r + m + e + g = l + (t + r + m + e + g)
        /\ t + k + r + m + e + g = k + (t + r + m + e + g)
    BY <1>3, SMT
  <2> QED BY <1>4, <2>1, <2>2, <2>3
<1>8. CASE a = "risk_manager"
  <2>1. SumOver(h) = t + l + k + m + e + g /\ f[a] = r
    BY <1>2, <1>5, <1>8 DEF Agents, SumOver
  <2>2. t + l + m + e + g \in Nat \ {0}
    BY <1>3, SMT
  <2>3. /\ t + l + r + m + e + g = r + (t + l + m + e + g)
        /\ t + l + k + m + e + g = k + (t + l + m + e + g)
    BY <1>3, SMT
  <2> QED BY <1>4, <2>1, <2>2, <2>3
<1>9. CASE a = "macro_watcher"
  <2>1. SumOver(h) = t + l + r + k + e + g /\ f[a] = m
    BY <1>2, <1>5, <1>9 DEF Agents, SumOver
  <2>2. t + l + r + e + g \in Nat \ {0}
    BY <1>3, SMT
  <2>3. /\ t + l + r + m + e + g = m + (t + l + r + e + g)
        /\ t + l + r + k + e + g = k + (t + l + r + e + g)
    BY <1>3, SMT
  <2> QED BY <1>4, <2>1, <2>2, <2>3
<1>10. CASE a = "economist"
  <2>1. SumOver(h) = t + l + r + m + k + g /\ f[a] = e
    BY <1>2, <1>5, <1>10 DEF Agents, SumOver
  <2>2. t + l + r + m + g \in Nat \ {0}
    BY <1>3, SMT
  <2>3. /\ t + l + r + m + e + g = e + (t + l + r + m + g)
        /\ t + l + r + m + k + g = k + (t + l + r + m + g)
    BY <1>3, SMT
  <2> QED BY <1>4, <2>1, <2>2, <2>3
<1>11. CASE a = "geopolitician"
  <2>1. SumOver(h) = t + l + r + m + e + k /\ f[a] = g
    BY <1>2, <1>5, <1>11 DEF Agents, SumOver
  <2>2. t + l + r + m + e \in Nat \ {0}
    BY <1>3, SMT
  <2>3. /\ t + l + r + m + e + g = g + (t + l + r + m + e)
        /\ t + l + r + m + e + k = k + (t + l + r + m + e)
    BY <1>3, SMT
  <2> QED BY <1>4, <2>1, <2>2, <2>3
<1> QED BY <1>6, <1>7, <1>8, <1>9, <1>10, <1>11 DEF Agents

\* Of two sums that differ in one part, that part is the larger share of the sum
\* where it is larger.
LEMMA ShareOfASum ==
  ASSUME NEW f, \A b \in Agents : f[b] \in Nat \ {0},
         NEW a \in Agents, NEW h, h[a] \in Nat, f[a] < h[a],
         \A b \in Agents \ {a} : h[b] = f[b]
  PROVE  h[a] * SumOver(f) > f[a] * SumOver(h)
<1>1. PICK k \in Nat : k = h[a]
  OBVIOUS
<1>2. PICK u \in Nat : u = f[a]
  OBVIOUS
<1>3. PICK rest \in Nat \ {0} : SumOver(f) = f[a] + rest /\ SumOver(h) = k + rest
  BY <1>1, SumIsPartAndRest
<1>4. k * (u + rest) > u * (k + rest)
  BY <1>1, <1>2, LargerPartLargerShare
<1> QED BY <1>1, <1>2, <1>3, <1>4

\* A better record of its own raises an agent's weight: it is blended from that
\* agent's accuracy and from nothing else (_dynamic_weights).
LEMMA BetterRecord ==
  ASSUME NEW acc \in Profiles, NEW a \in Agents, acc[a] # Unknown,
         NEW n \in Nat, n > acc[a],
         NEW better, better = [acc EXCEPT ![a] = n]
  PROVE  Weight(better)[a] \in Nat /\ Weight(acc)[a] < Weight(better)[a]
<1>1. acc \in [Agents -> (0..100) \cup {Unknown}]
  BY ArbitrationAssumption DEF Profiles, Unevaluated
<1>2. better[a] = n
  BY <1>1
<1>3. n # Unknown /\ acc[a] \in Nat /\ StaticWeight[a] \in Nat
  BY <1>1, ArbitrationAssumption DEF Agents, StaticWeight
<1>4. Blended(better, a) = 70 * StaticWeight[a] + 30 * n
  BY <1>2, <1>3 DEF Blended
<1>5. Blended(acc, a) = 70 * StaticWeight[a] + 30 * acc[a]
  BY <1>3 DEF Blended
<1>6. PICK s \in Nat : s = StaticWeight[a]
  BY <1>3
<1>7. PICK m \in Nat : m = acc[a]
  BY <1>3
<1>8. Weight(better)[a] = 70 * s + 30 * n /\ Weight(acc)[a] = 70 * s + 30 * m /\ n > m
  BY <1>4, <1>5, <1>6, <1>7 DEF Weight
<1> QED BY <1>8, SMT

\* Hence its share: what AccuracyCounts says, for any learned accuracies.
LEMMA ShareGrows ==
  ASSUME NEW acc \in Profiles, NEW a \in Agents, acc[a] # Unknown,
         NEW n \in Nat, n > acc[a],
         NEW better, better = [acc EXCEPT ![a] = n]
  PROVE  Weight(better)[a] * Total(acc) > Weight(acc)[a] * Total(better)
<1>1. \A b \in Agents : Weight(acc)[b] \in Nat \ {0}
  BY WeightsArePositive
<1>2. Weight(better)[a] \in Nat /\ Weight(acc)[a] < Weight(better)[a]
  BY BetterRecord, Zenon
<1>3. \A b \in Agents \ {a} : better[b] = acc[b]
  BY ArbitrationAssumption DEF Profiles, Unevaluated
<1>4. \A b \in Agents \ {a} : Weight(better)[b] = Weight(acc)[b]
  BY <1>3 DEF Weight, Blended
<1> QED BY <1>1, <1>2, <1>4, ShareOfASum DEF Total

WeightsLearned == weights \in Profiles

\* An agent's share of the decision grows with its own accuracy, whatever has been
\* learned of the others (agents/multi.py, _dynamic_weights).
THEOREM AccuracyAlwaysCounts == Spec => []AccuracyCounts
<1>1. Init => WeightsLearned
  BY DEF Init, Profiles, WeightsLearned
<1>2. WeightsLearned /\ [Next]_vars => WeightsLearned'
  BY DEF Next, vars, Reading, Cast, Arbitrate, Route, Research, Fail, BeginCycle, SwitchMode,
         Expire, Profiles, WeightsLearned
<1>3. WeightsLearned => AccuracyCounts
  <2> SUFFICES ASSUME WeightsLearned PROVE AccuracyCounts
    OBVIOUS
  <2>1. ASSUME NEW a \in Agents, NEW n \in Nat, weights[a] # Unknown, n > weights[a]
        PROVE  LET better == [weights EXCEPT ![a] = n]
               IN Weight(better)[a] * Total(weights) > Weight(weights)[a] * Total(better)
    BY <2>1, ShareGrows, Zenon DEF WeightsLearned
  <2>2. \A a \in Agents, n \in Nat :
          weights[a] # Unknown /\ n > weights[a] =>
            LET better == [weights EXCEPT ![a] = n]
            IN Weight(better)[a] * Total(weights) > Weight(weights)[a] * Total(better)
    BY <2>1
  <2> QED BY <2>2 DEF AccuracyCounts
<1> QED BY <1>1, <1>2, <1>3, PTL DEF Spec
=============================================================================
