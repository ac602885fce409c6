----------------------------- MODULE MCArbitration -----------------------------
(***************************************************************************)
(* Two symbols and a full book at two positions.  The LLM answers with     *)
(* votes on either side of every filter, and the book, the mood and the    *)
(* learned weights are taken at their extremes.                            *)
(***************************************************************************)
EXTENDS Arbitration

CONSTANTS s1, s2

MCSymbols == {s1, s2}

Scene(book, prices, health, mood, exposed) ==
  [held |-> book, quoted |-> prices, health |-> health, mood |-> mood, exposed |-> exposed]

MCScenes ==
  {Scene({}, {s2}, 60, 100, FALSE), Scene({s1}, {s1}, 60, 100, FALSE),
   Scene({s1}, {s1, s2}, 100, 20, TRUE), Scene({s1}, {s1, s2}, 140, 40, FALSE),
   Scene({s1, s2}, {s1, s2}, 80, -40, FALSE)}

Profile(directional, others) ==
  [a \in Agents |-> IF a \in Directional THEN directional ELSE others]

MCAccuracies ==
  {Profile(100, 0), [Profile(0, Unknown) EXCEPT !["technician"] = 10]}

Neutral == Vote("HOLD", NoSymbol, 50)
MCTechAnswers == {Neutral, Vote("BUY", s1, 90), Vote("SELL", s2, 60)}
MCAnalystAnswers == {Neutral, Vote("BUY", s2, 80)}
MCRiskAnswers == {[score |-> 5, sizing |-> "HALF"], [score |-> 9, sizing |-> "SKIP"]}
MCMacroAnswers == {"transitional", "risk-off"}
MCEconomistAnswers == {0, -60}
MCGeoAnswers == {3, 8}

MCArbiterAnswers ==
  {Vote("BUY", s1, 90), Vote("BUY", NoSymbol, 60), Vote("SELL", s1, 60), Vote("HOLD", s1, 50),
   Vote(NoSymbol, NoSymbol, 0)}
=============================================================================
