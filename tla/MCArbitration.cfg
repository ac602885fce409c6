CONSTANTS
  s1 = s1
  s2 = s2
  NoSymbol = NoSymbol
  Unknown = Unknown
  MaxPositions = 2
  Symbols <- MCSymbols
  FirstSymbol = s1
  Scenes <- MCScenes
  Accuracies <- MCAccuracies
  TechAnswers <- MCTechAnswers
  AnalystAnswers <- MCAnalystAnswers
  RiskAnswers <- MCRiskAnswers
  MacroAnswers <- MCMacroAnswers
  EconomistAnswers <- MCEconomistAnswers
  GeoAnswers <- MCGeoAnswers
  ArbiterAnswers <- MCArbiterAnswers
SPECIFICATION Spec
INVARIANTS
  AccuracyCounts
PROPERTIES
  FiltersHold
  TargetWasVoted
  RulesFitTheBook
