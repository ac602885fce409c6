CONSTANTS
  TradeActions <- BuyThenSell
  MaxEvalRetries = 1
  Significance = 1
  Moves <- AnyMove
  MaxSwitches = 2
  MaxFaults = 1
  MaxCrashes = 1
SPECIFICATION Spec
INVARIANTS
  FlagFollowsDecision
  VerdictReachesVotes
PROPERTIES
  VerdictIsFinal
  DueRowsSettle
CHECK_DEADLOCK FALSE
