CONSTANTS
  Callers = {c1, c2}
  Threshold = 3
  Pause = 2
  RetryAfters = {1, 3}
  MaxDaily = 2
  Usages = {1, 2}
  MaxTurns = 2
SPECIFICATION Spec
INVARIANTS
  BudgetOvershootBounded
PROPERTIES
  SoloRetryAfterHonoured
  BreakerCloses
