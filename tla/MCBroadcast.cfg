CONSTANTS
  SimSleep = 1
  RealSleep = 2
  MaxCycles = 2
  Clients = {c1, c2}
  Steady = {c1}
SPECIFICATION Spec
INVARIANTS
  PauseHolds
PROPERTIES
  ViewsNeverGoBack
  AgentKeepsCycling
  DeathIsShown
