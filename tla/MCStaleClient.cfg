CONSTANTS
  SimSleep = 1
  RealSleep = 2
  MaxCycles = 1
  Clients = {c1}
  Steady = {}
SPECIFICATION Spec
PROPERTIES
  StallsAreOvercome
