\* Two switches at once.
CONSTANTS
  Requests = {r1, r2}
  MaxSwitches = 2
  MaxCrashes = 0
SYMMETRY RequestSymmetry
SPECIFICATION Spec
INVARIANTS
  LiveOnlyOnRequest
CHECK_DEADLOCK FALSE
