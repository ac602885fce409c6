\* Two switches and two watchlist requests, three of them at once, lists of at most
\* two symbols, and a process stop anywhere among them.
CONSTANTS
  Requests = {r1, r2}
  MaxSwitches = 2
  MaxCrashes = 1
  Clients = {c1, c2}
  Symbols = {d1, s1, s2}
  Defaults = {d1}
  MaxSymbols = 2
  MaxRequests = 2
CONSTRAINT ThreeAtOnce
SYMMETRY ThreadSymmetry
SPECIFICATION WatchlistSpec
INVARIANTS
  NeverBothOn
  SerialSwitchesPersist
  WatchlistLimit
PROPERTIES
  YesMeansListed
CHECK_DEADLOCK FALSE
