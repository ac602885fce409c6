\* Nothing is lost in this run but by the process stop itself.
CONSTANTS
  Symbols = {s1}
  NoSymbol = NoSymbol
  Quotes = {100, 115}
  Fills = {100, 115}
  Amounts <- AnyAmount
  SellPcts = {50, 100}
  Days = {0}
  InitialBalance = 1000
  DeathThreshold = 948
  MaxPyramidLayers = 2
  CommissionPM = 10
  SlippagePM = 10
  ShareScale = 1000
  SaveMayFail = FALSE
  Allocs = {50}
  EarningsStates = {"clear"}
  VolFactors = {100}
  SlipPM = {0}
  OneDollar = 1
  MaxPositions = 2
  MaxAllocPct = 30
  StopLossPct = 5
  TakeProfitPct = 10
  TakeProfitSellPct = 50
  TimeStopDays = 0
  TimeStopBandPct = 2
  MaxDrawdownPct = 5
  InsertMayFail = FALSE
  MaxCycles = 2
  MaxRestarts = 1
SPECIFICATION LedgersSpec
INVARIANTS
  DriftMeansLostRow
CHECK_DEADLOCK FALSE
