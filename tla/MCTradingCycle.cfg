\* Order sizes are not enumerated: an order is sized by the cycle itself.
CONSTANTS
  Symbols = {s1, s2, s3}
  NoSymbol = NoSymbol
  Quotes = {100, 115, 1}
  Fills = {100, 115, 1}
  Amounts <- AnyAmount
  SellPcts = {50, 100}
  Days = {0, 1}
  InitialBalance = 1000
  DeathThreshold = 948
  MaxPyramidLayers = 2
  CommissionPM = 10
  SlippagePM = 10
  ShareScale = 1000
  SaveMayFail = FALSE
  Allocs = {50}
  EarningsStates = {"clear", "imminent"}
  VolFactors = {100}
  SlipPM = {0}
  OneDollar = 1
  MaxPositions = 2
  MaxAllocPct = 30
  StopLossPct = 5
  TakeProfitPct = 10
  TakeProfitSellPct = 50
  TimeStopDays = 0
  TimeStopBandPct = 2
  MaxDrawdownPct = 5
  InsertMayFail = TRUE
  MaxCycles = 3
  MaxRestarts = 1
SYMMETRY SymbolSymmetry
SPECIFICATION CycleSpec
INVARIANTS
  PositionLimit
  StopLossHonoured
  LedgerMatchesCash
  TakeProfitOncePerStart
PROPERTIES
  ExposureCapped
  DeathStopsTrading
CHECK_DEADLOCK FALSE
