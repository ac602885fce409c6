CONSTANTS
  Symbols = {s1}
  Quotes = {50, 130}
  Fills = {50, 130}
  Amounts = {600}
  SellPcts = {50, 100}
  Days = {0, 1, 2, 3, 4}
  InitialBalance = 1000
  DeathThreshold = 700
  MaxPyramidLayers = 2
  CommissionPM = 10
  SlippagePM = 20
  ShareScale = 200
  SaveMayFail = TRUE
  MaxHistory = 3
  RoundTo = 10
  MaxTrades = 4
  MaxReboots = 1
  LastDate = 1
  MaxAsides = 1
SPECIFICATION MCSpec
INVARIANTS
  TypeOK
  BookConsistent
  ReportedOncePerStart
PROPERTIES
  TradesNeverCreateValue
  AverageBetweenFills
  WatermarkNeverLowered
  ReportedEntryIsBasis
CHECK_DEADLOCK FALSE
