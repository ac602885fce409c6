CONSTANTS
  Asset = asset
  Closes = {100, 103, 150}
  BadClose = 0
  Rsis = {20, 29, 71, 80}
  NoRsi <- NotANumber
  Bars = 5
  FoldCounts = {1, 2}
  InitialCash = 400
  StopLossPct = 5
  CommissionPM = 10
  SlippagePM = 20
  ShareScale = 1000
  Amounts <- OrderSizes
SPECIFICATION Spec
INVARIANTS
  CashIsRealized
  WinsEarnMoney
PROPERTIES
  StopBoundsLoss
  BacktestUsesBook
CHECK_DEADLOCK FALSE
