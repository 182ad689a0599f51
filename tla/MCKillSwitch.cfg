SPECIFICATION FairMonitorSpec
CONSTANTS
  Symbols = {btc}
  Prices = {10, 20}
  Targets = {20}
  Qtys = {1}
  Reductions = {}
  StartingBalance = 60
  DefaultLeverage = 2
  TakerFee = 1
  MakerFee = 0
  Slippage = 1
  ClientOps = {"market", "limit", "close", "reset"}
  MaxOrderID = 3
  MaxDailyLossPct = 50
  MonitorCalls = {"Update", "CheckAllPositions"}
INVARIANTS MonitorTypeOK FlatAfterKill NoNakedPosition NothingForgotten
PROPERTIES BreachEndsFlat
CHECK_DEADLOCK FALSE
