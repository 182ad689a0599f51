SPECIFICATION RecoverySpec
CONSTANTS
  Symbols = {btc}
  Prices = {10, 20}
  Targets = {20}
  Qtys = {1}
  Reductions = {}
  StartingBalance = 60
  DefaultLeverage = 2
  TakerFee = 1
  MakerFee = 0
  Slippage = 1
  ClientOps = {"market", "close"}
  MaxOrderID = 4
  MaxRestarts = 2
  MaxTorn = 2
INVARIANTS RecoveryTypeOK StopSurvivesRestart NeverRefused
PROPERTIES CleanRestart
CHECK_DEADLOCK FALSE
