SPECIFICATION RecoverySpec
CONSTANTS
  Symbols = {btc, eth}
  Prices = {10}
  Targets = {}
  Qtys = {1}
  Reductions = {}
  StartingBalance = 100
  DefaultLeverage = 2
  TakerFee = 1
  MakerFee = 0
  Slippage = 1
  ClientOps = {"market"}
  MaxOrderID = 4
  MaxRestarts = 1
  MaxTorn = 0
INVARIANTS StopAlwaysLive
CHECK_DEADLOCK FALSE
SYMMETRY Symmetry
