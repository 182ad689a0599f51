SPECIFICATION Spec
CONSTANTS
  Symbols = {btc}
  Prices = {10, 20}
  Targets = {20}
  Qtys = {2}
  Reductions = {1, 2}
  StartingBalance = 90
  DefaultLeverage = 2
  TakerFee = 1
  MakerFee = 0
  Slippage = 1
  ClientOps = {"market", "limit", "reduce", "cancel", "close", "emergency", "halt", "reset", "setProtective"}
  MaxOrderID = 3
INVARIANTS TypeOK LedgerBalanced MarginCovered StopOnLossSide
PROPERTIES EveryLossCounted
CHECK_DEADLOCK FALSE
VIEW WithoutMarks
