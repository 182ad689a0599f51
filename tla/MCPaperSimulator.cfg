SPECIFICATION FairSpec
CONSTANTS
  Prices = {9950, 10000, 10060}
  Plans <- MCPlans
  StartingBalance = 1000000
  Scale = 2000
  FeeTaker = 1
  Slippage = 5
  Faults = {"load", "insert", "account", "crash"}
  MaxTrades = 2
  MaxRestarts = 1
INVARIANTS TypeOK EquityAddsUp CountedOnce LevelsNearPlan
PROPERTIES TradesSettledOnce StopsAreReached
CHECK_DEADLOCK FALSE
