SPECIFICATION Spec
CONSTANTS
  ByName <- MCByName
  ByTurnover <- MCByTurnover
  CfgForce = {"BTC"}
  CfgBlacklist = {}
  LightScanMax = 1
  Feeds <- MCFeeds
  MinScore = 75
  MinRR = 14
  ReduceSize = 55
  MaxEdits = 2
  MaxMoves = 1
  MaxFaults = 1
PROPERTIES RemovalStands
