SPECIFICATION Spec
CONSTANTS
  Cfg <- MCCfg
  Btc = "BTCUSDT"
  Candidates <- MCCandidates
  Infos <- MCInfos
  Accounts <- MCAccounts
  Modes = {"off", "audit_only", "veto", "review"}
  Replies <- MCReplies
  VetoBudget = 0
  ReviewCap = 5
  ReviewMode = "veto"
INVARIANTS LossWithinRisk LevelsSurviveRounding ValueBounded ReviewFailsSafe
CHECK_DEADLOCK FALSE
