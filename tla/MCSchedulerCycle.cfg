SPECIFICATION Spec
CONSTANTS
  A = A
  B = B
  C = C
  D = D
  Cfg <- MCCfg
  Btc = "BTCUSDT"
  Offers <- MCOffers
  Markets <- MCMarkets
  Account <- MCAccount
  Restored <- MCRestored
  VetoReplies <- MCVetoReplies
  ReviewReplies <- MCReviewReplies
  VetoBudget = 3
  ReviewCap = 2
  ReviewMode = "veto"
  HardCap = 3
  MaxCallsPerCycle = 2
  MaxCallsPerDay = 2
  Critical = 2
  MaxOffered = 2
  MaxCycles = 2
  MaxEvents = 2
INVARIANTS CycleTypeOK OneTradePerSymbol DayCapHolds ChargesBounded
PROPERTIES StoppedOutRests NoTradeUnheard
CHECK_DEADLOCK FALSE
