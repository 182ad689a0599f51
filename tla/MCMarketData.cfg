SPECIFICATION FairSpec
CONSTANTS
  MaxStarts = 2
  MaxBars = 3
  MaxUpdates = 3
  MaxDrops = 1
  MaxWire = 2
  MaxRetries = 1
  Faults = {"rest", "partial", "insert", "replay", "restart", "drop", "timeout"}
INVARIANTS TypeOK BookAgrees ConfirmedIsOver StopMeansStopped
PROPERTIES CallsReturn 
CHECK_DEADLOCK FALSE
