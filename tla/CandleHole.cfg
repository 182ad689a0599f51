SPECIFICATION FairSpec
CONSTANTS
  MaxStarts = 1
  MaxBars = 3
  MaxUpdates = 1
  MaxDrops = 1
  MaxWire = 2
  MaxRetries = 0
  Faults = {"drop"}
PROPERTY HistoryHeals
CHECK_DEADLOCK FALSE
