CONSTANTS
  MaxTrades = 2
  MaxCrashes = 1
SPECIFICATION FairSpec
PROPERTIES
  CycleEnds
  ReconcilerEnds
