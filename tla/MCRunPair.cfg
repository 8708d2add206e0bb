CONSTANTS
  Runs = {r1, r2}
  NumStages = 2
  CacheSize = 2
  Workers = {w1, w2}
  Cancellers = {}
  MaxQueue = 2
  MaxFaults = 1
  MaxCrashes = 1
  OperatorRuns = {}
  NoRun = NoRun
SPECIFICATION FairSpec
CHECK_DEADLOCK FALSE
PROPERTIES
  ImplementsDispatchOnce
  QueuedEventuallyLeaves
