CONSTANTS
  Runs = {r1}
  NumStages = 6
  CacheSize = 1
  Claims = {k1, k2}
  NoClaim = NoClaim
  MaxWaiters = 1
  MaxSpawns = 2
  MaxDeaths = 1
  MaxResets = 1
  Pids = {p1, p2}
  NoPid = NoPid
  MaxStarts = 1
  MaxWords = 2
  MaxQueue = 1
  MaxRefreshes = 2
SPECIFICATION LiveServicesSpec
CHECK_DEADLOCK FALSE
INVARIANTS
  CompletedMeansWhole
PROPERTIES
  CancelEventuallyStops
  RunEventuallyEnds
  EveryClaimDecided
  ShownAnswerStays
  TurnEnds
  LaunchSettles
