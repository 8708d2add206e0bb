CONSTANTS
  Runs = {r1}
  NumStages = 2
  CacheSize = 2
  Workers = {w1}
  Cancellers = {c1}
  MaxQueue = 1
  MaxFaults = 2
  MaxCrashes = 1
  OperatorRuns = {r1}
  NoRun = NoRun
SPECIFICATION Spec
SYMMETRY Symmetry
INVARIANTS
  StartIsDurableFirst
  CancelledNeverDispatched
  DurableMatchesMemory
