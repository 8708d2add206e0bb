CONSTANTS
  Runs = {r1}
  NumStages = 6
  CacheSize = 1
SPECIFICATION RuntimeSpec
INVARIANTS
  CancelledPreserved
