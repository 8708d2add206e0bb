CONSTANTS
  Claims = {k1, k2}
  NoClaim = NoClaim
  MaxWaiters = 2
  MaxSpawns = 2
  MaxDeaths = 1
  MaxResets = 0
SPECIFICATION VerifierSpec
CHECK_DEADLOCK FALSE
INVARIANT RespawnedOnce
