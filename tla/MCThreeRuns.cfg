CONSTANTS
  Steps = {s1, s2, s3}
  Acting = {s1, s2, s3}
  Drafts = {{s1, s2}}
  NoPlan = NoPlan
  NoWorld = NoWorld
  NoCheckpoint = NoCheckpoint
  MaxPlans = 2
  MaxWorlds = 1
  MaxCheckpoints = 1
  x = x
  y = y
  z = z
  Sources = {x, y, z}
  Findable <- WeaklyDoubted
  Brains = {cmo, intelligence, content}
  Author = cmo
  Unbacked = Unbacked
  Quorum = 1
  MaxSignals = 2
  MaxBacking = 1
  MaxReviews = 2
  Strategies = {t1, t2}
  NoStrategy = NoStrategy
  MaxRuns = 3
  MaxEvidence = 2
  MaxTrials = 0
  Propositions = {p, q}
  Goals = {g0, g1, g2}
  RootGoal = g0
  NoEvidence = NoEvidence
  MaxSnapshots = 2
  MaxNews = 1
SPECIFICATION RunsSpec
CHECK_DEADLOCK FALSE
INVARIANT ThreeRunsAreKept
