CONSTANTS
  free = free
  paid = paid
  Providers <- TwoProviders
  Paid <- OnlyPaid
  FallbackChain <- PaidThenFree
  Updates <- TwoUpdates
  ModelRuns = {r1}
  NoProvider = NoProvider
  NoModelRun = NoModelRun
  MaxVersions = 3
  MaxRevisions = 3
  MaxSetFaults = 1
  MaxSetCrashes = 1
  MaxDeltas = 1
  Posts = {c1, c2}
  Polls = {s1, s2}
  Preflights = {p1}
  MaxAdmin = 2
  MaxStoreFaults = 1
  MaxRestarts = 1
  Steps = {s1, s2, s3}
  Acting = {s1, s2, s3}
  Drafts = {{s1, s2}}
  NoPlan = NoPlan
  NoWorld = NoWorld
  NoCheckpoint = NoCheckpoint
  MaxPlans = 2
  MaxWorlds = 1
  MaxCheckpoints = 1
  x = x
  y = y
  z = z
  Sources = {x, y, z}
  Findable <- Turnable
  Brains = {cmo, intelligence, content}
  Author = cmo
  Unbacked = Unbacked
  Quorum = 1
  MaxSignals = 2
  MaxBacking = 1
  MaxReviews = 2
  Strategies = {t1, t2}
  NoStrategy = NoStrategy
  MaxRuns = 3
  MaxEvidence = 1
  MaxTrials = 3
  Propositions = {p, q}
  Goals = {g0, g1, g2}
  RootGoal = g0
  NoEvidence = NoEvidence
  MaxSnapshots = 2
  MaxNews = 1
  dv = dv
  du = du
  Library <- TwoDocuments
  Verified = {dv}
  Readers <- VerifiedForCmo
  url1 = url1
  Followed <- OnePage
  Fits = 3
  MaxFacts = 1
  Uncited = Uncited
SPECIFICATION ServicesSpec
CHECK_DEADLOCK FALSE
INVARIANTS
  PaidNeedsConsent
  CredentialsKept
  OneRevisionWhenIdle
  OnePostPerConsent
  FailureMeansNoPost
  ReadyRestsOnDone
  ActionsAreCorroborated
  DurableIsRepeated
  HistoryReadsBack
  PlanIsEarned
  FactsAreSolid
PROPERTIES
  ResumeFindsNothingMoved
  GatewayKeepsOneVoice
  FinalStateStays
