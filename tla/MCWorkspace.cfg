CONSTANTS
  Runs = {r1, r2}
  NumStages = 2
  CacheSize = 1
  Requests = {q1, q2}
  Earlier <- OneEarlier
  MaxRenames = 1
  MaxDeletes = 1
  Claims = {k1, k2}
  NoClaim = NoClaim
  MaxWaiters = 2
  MaxSpawns = 2
  MaxDeaths = 1
  MaxResets = 1
  Pids = {p1, p2, p3}
  NoPid = NoPid
  MaxStarts = 2
  w1 = w1
  w2 = w2
  w3 = w3
  Pages = {w1, w2, w3}
  Kind <- KindOfPage
  Mentions <- SaidOnPage
  AllowedPages = {w1, w2}
  Requested = {"SECONDARY_WEB", "COMMUNITY"}
  MaxRedirects = 2
  MaxObservations = 3
SPECIFICATION WorkspaceSpec
CHECK_DEADLOCK FALSE
INVARIANTS
  NoFalseCompletion
  EarlyCancelWins
  ReplyFollowsQuestion
  AnswerIsOwn
  NoStrayBackend
  GroundingIsEarned
PROPERTIES
  SealedIsImmutable
