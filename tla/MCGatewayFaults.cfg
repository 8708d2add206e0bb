CONSTANTS
  post = post
  repost = repost
  write = write
  read = read
  key = key
  Calls = {c1}
  Approvals = {p1, p2}
  Actions <- MixedActions
  Gated = {post}
  Consequential <- MixedHeavy
  Keys = {key}
  KeyOf <- MixedKeyOf
  MaxRetries = 1
  MaxFaults = 2
  MaxCrashes = 2
  NoKey = NoKey
  NoAction = NoAction
  NoToken = NoToken
  NoCall = NoCall
SPECIFICATION FairSpec
INVARIANTS
  NotDispatchedTruthful
  ConfirmedIsDefinite
  ReplyTruthful
PROPERTIES
  ClaimedEventuallySpent
  LostDispatchReported
