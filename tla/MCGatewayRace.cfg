CONSTANTS
  post = post
  repost = repost
  write = write
  read = read
  key = key
  Calls = {c1, c2}
  Approvals = {p1, p2}
  Actions <- PublishActions
  Gated <- PublishActions
  Consequential <- PublishActions
  Keys = {key}
  KeyOf <- PublishKeyOf
  MaxRetries = 1
  MaxFaults = 1
  MaxCrashes = 1
  NoKey = NoKey
  NoAction = NoAction
  NoToken = NoToken
  NoCall = NoCall
SPECIFICATION Spec
INVARIANTS
  LedgerAgrees
PROPERTIES
  ImplementsGovernedEffects
