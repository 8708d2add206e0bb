CONSTANTS
  dv = dv
  du = du
  Library <- TwoDocuments
  Verified = {dv}
  Readers <- VerifiedForCmo
  url1 = url1
  Followed <- OnePage
  Fits = 3
  MaxFacts = 1
  Uncited = Uncited
SPECIFICATION PipelineSpec
CHECK_DEADLOCK FALSE
PROPERTIES
  SourceIdsAreUnique
