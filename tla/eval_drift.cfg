SPECIFICATION FairSpec
CONSTANTS
  c1 = c1
  c2 = c2
  Client = {c1}
  BaseName = {name}
  Request = {0}
  FirstVersions = {2}
  MaxVersion = 2
  MaxSource = 1
  Malformed = {1}
  Retries = 1
  PollAttempts = 2
  MaxEvaluations = 2
  TraceLag = TRUE
  Rollbacks = FALSE
INVARIANTS PassedMeasuredIntended PassedOnSnapshot RowsOfNamedRun NoRunAbandoned
PROPERTIES EvaluationsEnd EvidenceKept
