SPECIFICATION Spec
CONSTANTS
  c1 = c1
  c2 = c2
  Client = {c1, c2}
  BaseName = {name}
  Request = {0, 1}
  FirstVersions = {1}
  MaxVersion = 2
  MaxSource = 0
  Malformed = {}
  Retries = 0
  PollAttempts = 1
  MaxEvaluations = 2
  TraceLag = FALSE
  Rollbacks = TRUE
SYMMETRY Symmetry
INVARIANTS TypeOK PassedMeasuredIntended
