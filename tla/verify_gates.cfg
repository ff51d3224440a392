SPECIFICATION MCSpec
CONSTANTS
  m = m
  a1 = a1
  a2 = a2
  n1 = n1
  Verifier = {v1}
  Runner = {r1}
  Accepter = {a1, a2}
  Suite = {1, 2}
  RunName = {n1}
  Metric = {m}
  OptionalMetric = {m}
  MaxScore = 2
  Policies <- SuitePolicies
  Outcome <- SuiteOutcomes
  DefaultTolerance = 0
  Judges = 1
  Requests = {0, 1}
  MaxVerifies = 1
  MaxEvents = 2
SYMMETRY Symmetry
INVARIANTS PassedIsEarned ReportTruth BaselinesPassThemselves
PROPERTY ReplacedByForce
CHECK_DEADLOCK FALSE
