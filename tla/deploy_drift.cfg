SPECIFICATION FairSpec
CONSTANTS
  a = a
  b = b
  m = m
  u = u
  dev = dev
  stage = stage
  prod = prod
  agentA = agentA
  agentB = agentB
  table = table
  raw = raw
  elsewhere = elsewhere
  Node = {a, b, m, u}
  Place = {agentA, agentB, table, raw, elsewhere}
  Database = {dev, stage, prod}
  DatabaseOf <- MCDatabaseOf
  Graphs <- Projects
  Elsewhere <- OtherTargets
  Request <- Requests
  MaxDeploys = 1
  MaxChanges = 1
INVARIANTS PlanIsFresh VerifiedReconciled OnlyApprovedAgents ReviewedResources NothingHidden
PROPERTIES CleanIsVerified DeployEnds
