SPECIFICATION Spec
CONSTANTS
  p1 = p1
  p2 = p2
  cA = cA
  cB = cB
  latest = latest
  production = production
  Process = {p1, p2}
  Content = {cA, cB}
  Foreign = foreign
  NoContent = none
  Alias = {latest, production}
  ModelAlias = latest
  Command <- SerialCommands
  NoCommand = nocommand
  Exclusive = TRUE
  MaxCommands = 6
  MaxFaults = 3
SYMMETRY Symmetry
INVARIANTS LabelTruth NoDuplicateManaged PromiseKept ReportTruth RetryConverges
PROPERTIES UnfinishedFrozen ImplementsHistory
