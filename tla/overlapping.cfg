SPECIFICATION FairSpec
CONSTANTS
  p1 = p1
  p2 = p2
  cA = cA
  cB = cB
  latest = latest
  production = production
  Process = {p1, p2}
  Content = {cA, cB}
  Foreign = foreign
  NoContent = none
  Alias = {latest, production}
  ModelAlias = latest
  Command <- OverlappingCommands
  NoCommand = nocommand
  Exclusive = FALSE
  MaxCommands = 3
  MaxFaults = 0
INVARIANT PromiseKept
PROPERTY CommandsEnd
