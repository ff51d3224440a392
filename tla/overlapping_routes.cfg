SPECIFICATION Spec
CONSTANTS
  p1 = p1
  p2 = p2
  cA = cA
  cB = cB
  latest = latest
  production = production
  Process = {p1, p2}
  Content = {cA, cB}
  Foreign = foreign
  NoContent = none
  Alias = {latest, production}
  ModelAlias = latest
  Command <- ConflictingCommands
  NoCommand = nocommand
  Exclusive = FALSE
  MaxCommands = 4
  MaxFaults = 0
SYMMETRY Symmetry
INVARIANT CompletedRouteOwnsAlias
