SPECIFICATION Spec
CONSTANTS
  c1 = c1
  c2 = c2
  t1 = t1
  t2 = t2
  Absent = Absent
  Client = {c1, c2}
  Text = {t1}
  File = {"SKILL.md", "notes.md"}
  Skills = 2
  Modes = {"immutable", "overwrite"}
  Trusted = {"applied"}
  EditsAnytime = TRUE
  MaxCommands = 2
  MaxEdits = 1
  MaxPlaced = 0
SYMMETRY Clients
INVARIANT VersionsKeepTheirText
PROPERTY OnlyInventoriedFiles
