SPECIFICATION Spec
CONSTANTS
  c1 = c1
  c2 = c2
  t1 = t1
  t2 = t2
  Absent = Absent
  Client = {c1, c2}
  Text = {t1, t2}
  File = {"SKILL.md", "notes.md"}
  Skills = 1
  Modes = {"immutable"}
  Trusted = {"applied"}
  EditsAnytime = TRUE
  MaxCommands = 3
  MaxEdits = 1
  MaxPlaced = 1
SYMMETRY Symmetry
INVARIANTS VersionsKeepTheirText UnchangedCommitsNothing
