SPECIFICATION FairSpec
CONSTANTS
  c1 = c1
  c2 = c2
  a = a
  p = p
  Client = {c1, c2}
  Command <- Commands
  Tool = {a}
  AnyTool = AnyTool
  Path = {p}
  NoPath = NoPath
  Name = {"response.tool_use", "response"}
  Answer <- Answers
  MaxStream = 4
  MaxEvents = 2
INVARIANT VerifiedTruth
PROPERTIES PassIsAnswered EvidenceKept InvocationsEnd
CHECK_DEADLOCK FALSE
