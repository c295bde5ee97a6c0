SPECIFICATION AuthoredSpec
CONSTANTS
  None = None
  Surface = "workspace"
  UpdateMode = "patch"
  DataValues = {v1, v2}
  Layouts = {l1, l2}
  MaxDraws = 4
  MaxDrawTurns = 3
INVARIANT ReplayKeepsAgentData
CHECK_DEADLOCK FALSE
