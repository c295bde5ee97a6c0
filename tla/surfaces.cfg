SPECIFICATION SurfacesSpec
CONSTANTS
  None = None
  SurfaceParts = {"action", "state", "pipe", "authored", "tools", "payload"}
  Submissions = {a, b, c}
  Surfaces = {x}
  Requests = {r}
  Artefacts = {chart}
  MaxForms = 2
  MaxRenders = 2
  SurfaceTurns = {1, 2, 3}
  SurfaceClients = {c1}
  StepLists <- MCStepLists
  PlanLimit = 1
  Overlap = FALSE
  PipeTools <- MCPipeTools
  Mappings <- MCMappings
  PipeCalls = {k1, k2}
  Attachments <- MCAttachments
  TextLengths = {3}
  Allowance = 2
  PageLimit = 1
  Surroundings <- MCSurroundings
  MaxRequests = 2
  MaxDocEdits = 1
  Surface = "workspace"
  UpdateMode = "patch"
  DataValues = {v1, v2}
  Layouts = {l1, l2}
  MaxDraws = 4
  MaxDrawTurns = 3
  Contracts = {d1}
  Blank = {d1}
  Scopes = {s1}
  Anchors = {on1}
  ToolSessions = {u1, u2}
  ToolCalls = {q1, q2}
  CacheTtl = 0
  MaxToolCalls = 2
  MaxHours = 1
  MaxDay = 1
  ObligationIds = {"COD"}
  EventKinds = {"deliver", "force_majeure"}
  ClauseNames = {"c1"}
  StatedKnobs = {"ratePeriod"}
  Amounts = {0, 1}
  MaxItems = 3
  MaxReviews = 1
INVARIANTS ActionTypeOK ConfirmedOnce RetryRunsOnce TraceIsClaimed SurfacesKept PipelineWhole ContractsSound
PROPERTY PositionKept
CHECK_DEADLOCK FALSE
