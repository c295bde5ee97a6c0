SPECIFICATION ConversationsSpec
CONSTANTS
  None = None
  ConversationParts = {"index", "queries", "views", "compaction", "channels"}
  Documents = {d1}
  Capabilities = {s1}
  FlushInterval = 5
  Clients = {c1, c2}
  MaxRequests = 2
  MaxFaults = 1
  RowCount = 4
  PageSize = 1
  Editors = {e1, e2}
  MaxTouches = 1
  MaxSaves = 3
  Tools = {f, g}
  StashKeys = {k1, k2}
  MaxParts = 5
  ResultsLimit = 1
  MaxSessionEvents = 4
  MaxCompactions = 3
  Retention = 1
  ModelWindow = 4
  RoutineThreshold = 2
  TaskWorkers = {w1, w2}
  ChannelNames = {"discord", "telegram", "whatsapp", "email"}
  ChatUsers = {u1}
  Deliveries = {m1}
  ChannelSkills = {s1}
  MaxLength = 2
  MaxEvents = 3
  MaxTries = 2
  Instances = {n1}
INVARIANTS SelectionConsistent HistoryHonest NothingForgotten RepliesWhole
PROPERTY RevisionsKept
CHECK_DEADLOCK FALSE
