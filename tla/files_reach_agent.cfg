SPECIFICATION AccessSpec
CONSTANTS
  None = None
  AccessParts = {"a2a"}
  Variants <- MCVariants
  Policies <- MCPolicies
  McpDocs <- MCMcpDocs
  Visitor = "visitor"
  Datastore = FALSE
  EnforcerSet = FALSE
  MaxSkillEdits = 1
  PolicyDocs <- MCPolicyDocs
  OwnedSkills = {"k1"}
  SharedSkills = {"k2"}
  Servers = {"s1"}
  Sources = {"n1"}
  TagSets = {{}}
  CacheMax = 1
  PolicyTtl = 2
  MaxPolicyEdits = 2
  Emails = {ann, root}
  AdminEmail = root
  OidcRequests = {q1, q2}
  MaxIdentityOps = 4
  MaxKeys = 2
  GroupProcesses = {i1, i2}
  GroupCodes = {g1}
  Creators = {u1, u2}
  SessionCap = 1
  GroupLife = 3
  TokenLife = 1
  Capacity = 2
  TokenTicks = 1
  MaxGroupTicks = 3
  MaxGroupOps = 5
  MaxGroupFaults = 1
  Principals = {p1, p2}
  A2aContexts = {x1}
  TaskIds = {t1}
  A2aMessages <- MCA2aMessages
  PeerRequests = {r1, r2}
  McpServers = {s1}
  McpTools = {f}
  ProxyCalls = {q1}
  MaxPeerOps = 3
  MaxFileSize = 1
INVARIANT FilesReachAgent
CHECK_DEADLOCK FALSE
