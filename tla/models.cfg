SPECIFICATION ModelsSpec
CONSTANTS
  None = None
  ModelParts = {"budget", "llm", "history", "registry", "config", "voice"}
  Slots = {s1, s2}
  Costs = {1, 2, 4}
  Cap = 6
  Soft = 4
  MaxCalls = 3
  MaxPeriod = 2
  AgentCalls = {a1, a2}
  ToolCalls = {k1}
  ChainProviders <- Chain
  RungCount = 2
  MaxRetries = 1
  Threshold = 2
  ToolNames = {f, g}
  MaxNative = 2
  MaxParts = 4
  Providers = {p1}
  DynModels = {m1}
  Keyless = {}
  Workers = {w1, w2}
  MaxEdits = 5
  ProviderBodies <- MCProviderBodies
  ModelBodies <- MCModelBodies
  Processes = {i1, i2}
  Threads = {t1, t2}
  MaxWrites = 2
  Speakers = {v1, v2}
  Texts = {t1}
  Personas <- MCPersonas
  EnvProvider = None
  MaxSpoken = 3
  MaxVoiceEdits = 1
INVARIANTS SpendIsLedger CapHolds ModelCallsSound CachesTruthful
CHECK_DEADLOCK FALSE
