SPECIFICATION Spec
CONSTANTS
  Jobs = {j1}
  NoJob = NoJob
  Capacity = 1
  MaxDrops = 1
  MaxProcs = 1
  MaxTraces = 1
  MaxFreezes = 1
  Clients = {c1, c2}
  PerJob = 1
  NumProviders = 2
  MaxRetry = 1
  MaxTokens = 3
  LlmPlugins = {"openai", "anthropic", "google", "aws"}
  MaxOuter = 1
  MaxParts = 2
  MaxExpiries = 1
  MaxReplies = 1
  MaxGens = 2
  MaxRecovery = 1
  MaxFaults = 1
  Items = {i1, i2, i3}
  Nil = Nil
  Calls = {i1}
  MaxLen = 2
  MaxUpdates = 1
  MaxSaid = 1
  MaxReconnects = 1
CHECK_DEADLOCK FALSE
INVARIANTS
  TypeOK
  GeneratedOnce
  SuccessHasRun
  RealtimeInStep
  ChatIsRight
PROPERTIES
  ServerIsTold
  ServicesAnswer
