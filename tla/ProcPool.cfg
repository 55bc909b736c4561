SPECIFICATION PartSpec
CONSTANTS
  Job = {j1, j2}
  NoJob = NoJob
  NumIdle = 1
  MaxInit = 2
  MaxProc = 4
  MaxFailures = 1
  Plugins = {"elevenlabs", "cartesia", "resemble", "deepgram", "google", "adapter", "elevenlabs_chunk", "cartesia_chunk", "google_chunk", "rime"}
  MaxRetry = 1
  MaxTokens = 3
  PerToken = 2
  MaxTtsFaults = 2
  MaxReplies = 2
  MaxChanges = 1
  MaxFaults = 1
  Users = {"p1", "p2"}
  Others = {"other"}
  None = None
  MaxChoices = 2
  MaxTraces = 1
  MaxSounds = 3
  MaxReconnects = 2
INVARIANTS
  TypeOK
  WarmIsReady
  LiveIsListed
  NoOverspawn
  ClosedLeavesNothing
  StreamsInOrder
  GeminiInStep
  RoomInStep
PROPERTIES
  PartsEnd
CHECK_DEADLOCK FALSE
