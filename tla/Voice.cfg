SPECIFICATION Spec
CONSTANTS
  Modes = {"vad", "stt", "manual"}
  MaxSegments = 2
  MaxSpeeches = 2
  MaxByHand = 1
  User = User
  Others = {Error}
  Drainer = Drainer
  MaxAgents = 3
  MaxReplies = 2
  MaxFrames = 2
  MaxUpdates = 1
  Plugins = {"deepgram", "assemblyai", "speechmatics", "openai", "google", "gladia", "azure", "aws"}
  MaxRetry = 1
  MaxFaults = 3
  MaxExpiries = 1
  NumProviders = 2
  MaxStreams = 2
CHECK_DEADLOCK FALSE
INVARIANTS
  TypeOK
PROPERTIES
  UserIsHeard
  AgentsTakeTurns
  PlayedAsRecorded
  VoiceGoesOn
