SPECIFICATION MediaSpec
CONSTANTS
  User = {u1, u2, u3}
  Owner = owner
  MaxConn = 3
  Users = {"p1", "p2"}
  NoOne = "none"
  MaxTracks = 2
  MaxChoices = 2
  MaxTextCalls = 3
  Others = {"other"}
  Entries = {"e1", "e2"}
  Waits = {"w1"}
  MaxVisits = 3
  MinSpeech = 2
  MinSilence = 2
  Prefix = 2
  Buffered = {2, 4}
  MaxWindows = 10
  MaxUpdates = 1
  SttPlugins = {"deepgram", "gladia", "assemblyai", "azure", "google", "openai", "speechmatics", "aws", "fal", "clova", "elevenlabs"}
  MaxStreams = 2
  TtsPlugins = {"cartesia", "deepgram", "elevenlabs", "resemble", "google", "azure", "neuphonic", "playai", "lmnt", "hume", "openai", "groq", "speechify", "rime", "aws"}
  MaxRequests = 2
  MaxCalls = 2
  MaxFaults = 1
INVARIANTS
  TypeOK
  ExclusiveUse
  
  
  SpeechIsDetected
  OptionsAreFollowed
  
PROPERTIES
  NeverHandsOutClosing
  RemovedIsQueued
SYMMETRY UserSymmetry
CHECK_DEADLOCK FALSE
