SPECIFICATION Spec
CONSTANTS
  MaxSpeech = 3
  MaxTurns = 2
  MaxToolSteps = 1
  AllowInterruptions = TRUE
  ApiCalls <- MCApiCalls
INVARIANTS
  TypeOK
  OneSpeechOnFloor
  PlayedInOrder
  NeverListeningWhileSpeaking
  DrainLosesNothing
  QuietIsListening
PROPERTIES
  MessageBeforeDone
CHECK_DEADLOCK FALSE
