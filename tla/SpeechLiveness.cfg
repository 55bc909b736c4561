SPECIFICATION RepliesSpec
CONSTANTS
  MaxSpeech = 2
  MaxTurns = 1
  MaxToolSteps = 1
  AllowInterruptions = TRUE
  ApiCalls <- MCAllApiCalls
  Given = {"not given", "none"}
  MaxChanges = 1
INVARIANTS
  RepliesInStep
PROPERTIES
  SpeechesEnd
  ImplementsFloor
CHECK_DEADLOCK FALSE
