SPECIFICATION Spec
CONSTANTS
  MaxSpeech = 3
  MaxTurns = 1
  MaxToolSteps = 1
  AllowInterruptions = TRUE
  ApiCalls <- MCAllApiCalls
INVARIANTS
  ToolCallsBounded
CHECK_DEADLOCK FALSE
