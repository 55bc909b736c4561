SPECIFICATION FairSpec
CONSTANTS
  MaxSpeech = 2
  MaxTurns = 1
  MaxToolSteps = 1
  AllowInterruptions = TRUE
  ApiCalls <- MCAllApiCalls
PROPERTIES
  DrainEnds
CHECK_DEADLOCK FALSE
