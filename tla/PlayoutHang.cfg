SPECIFICATION FairSpec
CONSTANTS
  MaxSpeeches = 2
  MaxFrames = 2
CHECK_DEADLOCK FALSE
PROPERTIES
  WaitEnds
