SPECIFICATION FairSpec
CONSTANTS
  Job = {j1, j2}
  NoJob = NoJob
  NumIdle = 0
  MaxInit = 1
  MaxProc = 4
  MaxFailures = 0
PROPERTIES
  EveryJobIsLaunched
CHECK_DEADLOCK FALSE
