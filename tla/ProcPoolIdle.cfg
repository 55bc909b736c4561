SPECIFICATION FairSpec
CONSTANTS
  Job = {j1}
  NoJob = NoJob
  NumIdle = 1
  MaxInit = 1
  MaxProc = 3
  MaxFailures = 1
PROPERTIES
  LiveIdleIsKept
CHECK_DEADLOCK FALSE
