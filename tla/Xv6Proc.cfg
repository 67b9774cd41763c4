SPECIFICATION FairSpec
CONSTANTS
  NPROC = 3
  MaxPid = 4
  KillPids = {0, 1, 3}
  MemFails = TRUE
  None = None
INVARIANTS
  SlotsReusedClean
  ExitIsSeen
PROPERTY
  InitReaps
CHECK_DEADLOCK FALSE
