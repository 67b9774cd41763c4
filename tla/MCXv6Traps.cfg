SPECIFICATION MCSpec
CONSTANTS
  Hart = {0, 1}
  Proc = {p1}
  Naps <- MCNaps
  Length = 2
  UINT = 3
  NPROC = 2
  MaxCount = 4
  None = None
INVARIANTS
  TrapChecks
  DifferencesExact
PROPERTIES
  ResumesWhereInterrupted
  SleepLasts
