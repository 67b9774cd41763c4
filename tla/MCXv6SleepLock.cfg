SPECIFICATION LockSpec
CONSTANTS
  NPROC = 3
  CPU = {c1, c2}
  None = None
INVARIANTS
  SleepLockExclusive
  KernelStackExclusive
  SchedChecks
  NoLostWakeup
PROPERTY
  ImplementsMutex
