SPECIFICATION Spec
CONSTANTS
  Proc = {p1, p2}
  Syscall <- Syscalls
  NInodes = 4
  NINODE = 4
  NBlocks = 7
  PerBlock = 2
  NDIRECT = 1
  NINDIRECT = 1
  Disk <- Disks
  MaxCalls = 3
  None = None
SYMMETRY Symmetry
INVARIANT
  OrphansHeld
