SPECIFICATION Spec
SYMMETRY Symmetry
CONSTANTS
  Op = {o1, o2, o3}
  Block = {b1, b2, b3, b4}
  Val = {v0, v1}
  InitVal = v0
  MAXOPBLOCKS = 2
  LOGSIZE = 4
  LogBlocks = 5
  OpBlocks = 1
  None = None
INVARIANTS
  LogSpace
  SleeperHasWaker
PROPERTY
  ImplementsAtomicDisk
