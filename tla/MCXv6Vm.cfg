SPECIFICATION Spec
CONSTANTS
  Proc = {1, 2}
  RamSizes = {9, 16, 26}
  PGSIZE = 2
  USERSTACK = 2
  MAXSZ = 12
  UINT64 = 64
  ExecCalls <- MCExecCalls
  Grows <- MCGrows
  Buffers <- MCBuffers
  Value = {v}
  MaxCalls = 3
  Zero = Zero
  Junk = Junk
  Guard = Guard
  None = None
  insn = insn
  datum = datum
INVARIANTS
  PagesOwnedOnce
PROPERTY
  ImplementsAddrSpace
CHECK_DEADLOCK FALSE
