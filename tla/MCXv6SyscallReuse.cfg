SPECIFICATION Spec
CONSTANTS
  NPROC = 2
  MaxCount = 4
  None = None
INVARIANTS
  CountsOwnCalls
