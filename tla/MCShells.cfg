SPECIFICATION MCSpec
CONSTANTS
  Shells = {1, 2, 3}
  MiniPid = {p1, p2}
  Name = {x}
  Value = {a}
  MAX_VARS = 1
  MAX_JOBS <- Jobs
  MAX_BLOCK_LINES = 1
  MaxFd = 1
  Assigning = {1}
  MiniNone = None
  Pid = {1, 2, 3, 4, 5}
  NOFILE = 5
  MAXARGS = 4
  Lines <- ShLines
  MaxLines = 1
  Closed = Closed
INVARIANTS
  JobsExact
  ParsesRight
  StandardFds
PROPERTIES
  PromptsReturn
CHECK_DEADLOCK FALSE
