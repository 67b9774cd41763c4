SPECIFICATION FairSpec
CONSTANTS
  Proc = {p1, p2}
  First = p1
  Byte = {b0, b1}
  Sizes = {0, 3}
  PIPESIZE = 2
  UINT = 4
  Victims = {p2}
  None = None
INVARIANTS
  NoUseAfterFree
  EndsAndWaitsJustified
PROPERTY
  ImplementsByteStream
  CloseUnblocks
CHECK_DEADLOCK FALSE
