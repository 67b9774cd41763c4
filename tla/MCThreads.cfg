SPECIFICATION MCSpec
CONSTANTS
  MAX_QUEUE = 2
  Workers = {w1, w2, w3}
  FD = {f1, f2, f3, f4}
  None = None
  CHUNK_SIZE = 1
  BUFFER_CAPACITY = 2
  SLACK = 2
  Consumers = {c1, c2}
  MaxText = 6
  MAX_THREADS = 4
  MaxTextMt = 7
INVARIANTS
  RingIsFifo
  FdsOwnedOnce
  PrintsWordCount
PROPERTIES
  ServerGoesOn
  Finishes
