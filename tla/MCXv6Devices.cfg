SPECIFICATION MCSpec
CONSTANTS
  Proc = {1, 2, 3}
  Block = {n1, n2, n3}
  Value = {v}
  Machines <- MCMachines
  UINT16 = 24
  NoProc = NoProc
  NoBlock = NoBlock
  NoValue = NoValue
  Blank = Blank
  Reader = {"r1"}
  Writer = {"w1", "w2"}
  Letter = {"a"}
  INPUT_BUF_SIZE = 2
  UINT32 = 4
  Start = {3}
  UART_TX_BUF_SIZE = 1
  FIFO = 2
  Counts = {1, 2}
  Loads <- MCLoads
  None = None
  n1 = n1
  n2 = n2
  n3 = n3
INVARIANTS
  RefcntExact
  DescsExact
  TxExact
PROPERTIES
  ImplementsBlockStore
  ImplementsTty
  EverybodyServed
CHECK_DEADLOCK FALSE
