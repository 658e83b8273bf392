SPECIFICATION FairSpec
CONSTANTS
  Chunk = 3
  MaxSize = 4
  MaxRecv = 6
  MaxPdus = 3
  Capacity = 4
  Addresses = 2
  FailsOver = FALSE
CHECK_DEADLOCK FALSE
INVARIANT NoOverrun
INVARIANT InOrder
INVARIANT GotWhole
PROPERTY ImplementsChannel
