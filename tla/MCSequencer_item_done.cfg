SPECIFICATION Spec
CONSTANTS
  a = a
  b = b
  c = c
  Seqs = {a, b}
  NULL = NULL
  Driver = Driver
  Parent <- Flat
  m_priority <- EqualPriority
  MaxRand = 2
  Ops = {"pipelined"}
  m_arbitration = "FIFO"
  FifoDepth = 2
  MaxRequests = 3
  MaxStarts = 2
INVARIANTS
  ItemDoneNotLost
CHECK_DEADLOCK FALSE
