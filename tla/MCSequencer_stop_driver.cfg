SPECIFICATION FairSpec
CONSTANTS
  a = a
  b = b
  c = c
  Seqs = {a, b}
  NULL = NULL
  Driver = Driver
  Parent <- Flat
  m_priority <- EqualPriority
  MaxRand = 2
  Ops = {"stop"}
  m_arbitration = "FIFO"
  FifoDepth = 2
  MaxRequests = 3
  MaxStarts = 3
PROPERTIES
  EventuallyGranted
CHECK_DEADLOCK FALSE
