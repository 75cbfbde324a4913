SPECIFICATION Spec
CONSTANTS
  a = a
  b = b
  c = c
  Seqs = {a, b, c}
  NULL = NULL
  Driver = Driver
  Parent <- Nested
  m_priority <- EqualPriority
  MaxRand = 2
  Ops = {"lock", "grab", "kill", "stop"}
  m_arbitration = "FIFO"
  FifoDepth = 2
  MaxRequests = 2
  MaxStarts = 3
INVARIANTS
  NoLostGrant
  DriverAwake
  RequestNotLost
  NoDeadHolder
PROPERTIES
  StopKillsAll
CHECK_DEADLOCK FALSE
