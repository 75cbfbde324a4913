SPECIFICATION Spec
CONSTANTS
  a = a
  b = b
  c = c
  Seqs = {a, b}
  NULL = NULL
  Driver = Driver
  Parent <- Flat
  m_priority <- BFirst
  MaxRand = 2
  Ops = {"lock", "kill", "response", "pipelined", "lock_request", "relevance"}
  m_arbitration = "STRICT_RANDOM"
  FifoDepth = 2
  MaxRequests = 3
  MaxStarts = 2
INVARIANTS
  LockChain
  Registered
  NeverFatal
CHECK_DEADLOCK FALSE
