SPECIFICATION Spec
CONSTANTS
  a = a
  b = b
  c = c
  Seqs = {a, b, c}
  NULL = NULL
  Parent <- Nested
  m_priority <- MixedPriority
  MaxRand = 8
  QueueLength = 3
  Priorities <- ItemPriorities
  RoundModes = {"FIFO", "WEIGHTED", "RANDOM", "STRICT_FIFO", "STRICT_RANDOM", "USER"}
INVARIANTS GrantingIsComplete WeightedShare StrictPriority
CHECK_DEADLOCK FALSE
