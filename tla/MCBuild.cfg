SPECIFICATION Spec
CONSTANTS
  A = A
  B = B
  C = C
  env = env
  agent = agent
  NULL = NULL
  Types = {A, B, C}
  Wildcards <- AnyAB
  Paths = {env, agent}
  Order <- Chain
  Request <- AllA
  Registrable <- EarlyOrLate
  Pairs <- Called4
  Patterns <- EnvOrAll
  MaxCalls = 3
PROPERTIES
  ReadsTheHighest
  MadeAsPromised
CHECK_DEADLOCK FALSE
