SPECIFICATION Spec
CONSTANTS
  A = A
  B = B
  C = C
  env = env
  agent = agent
  NULL = NULL
  Types = {A, B, C}
  Wildcards = {}
  Paths = {env}
  Order <- OnlyEnv
  Request <- OnlyA
  Registrable <- CAlways
  Pairs <- LateLoop
  Patterns = {}
  MaxCalls = 5
PROPERTY MadeAsPromised
CHECK_DEADLOCK FALSE
