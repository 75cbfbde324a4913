SPECIFICATION Spec
CONSTANTS
  top = top
  env = env
  x = x
  y = y
  Objs = {top, x, y}
  NULL = NULL
  Parent <- Flat
  DrainTimed = {x, y}
  Procs = {1, 2, 3}
  Ops = {"clear"}
  MaxCount = 1
  MaxDrained = 2
  MaxContexts = 3
INVARIANTS
  ClearedIsIdle
CHECK_DEADLOCK FALSE
