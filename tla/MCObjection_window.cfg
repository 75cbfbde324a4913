SPECIFICATION Spec
CONSTANTS
  top = top
  env = env
  x = x
  y = y
  Objs = {top, x, y}
  NULL = NULL
  Parent <- Flat
  DrainTimed = {x, y}
  Procs = {1, 2, 3}
  Ops = {"window"}
  MaxCount = 1
  MaxDrained = 1
  MaxContexts = 3
INVARIANTS
  NoClearedContext
CHECK_DEADLOCK FALSE
