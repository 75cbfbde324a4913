SPECIFICATION Spec
CONSTANTS
  top = top
  env = env
  x = x
  y = y
  Objs = {top, env, x, y}
  NULL = NULL
  Parent <- Tree
  DrainTimed = {x, y}
  Procs = {1, 2, 3}
  Ops = {"clear", "reraise"}
  MaxCount = 2
  MaxDrained = 1
  MaxContexts = 3
INVARIANTS
  Conservation
  DrainsAreIdle
  ContextsInOnePlace
  AllDroppedIsTrue
PROPERTIES
  ImplementsRoot
CHECK_DEADLOCK FALSE
