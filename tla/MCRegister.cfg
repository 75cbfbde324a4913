SPECIFICATION Spec
CONSTANTS
  f = f
  g = g
  NULL = NULL
  Bits = {0}
  Procs = {p1, p2}
  Fields = {f, g}
  Data <- Written
  Resets <- ResetValues
  Setups <- AllSetups
INVARIANTS
  TypeOK
  MirrorIsDut
  NeverBlocked
PROPERTIES
  NeighboursKept
  ChecksAreRight
SYMMETRY Symmetric
CHECK_DEADLOCK FALSE
