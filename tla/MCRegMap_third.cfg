SPECIFICATION Spec
CONSTANTS
  status = status
  command = command
  command2 = command2
  control = control
  data = data
  ram = ram
  buffer = buffer
  NULL = NULL
  Regs = {status, command, command2}
  Mems = {}
  Policies <- FieldPolicies
  Size <- Sizes
  Home <- Homes
  Order <- InOrder
  Base = 8
  SubmapOffset = 2
  n_bytes = 2
  Garbage = {0, 15}
  Offsets = {0, 6}
INVARIANTS
  LookupRight
CHECK_DEADLOCK FALSE
