SPECIFICATION FairSpec
CONSTANTS
  sos = sos
  uvm = uvm
  pre = pre
  main = main
  other = other
  uvm_end = uvm_end
  extract = extract
  end = end
  NULL = NULL
  Phases = {sos, uvm, pre, main, other, uvm_end, extract, end}
  Kind <- Kinds
  Succ <- Graph
  Sync <- Synced
  Order <- Addresses
  first = sos
  max_ready_to_end_iter = 2
  Targets <- Jumps
  MaxEvents = 2
  MaxJumps = 1
INVARIANTS
  OneExecution
  AliveExecutes
PROPERTIES
  EndsQuiet
  UsesObjections
  AllDone
  JumpsHappen
CHECK_DEADLOCK FALSE
