SPECIFICATION Spec
CONSTANTS
  Ptrs = {p1, p2, p3}
  Wrap = 8
  n_bytes = 2
  Configs <- Spaces
  Offsets = {0, 1, 2, 3, 4, 5}
  Sizes = {1, 3, 4}
  MaxRegions = 3
INVARIANTS
  RegionsDisjoint
  InManagedSpace
  BurstsIsolated
SYMMETRY Addresses
CHECK_DEADLOCK FALSE
