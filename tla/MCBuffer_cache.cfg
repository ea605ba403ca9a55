SPECIFICATION Spec
CONSTANTS
  t1 = t1
  t2 = t2
  k1 = k1
  k2 = k2
  k3 = k3
  k4 = k4
  NULL = NULL
  Task <- MCTask
  NR_BUFFERS = 3
  Blk <- FourBlocks
  MaxChanges = 2
  MaxFaults = 1
SYMMETRY MCSymmetry
INVARIANTS
  Consistent
  Coherent
  NobodyStranded
