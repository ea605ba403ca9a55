SPECIFICATION Spec
CONSTANTS
  t1 = t1
  t2 = t2
  s1 = s1
  s2 = s2
  s3 = s3
  b1 = b1
  b2 = b2
  n1 = n1
  n2 = n2
  n3 = n3
  NULL = NULL
  Task <- MCTask
  Slot <- MCSlot
  NrInodes = 2
  Block <- MCBlock
  Name <- MCName
  NrEntries = 2
  Orderly = TRUE
SYMMETRY MCSymmetry
INVARIANTS
  Counted
  LinksCounted
  BlocksOwned
  NoPanic
