SPECIFICATION FairSpec
CONSTANTS
  t1 = t1
  t2 = t2
  plain = plain
  append = append
  NULL = NULL
  Task = {t1, t2}
  File = {plain, append}
  Appending = {append}
  Data <- MCData
  NrBlocks = 5
  NDirect = 1
  BLOCK_SIZE = 2
  Fan = 2
  Counts = {2}
  Seeks = {3, 6}
  MaxCalls = 4
  MaxFaults = 1
CHECK_DEADLOCK FALSE
INVARIANTS
  EachBlockOnce
PROPERTIES
  IsByteFile
  CallsEnd
