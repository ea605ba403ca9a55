SPECIFICATION FairSpec
CONSTANTS
  t1 = t1
  t2 = t2
  p1 = p1
  a = a
  b = b
  NULL = NULL
  Regular = Regular
  Task <- MCTask
  First = t1
  NR_OPEN = 2
  NR_FILE = 2
  Pipe <- MCPipe
  Byte <- MCByte
  PAGE_SIZE = 3
  Marking = {0, 1}
  Message <- Long
CHECK_DEADLOCK FALSE
INVARIANTS
  Counted
  AsleepForAReason
PROPERTIES
  
  HangupSeen
