SPECIFICATION FairSpec
CONSTANTS
  NULL = NULL
  NrTasks = 3
  NR_REQUEST = 2
  MAX_ERRORS = 1
  MaxFaults = 2
  FaultySector <- FirstSector
  Quiet <- Windows
INVARIANTS
  Serving
  
PROPERTIES
  CallReturns
