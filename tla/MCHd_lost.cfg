SPECIFICATION Spec
CONSTANTS
  NULL = NULL
  NrTasks = 2
  NR_REQUEST = 2
  MAX_ERRORS = 0
  MaxFaults = 0
  FaultySector <- FirstSector
  Quiet <- Everywhere
INVARIANTS
  QueueIntact
