SPECIFICATION Spec
CONSTANTS
  NULL = NULL
  NrTasks = 4
  NR_REQUEST = 4
  MAX_ERRORS = 0
  MaxFaults = 0
  FaultySector <- FirstSector
  Quiet <- Appending
CHECK_DEADLOCK FALSE
INVARIANTS
  QueueIntact
  RequestsWhole
  TwoSweeps
