SPECIFICATION Spec
CONSTANTS
  NULL = NULL
  NrTasks = 4
  MaxPid = 4
  Priority = 1
  MaxPriority = 1
  Tuning = {3}
  MaxAlarm = 0
  Sig <- Children2
  MaySleep = FALSE
  ReusePids = TRUE
INVARIANTS
  TypeOK
  PidsUnique
  FatherAlive
  NoZombieOverlooked
