SPECIFICATION FairSpec
CONSTANTS
  NULL = NULL
  NrTasks = 3
  MaxPid = 3
  Priority = 1
  MaxPriority = 2
  Tuning = {2}
  MaxAlarm = 1
  Sig <- Kill
  MaySleep = TRUE
  ReusePids = FALSE
INVARIANTS
  CurrentMayRun
PROPERTIES
  NoStarvation
  WaitReturns
  AlarmFires
