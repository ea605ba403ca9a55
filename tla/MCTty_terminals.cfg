SPECIFICATION MCSpec
CONSTANTS
  reader = reader
  writer = writer
  NULL = NULL
  Task <- Programs
  Size = 4
  LowRoom = 2
  Slack = 0
  Startup = 1
  Setup <- Terminals
  lines = 2
  columns = 2
  Rows = 3
  TabStop = 2
  NPAR = 2
  MaxPar = 3
  Code7 = 2
  Code8 = 1
CHECK_DEADLOCK FALSE
INVARIANTS
  
  TimerIsOver
  ScreenWhole
PROPERTIES
  
  CallsReturn
  
