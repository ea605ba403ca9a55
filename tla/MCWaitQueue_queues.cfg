SPECIFICATION FairSpec
CONSTANTS
  a = a
  b = b
  c = c
  buf = buf
  tty = tty
  Idle = Idle
  NULL = NULL
  Task <- MCTask
  Queue <- Queues
  IntQueue <- Terminal
  Readers <- OneOrTwo
  CliQueue <- Cli
  IrqQueue <- Cli
INVARIANTS
  NoneCutOff
PROPERTIES
  NoRevival
  KeepsPromise
