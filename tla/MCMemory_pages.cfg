SPECIFICATION Spec
CONSTANTS
  NR_TASKS = 3
  PAGING_PAGES = 6
  NrTables = 2
  NrEntries = 2
  NrLow = 1
  MAX_ARG_PAGES = 1
  MaxImage = 1
  Value <- OneValue
  Touched <- BothTables
  SharedArray = FALSE
CHECK_DEADLOCK FALSE
INVARIANTS
  PagesOwned
PROPERTIES
  LostOnlyWhenFull
  Private
