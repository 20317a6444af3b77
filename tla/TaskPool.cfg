SPECIFICATION FairSpec
CONSTANTS
  Total = 6
  TasksPerWorker = 4
  Rows = 2
  Inner = 3
  Columns = 3
  A <- SixWords
  B <- NineWords
  MayFail = TRUE
INVARIANTS NoThreadLeft
PROPERTIES ImplementsPool
CHECK_DEADLOCK FALSE
