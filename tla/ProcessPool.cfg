SPECIFICATION FairSpec
CONSTANTS
  Total = 6
  TasksPerWorker = 2
  Rows = 2
  Inner = 3
  Columns = 3
  A <- SixWords
  B <- NineWords
  MayFail = TRUE
INVARIANTS EveryChunkArrives NothingLeft
PROPERTIES ImplementsPool
CHECK_DEADLOCK FALSE
