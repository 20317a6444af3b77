SPECIFICATION MCFairSpec
CONSTANTS
  workerCount = 2
  MayFail = TRUE
  Words <- TwoSizes
  PipeCap = 5
  rowsA = 2
  columnsA = 1
  columnsB = 2
  A <- TwoWords
  B <- TwoMore
  tasksPerWorker = 3
  Chunks <- OneOneTwo
INVARIANTS FreedWhenDone SuccessMeansAll EveryResultArrives PrintedIsRight FreedTwiceIfEmpty MainSurvives OutputIsRight
PROPERTIES Ends
CHECK_DEADLOCK FALSE
