SPECIFICATION Spec
CONSTANTS
  Total = 5
  TasksPerWorker = 4
  Garbage = {0, 7}
  MayFail = FALSE
INVARIANTS AverageIsRight
CHECK_DEADLOCK FALSE
