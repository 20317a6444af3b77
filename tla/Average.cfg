SPECIFICATION MCFairSpec
CONSTANTS
  Total = 11
  TasksPerWorker = 4
  MayFail = TRUE
  Below = 2
  Above = 3
  MaxInt = 31
  MaxCells = 8
  Garbage = {0, 7}
  UserTasks = 2
INVARIANTS EveryWordOnce AverageAddsUp ProgramsAgree KilledByItsArguments
PROPERTIES NoWordLost PoolsReturn
CHECK_DEADLOCK FALSE
