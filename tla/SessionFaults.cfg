SPECIFICATION Spec
CONSTANTS
  Shapes <- AllShapes
  Services <- Every
  MaxChoices = 3
  PipeCap = 10
  SegCap = 8
  Faults = {"mkfifo", "fork", "exec", "thread", "kill"}
INVARIANTS RightAnswer HangHasCause ServerSurvives CleanAtTop
CHECK_DEADLOCK FALSE
