SPECIFICATION FairSpec
CONSTANTS
  Shapes <- SmallShapes
  Services <- Working
  MaxChoices = 4
  PipeCap = 16
  SegCap = 8
  Faults = {"kill"}
PROPERTIES RefinesPromise ExitTerminates HandlerEnds
CHECK_DEADLOCK FALSE
