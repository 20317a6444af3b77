SPECIFICATION FairSpec
CONSTANTS
  Shapes <- SmallShapes
  Services <- Unserved
  MaxChoices = 2
  PipeCap = 16
  SegCap = 8
  Faults = {}
PROPERTIES ExitTerminates
CHECK_DEADLOCK FALSE
