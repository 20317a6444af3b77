SPECIFICATION FairSpec
CONSTANTS
  Clients = 2
  MaxRequests = 1
  Operations = {"transposition"}
  LogCap = 2
  Faults = {}
PROPERTIES WorkerStarts
CHECK_DEADLOCK FALSE
