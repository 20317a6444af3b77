SPECIFICATION FairSpec
CONSTANTS
  Clients = 1
  MaxRequests = 2
  Operations = {"multiplication", "transposition", "input"}
  LogCap = 1
  Faults = {"thread", "serve", "stop", "time", "logger", "client", "exec", "worker"}
INVARIANTS EndsHaveCauses
PROPERTIES WorkerStarts HelpersEnd
CHECK_DEADLOCK FALSE
