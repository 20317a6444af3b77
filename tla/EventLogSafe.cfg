SPECIFICATION Spec
CONSTANTS
  Clients = 2
  MaxRequests = 1
  Operations = {"multiplication", "transposition", "input"}
  LogCap = 2
  Faults = {"thread", "serve", "time", "logger"}
INVARIANTS ServerRecordsOrdered StampsUsedOnce LogKeepsUp
CHECK_DEADLOCK FALSE
