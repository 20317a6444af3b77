SPECIFICATION MCFairSpec
CONSTANTS
  Clients = {c1, c2}
  MaxRequests = 2
  MaxDescriptors = 7
  ServerMayEnd = TRUE
  Queries = {q1, q2}
  query = q1
  Stop = stop
  MaxStarts = 2
INVARIANTS AnswersAreRight LimitNeedsLeaks NoCircularHold  WorkerIsKnown
PROPERTIES RequestsReturn OrphansEnd AloneReturns
CHECK_DEADLOCK FALSE
