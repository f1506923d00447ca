SPECIFICATION MCSpec
CONSTANTS
  k1 = k1
  k2 = k2
  Keys = {k1, k2}
  Requests <- RequestsOf
  Attempts <- AttemptsOf
  MaxRevision = 2
  MaxCrashes = 1
  MaxFaults = 2
  Nothing = Nothing
  Callers = {c1, c2}
  RequestIds = {"r1"}
  RequestOf <- OneRequest
  MaxRestarts = 2
INVARIANTS
  ToldIsKept
  NoWorkTwice
PROPERTIES
  CancelStands
  EveryJobEnds
CHECK_DEADLOCK FALSE
