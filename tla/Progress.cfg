SPECIFICATION MCSpec
CONSTANTS
  Callers = {p1, p2}
  Keys = {k1, k2}
  Articles = {a1}
  Runs = {r1}
  PortAttempts = 1
  ReconcileLimit = 2
  MaxCrashes = 1
  MaxRollbacks = 1
  Nobody = Nobody
  NoRun = NoRun
  NoReceipt = NoReceipt
  Count = 2
  MaxRequests = 5
  MaxBatch = 2
  MaxRelations = 1
  MaxPages = 2
  MaxRelationPages = 2
  PageSize = 1
  RetryBudget = 1
  MaxRows = 3
  MaxThrottle = 2
INVARIANTS
  VerdictSound
PROPERTIES
  LockServed
  PagesComplete
  PreflightEnds
CHECK_DEADLOCK FALSE
