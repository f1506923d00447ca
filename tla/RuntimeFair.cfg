SPECIFICATION FairSpec
CONSTANTS
  Jobs = {j1, j2}
  Cancellers = {c1}
  MaxAttempts = 2
  MaxRequests = 1
  MaxCrashes = 0
  NoJob = NoJob
PROPERTIES
  QueueServed
  ImplementsAccount
CHECK_DEADLOCK FALSE
