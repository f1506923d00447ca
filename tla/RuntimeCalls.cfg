SPECIFICATION LedgerSpec
CONSTANTS
  Jobs = {j1}
  Cancellers = {}
  MaxAttempts = 2
  MaxRequests = 1
  MaxCrashes = 0
  NoJob = NoJob
INVARIANT CallsWithinBudget
CHECK_DEADLOCK FALSE
