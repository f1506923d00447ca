SPECIFICATION MCSpec
CONSTANTS
  Threads = {t1, t2}
  u1 = u1
  u2 = u2
  u3 = u3
  Uploads = {u1, u2, u3}
  Projects = {"alpha", "beta"}
  Names = {"a.bin"}
  Contents = {"x", "y"}
  Asked <- AskedFor
  MaxRestarts = 2
  NoUpload = NoUpload
  Claims = {c1}
  Keys = {k1}
  MaxRevision = 2
  MaxClears = 1
  Nothing = Nothing
  e1 = e1
  e2 = e2
  Entities = {e1, e2}
  Values = {"x", "y"}
  IssuesOf <- IssueKinds
  Pages = {g1, g2}
  MaxCanary = 1
  MaxChanges = 3
  Proposable <- FourCandidates
  MaxReviews = 2
  Legacy = "legacy"
  MaxBuilt = 2
  MaxReceipts = 2
  MaxEdits = 2
  Jobs = {j1}
  Cancellers = {d1, d2}
  MaxAttempts = 3
  MaxRequests = 2
  MaxCrashes = 2
  NoJob = NoJob
INVARIANTS
  BudgetBound
  LeaseExclusive
  SuccessHasReceipt
  VerifiedHasBytes
  AckedSurvives
  CacheSound
  ReviewsSound
PROPERTIES
  NoBlindRetry
  CancelledNotGranted
SYMMETRY ThreadSymmetry
CHECK_DEADLOCK FALSE
