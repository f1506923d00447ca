SPECIFICATION MCSpec
CONSTANTS
  Callers = {p1, p2}
  Keys = {k1, k2}
  Articles = {a1}
  Runs = {r1, r2}
  PortAttempts = 2
  ReconcileLimit = 3
  MaxCrashes = 1
  MaxRollbacks = 1
  Nobody = Nobody
  NoRun = NoRun
  NoReceipt = NoReceipt
  Procs = {p1, p2}
  Parts = 1
  Sources = {"s"}
  Proposals <- HandMade
  Waiting <- NoEvidence
  Issues = {1}
  Earlier = "a"
  MaxRuns = 3
  MaxEvents = 2
INVARIANTS
  UnknownRecorded
  DraftsOwned
  EvidenceSound
PROPERTY ImplementsContract
SYMMETRY CallerSymmetry
CHECK_DEADLOCK FALSE
