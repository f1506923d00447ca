SPECIFICATION MCSpec
CONSTANTS
  Callers = {c1, c2}
  Keys = {k1, k2}
  Articles = {a1}
  Bundles = {b1}
  AllowStaging = TRUE
  MaxRevision = 2
  MaxApprovals = 2
  MaxRestarts = 1
  Nothing = Nothing
  Threads = {t1, t2}
  Drivers = {t1}
  Destinations = {"site", "blog"}
  BudgetCap = 2
  MaxEvents = 2
  Nil = Nil
  Drift = Drift
INVARIANTS
  DraftsAccounted
  AnswerStands
  LabSound
PROPERTY RevocationBlocks
SYMMETRY Symmetry
CHECK_DEADLOCK FALSE
