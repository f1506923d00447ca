SPECIFICATION Spec
CONSTANTS
  Callers = {c1, c2}
  Keys = {k1}
  Articles = {a1}
  Bundles = {b1}
  AllowStaging = FALSE
  MaxRevision = 2
  MaxApprovals = 1
  MaxRestarts = 0
  Nothing = Nothing
PROPERTY EditBlocksPublishing
CHECK_DEADLOCK FALSE
