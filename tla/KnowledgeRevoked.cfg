SPECIFICATION Spec
CONSTANTS
  Threads = {t1, t2}
  Claims = {c1}
  Keys = {k1}
  MaxRevision = 2
  MaxClears = 1
  Nothing = Nothing
INVARIANT RevokedStayOut
CHECK_DEADLOCK FALSE
