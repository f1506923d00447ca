SPECIFICATION Spec
CONSTANTS
  Callers = {p1, p2}
  Keys = {k1, k2}
  Articles = {a1}
  Runs = {r1}
  PortAttempts = 1
  ReconcileLimit = 2
  MaxCrashes = 0
  MaxRollbacks = 0
  Nobody = Nobody
  NoRun = NoRun
  NoReceipt = NoReceipt
PROPERTY NoCreateAfterRevocation
CHECK_DEADLOCK FALSE
