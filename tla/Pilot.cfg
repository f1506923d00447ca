SPECIFICATION MCSpec
CONSTANTS
  Stable = {k}
  Chunks = {c}
  RunIds = {x, y}
  MaxRows = 1
  MaxFaults = 1
  Runners = {u1, u2}
  Contracts = {a, b}
  Digests = {d, e}
  MaxStops = 1
  NoReceipt = NoReceipt
  Count = 5
  Signatures = {"s", "t", "u"}
  N = 2
  MaxEdits = 2
INVARIANTS
  CardsUnique
  NoopDone
  ClustersSound
  PassRestored
PROPERTIES
  ExportFaithful
  AppliedIsFinal
  NoEditLost
SYMMETRY PilotSymmetry
CHECK_DEADLOCK FALSE
