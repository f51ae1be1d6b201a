SPECIFICATION MCSpec
CONSTANTS
  Procs = {p1, p2, p3}
  Jobs = {j1}
  NoJob = NoJob
  Size = 3
  Deps <- MCDeps
INVARIANTS
  IInv
PROPERTIES
  CancelledStops
  ImportsEnd
CHECK_DEADLOCK FALSE
