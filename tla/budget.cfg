SPECIFICATION MCSpec
CONSTANTS
  p1 = p1
  p2 = p2
  p3 = p3
  r1 = r1
  r2 = r2
  r3 = r3
  c1 = c1
  c2 = c2
  c3 = c3
  Procs = {p1, p2, p3}
  Runs = {r1, r2, r3}
  Children = {c1, c2, c3}
  Budgets = {1, 2}
  MaxAttempts = 3
  NoRun = NoRun
  GivenRoots = {}
  Ops = {"open", "recover", "budget", "charge", "save"}
INVARIANTS
  ChargedOnce
  RetryMeansProgress
  OneCallerRootsAlone
PROPERTIES
  CountsLikeACounter
  AlarmsAreTrue
  BudgetSettles
  ChargeReturns
CHECK_DEADLOCK FALSE
