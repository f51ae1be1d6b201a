SPECIFICATION FairSpec
CONSTANTS
  p1 = p1
  p2 = p2
  a = a
  aClosed = aClosed
  b = b
  t1 = t1
  t2 = t2
  w1 = w1
  w2 = w2
  Procs = {p1}
  Runs = {a, b}
  Tasks = {t1, t2}
  Workflows = {w1}
  Versions = {1}
  NoRun = NoRun
  NoWorkflow = NoWorkflow
  CancelName <- NoClosing
  PageSize = 1
  OpenNames = {a, b}
  DependsOn <- MCDependsOn
  TaskMoves = {"in_progress", "split"}
  Ops = {"open", "cancel", "finalize", "stop", "rollback", "purge", "createTask", "updateTask", "deleteTask", "linkTask"}
INVARIANTS
  CascadeComplete
PROPERTIES
  RollbackSettles
  ForeignDependencyKept
CHECK_DEADLOCK FALSE
