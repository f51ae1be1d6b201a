SPECIFICATION Spec
CONSTANTS
  p1 = p1
  p2 = p2
  a = a
  aClosed = aClosed
  b = b
  t1 = t1
  t2 = t2
  w1 = w1
  w2 = w2
  Procs = {p1}
  Runs = {a, aClosed}
  Tasks = {t1}
  Workflows = {w1}
  Versions = {1}
  NoRun = NoRun
  NoWorkflow = NoWorkflow
  CancelName <- MCCancelName
  PageSize = 3
  OpenNames = {a, aClosed}
  DependsOn = {}
  TaskMoves = {"in_progress", "completed", "split"}
  Ops = {"open", "status", "cancel", "finalize", "stop", "begin", "answer", "sweep", "rollback", "purge", "timeout", "createTask", "updateTask", "linkTask", "createTodo", "crash"}
PROPERTIES
  LegalRunSteps
  RolledBackIsClean
CHECK_DEADLOCK FALSE
