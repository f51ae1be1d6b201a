SPECIFICATION MCSpec
CONSTANTS
  p1 = p1
  p2 = p2
  t1 = t1
  t2 = t2
  a1 = a1
  h1 = h1
  Procs = {p1, p2}
  Tasks = {t1, t2}
  Holders = {a1, h1}
  Agents = {a1}
  NoOne = NoOne
  NoTask = NoTask
  Blocks = {}
  Edges <- MCEdges
  Moves = {"in_progress", "blocked", "completed"}
  Ops = {"create", "createAs", "assign", "hand", "unassign", "relate", "update", "unblock", "cancel", "delete", "depend", "undepend", "release", "crash"}
INVARIANTS
  TypeOK
  OneCallerHistory
  NobodyWaits
  NobodyTooEarly
  HolderInHistory
  HeldWhileBlocked
PROPERTIES
  OneCallerLegal
CHECK_DEADLOCK FALSE
