SPECIFICATION MCSpec
CONSTANTS
  p1 = p1
  p2 = p2
  t1 = t1
  t2 = t2
  a1 = a1
  h1 = h1
  Procs = {p1}
  Tasks = {t1, t2}
  Holders = {a1}
  Agents = {a1}
  NoOne = NoOne
  NoTask = NoTask
  Blocks = {}
  Edges <- MCEdges
  Moves = {"completed"}
  Ops = {"create", "assign", "depend", "cancel", "update", "release"}
INVARIANTS
  WaitersReleased
CHECK_DEADLOCK FALSE
