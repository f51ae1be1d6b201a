SPECIFICATION MCSpec
CONSTANTS
  p1 = p1
  p2 = p2
  c1 = c1
  c2 = c2
  t1 = t1
  t2 = t2
  m1 = m1
  m2 = m2
  Procs = {p1, p2}
  Cases = {c1, c2}
  Tasks = {t1, t2}
  Members = {m1, m2}
  Nobody = Nobody
  NoCase = NoCase
  NoTask = NoTask
  Moves = {"in_progress", "completed", "cancelled", "failed"}
  Ops = {"update", "edit", "delete", "cascade", "reset", "link", "end", "vote", "takeBack", "crash"}
INVARIANTS
  AnnouncedOnce
  NothingLeftOpen
  OneCallerLeavesNoOpenTask
PROPERTIES
  EndedStaysEnded
  FirstVoteStands
CHECK_DEADLOCK FALSE
