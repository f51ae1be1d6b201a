SPECIFICATION MCSpec
CONSTANTS
  p1 = p1
  p2 = p2
  c1 = c1
  c2 = c2
  c3 = c3
  Procs = {p1, p2}
  Cards = {c1, c2, c3}
  NoCard = NoCard
  Gap = 4
  Given = {0, 3}
  Sent = {0, 3}
  Gated = {c2}
  MaxRank = 16
  Scenarios = {"two"}
  Values <- MCValues
  NoValue = NoValue
PROPERTIES
  OnlyPlacingMoves
CHECK_DEADLOCK FALSE
