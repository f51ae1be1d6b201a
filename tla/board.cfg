SPECIFICATION MCSpec
CONSTANTS
  p1 = p1
  p2 = p2
  c1 = c1
  c2 = c2
  c3 = c3
  Procs = {p1}
  Cards = {c1, c2, c3}
  NoCard = NoCard
  Gap = 2
  Given = {0, 1}
  Sent = {}
  Gated = {c2}
  MaxRank = 6
  Scenarios = {"order", "states"}
  Values <- MCValues
  NoValue = NoValue
INVARIANTS
  WalksAreShortest
  OwnStateIsHere
PROPERTIES
  KeepsCardList
CHECK_DEADLOCK FALSE
