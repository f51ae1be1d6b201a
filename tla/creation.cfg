SPECIFICATION MCSpec
CONSTANTS
  p1 = p1
  p2 = p2
  p3 = p3
  due1 = due1
  due2 = due2
  it1 = it1
  it2 = it2
  it3 = it3
  sub1 = sub1
  tag1 = tag1
  tag2 = tag2
  todo1 = todo1
  todo2 = todo2
  ag1 = ag1
  rt = rt
  Procs = {p1, p2, p3}
  Keys <- MCKeys
  KindOf <- MCKindOf
  NoId = NoId
  Lists <- MCLists
  Template <- MCTemplate
  Templates = {rt}
INVARIANTS
  IInv
  TasksHaveKeys
  LostRaceFindsRow
  TaskEventsPublished
  CodesGapless
PROPERTIES
  KeepsRegistry
  CallsReturn
CHECK_DEADLOCK FALSE
