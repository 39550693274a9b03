CONSTANTS
  p1 = p1
  p2 = p2
  p3 = p3
  empty = empty
  Slots = {p1, p2, p3, empty}
  Present = {p1, p2, p3}
  NoSlot = NoSlot
  Schedulers = {"round_robin", "cooperative", "priority"}
  Timeslice = 3
  MinQuanta = 1
SPECIFICATION Spec
INVARIANTS TimesliceNonzero FairTurns
PROPERTIES WorkIsDone ReadyRuns
