\* Three elements are enough to see order and duplicates; four cells to have a
\* full ring, an empty one and every wrap-around.
CONSTANTS
  Elems = {a, b, c}
  N = 4
  None = None
  DEFCALLS_LEN = 4
  MaxCalls = 5
  p1 = p1
  p2 = p2
  p3 = p3
  Procs = {p1, p2, p3}
  NoProc = NoProc
  Slice0 = 1
  Slice1 = 2
  Slice2 = 3
  MinQuanta = 0
  W = 4
  Length = 2
  NoProcess = NoProcess
  MaxFooters = 2
  Kinds <- MCKinds
  Layouts <- MCLayouts
SPECIFICATION PartsSpec
INVARIANTS ViewsAgree NoCallLost Partition VerdictsGrounded
PROPERTIES ImplementsQueue NoOvertaking CheckingEnds
CHECK_DEADLOCK FALSE
