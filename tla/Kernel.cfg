CONSTANTS
  old = old
  new = new
  Procs = {old, new}
  NoProc = NoProc
  SameApp <- MCSameApp
  Version <- MCVersion
  Policy <- MCPolicy
  Threshold = 0
  Upcalls = {u1, u2}
  Fns = {f1}
  Null = Null
  QueueLen = 2
  MaxIdent = 4
SPECIFICATION Spec
INVARIANTS NeverUnrunnable TasksOfThisLife UniqueRunning
CHECK_DEADLOCK FALSE
PROPERTY ImplementsLifecycle
