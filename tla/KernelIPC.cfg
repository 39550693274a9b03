CONSTANTS
  old = client
  new = service
  Procs = {client, service}
  NoProc = NoProc
  SameApp = {}
  Version <- MCVersion
  Policy <- MCPolicy
  Threshold = 0
  Upcalls = {u1}
  Fns = {f1, f2}
  Null = Null
  QueueLen = 2
  MaxIdent = 3
SPECIFICATION Spec
INVARIANTS EndedIsClean PendingUpcallsCurrent
CHECK_DEADLOCK FALSE
