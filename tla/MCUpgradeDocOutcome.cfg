SPECIFICATION Spec
CONSTANTS
  Procs = {p1}
  Commands <- AllCommands
  MaxTime = 2
  GCAge = 1
  Fw = {f1, f2}
  WatchdogNames = {w1}
  UserNames = {}
  None = None
INVARIANT RunReportsRollbackFailed
