SPECIFICATION Spec
CONSTANTS
  Procs = {p1}
  Commands <- AllCommands
  MaxTime = 3
  GCAge = 1
  Fw = {f1, f2}
  WatchdogNames = {w1}
  UserNames = {u1}
  None = None
SYMMETRY Symmetry
INVARIANTS
  TypeOK
  BaselineKept
  RestoredGuest
  PreparedMeansUntouched
PROPERTIES
  ResetRestores
  UserSnapshotsKept
  ImplementsLifecycle
