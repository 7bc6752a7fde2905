SPECIFICATION Spec
CONSTANTS
  Procs = {g1, g2, g3}
  AsyncTasks = {t1}
  SyncTasks = {s1}
  StackTasks = {t1}
  AsyncCalls = {a1}
  Completers = {c1}
  MaxSignals = 0
  CloseOverlaps = TRUE
  Deadlines = {"await"}
  NoTask = NoTask
  NoCall = NoCall
VIEW ControlView
SYMMETRY Symmetry
CONSTRAINT Followed
CHECK_DEADLOCK FALSE
INVARIANTS OneGoroutineDrives LeaseHasOneHolder NoLostWakeup
