SPECIFICATION Spec
CONSTANTS
  Procs = {g1, g2}
  AsyncTasks = {t1, t2}
  SyncTasks = {}
  StackTasks = {}
  AsyncCalls = {a1, a2}
  Completers = {c1}
  MaxSignals = 0
  CloseOverlaps = FALSE
  Deadlines = {}
  NoTask = NoTask
  NoCall = NoCall
VIEW View
SYMMETRY Symmetry
CHECK_DEADLOCK FALSE
INVARIANTS TypeOK AppliedAtMostOnce AcceptedIsNotLost
PROPERTIES SettledCallsStaySilent
