SPECIFICATION FairSpec
CONSTANTS
  Procs = {g1, g2}
  AsyncTasks = {t1}
  SyncTasks = {}
  StackTasks = {}
  AsyncCalls = {a1}
  Completers = {}
  MaxSignals = 0
  CloseOverlaps = FALSE
  Deadlines = {"await"}
  NoTask = NoTask
  NoCall = NoCall
CHECK_DEADLOCK FALSE
PROPERTIES CancelSettles
