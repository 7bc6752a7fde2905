SPECIFICATION FairSpec
CONSTANTS
  Procs = {g1, g2}
  AsyncTasks = {t1}
  SyncTasks = {s1}
  StackTasks = {}
  AsyncCalls = {a1}
  Completers = {}
  MaxSignals = 1
  CloseOverlaps = FALSE
  Deadlines = {}
  NoTask = NoTask
  NoCall = NoCall
CHECK_DEADLOCK FALSE
PROPERTIES CancelSettles CloseFinishes
