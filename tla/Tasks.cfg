SPECIFICATION Spec
CONSTANTS
    Tasks = {t1, t2, t3}
    A = A
    B = B
    C = C
    Insts = {A, B, C}
    Lowers <- Chain
    Exported = {A}
    NoTask = NoTask
    NoInst = NoInst
    Shapes = {"callback", "stackful"}
    MayBlockSync = {B}
    BackpressureLimit = 2
    Uncancellable = FALSE
    Faults = {"fail"}
    Imports = {"waitable-set", "subtask.cancel"}
SYMMETRY Symmetry
INVARIANTS TypeOK Exclusivity EntryIsRefusedWhileRunning SetWaitersAreCounted EveryResolutionIsSeen SyncWaiterIsWaiting
PROPERTIES SubtaskOnlyAdvances
CHECK_DEADLOCK FALSE
