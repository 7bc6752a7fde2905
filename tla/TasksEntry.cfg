SPECIFICATION Spec
CONSTANTS
    Tasks = {t1, t2, t3, t4}
    A = A
    B = B
    C = C
    Insts = {A, B}
    Lowers <- ALowersB
    Exported = {A}
    NoTask = NoTask
    NoInst = NoInst
    Shapes = {"callback"}
    MayBlockSync = {B}
    BackpressureLimit = 2
    Uncancellable = FALSE
    Faults = {}
    Imports = {"subtask.cancel", "backpressure"}
SYMMETRY Symmetry
INVARIANTS EntryCountersHold
PROPERTIES EntryInOrder
CHECK_DEADLOCK FALSE
