SPECIFICATION Spec
CONSTANTS
    Insts = {i1, i2}
    Host = Host
    NoEnd = NoEnd
    MaxLen = 2
    MaxElems = 4
    CallsBack = FALSE
SYMMETRY Symmetric
INVARIANTS TypeOK CopyIsTracked NothingParkedOnceDropped InOrder TotalsAgree NoReadOfDroppedFuture
PROPERTIES FinalResultStands KeepsPromise
CHECK_DEADLOCK FALSE
