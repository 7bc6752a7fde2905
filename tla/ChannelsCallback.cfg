SPECIFICATION Spec
CONSTANTS
    Insts = {i1, i2}
    Host = Host
    NoEnd = NoEnd
    MaxLen = 2
    MaxElems = 4
    CallsBack = TRUE
SYMMETRY Symmetric
INVARIANT CopyIsTracked
CHECK_DEADLOCK FALSE
