SPECIFICATION Spec
CONSTANTS
    Object = {o1, o2}
    Capacity = 3
    NULL = NULL
INVARIANTS
    TypeOK
    MutualExclusion
PROPERTY ImplementsFifo
