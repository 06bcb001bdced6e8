SPECIFICATION Spec
CONSTANTS
    PageSize = 2
    SectorSize = 4
    Capacity = 8
    Word = 16
    Calls <- OneByteCalls
    MaxCalls = 2
INVARIANT ZeroMeansDone
