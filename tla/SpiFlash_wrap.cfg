SPECIFICATION Spec
CONSTANTS
    PageSize = 2
    SectorSize = 4
    Capacity = 8
    Word = 16
    Calls <- ToTheEndOfMemory
    MaxCalls = 1
INVARIANT EraseSaturates
