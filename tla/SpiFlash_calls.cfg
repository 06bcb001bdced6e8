SPECIFICATION FairSpec
CONSTANTS
    PageSize = 2
    SectorSize = 4
    Capacity = 8
    Word = 16
    Calls <- AllCalls
    MaxCalls = 2
INVARIANTS
    TypeOK
    NothingElseTouched
    ResultIsTrue
    NoCommandIgnored
PROPERTY CallReturns
