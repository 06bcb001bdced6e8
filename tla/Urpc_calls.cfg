SPECIFICATION FairSpec
CONSTANTS
    Known <- Handlers
    Requests <- AllRequests
    BufferSize = 12
    Radix = 6
    MaxRetries = 2
    MaxCalls = 2
    MaxLosses = 1
INVARIANTS
    TypeOK
    NothingInvented
    ExecutedAsSent
    AnswerIsFresh
    CleanCallAnswered
PROPERTY CallReturns
CHECK_DEADLOCK FALSE
