SPECIFICATION FairSpec
CONSTANTS
    t1 = t1
    t2 = t2
    t3 = t3
    Transaction <- AsyncTransaction
    Msgs <- AsyncMsgs
    QueueSize = 1
    NumRetries = 1
    MaxPending = 3
    Faults = {"0x38"}
    NULL = NULL
INVARIANTS
    TypeOK
    HandlerHasTransaction
    KickoffUndisturbed
    NoStrandedTransaction
    DriverHoldsUnfinished
PROPERTIES
    CompletionIsFinal
    EveryCallReturns
    ServesInOrder
    EveryTransactionCompletes
