SPECIFICATION FairSpec
CONSTANTS
    FifoSize = 3
    MaxLen = 6
    MaxTransfers = 2
    NULL = NULL
INVARIANTS
    TypeOK
    ReceiverHasRoom
    IdleBetweenTransfers
    TransferredInFull
PROPERTY TransferReturns
