SPECIFICATION Spec
CONSTANTS
    detect = detect
    reg_read = reg_read
    reg_write = reg_write
    read_multiple = read_multiple
    write_write = write_write
    combined = combined
    Transaction <- SyncTransaction
    Msgs <- SyncMsgs
    QueueSize = 1
    NumRetries = 3
    MaxPending = 1
    Faults = {"0x00", "0x38"}
    NULL = NULL
INVARIANT WireFollowsTransaction
PROPERTIES
    SuccessMeansTransferred
    ErrorMeansFailure
