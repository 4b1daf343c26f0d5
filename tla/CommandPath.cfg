SPECIFICATION Spec
CONSTANTS
    Word = 131072
    HiLimit = 256
    Requests <- MCRequests
    MaxRequests = 2
    QueueSize = 1
    Retries = 1
    SeqMod = 16
    SeqStart = 14
    MaxStarts = 1
    MaxRestarts = 1
    MaxExecs = 3
INVARIANTS
    LedgerOrders
    OwnResult
    NothingStranded
    SocketReleased
PROPERTY RequestsEnd
