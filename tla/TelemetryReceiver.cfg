SPECIFICATION Spec
CONSTANTS
    SeqRange = 16
    SeqStart = 13
    Window = 2
    MaxNumber = 4
    MaxReceived = 3
    MaxOdd = 1
    MaxSessions = 2
    QueueSize = 1
    EventBudget = 1
    FlushEvery = 2
INVARIANTS
    CaptureFaithful
    CaptureComplete
    GapsAreLosses
    ReplayAgrees
PROPERTY
    DeadThreadEnds
CHECK_DEADLOCK FALSE
