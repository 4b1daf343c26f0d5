SPECIFICATION BringUpSpec
CONSTANTS
    MinSize = 4
    Guard = 2
    PtrLimit = 16
    SeqLimit = 2
    HalfBase = 4
    WBound = 10
    Halves <- MCHalves
    HostRegs <- MCHostRegs
    Sizes <- MCSizes
    Lengths <- MCLengths
    ExternalClear <- MCClears
    ConfigSize = 8
INVARIANTS
    BankMirrorsController
    RingStableUnderWriter
    VerifiedRingIsReal
    RestartReachesArmedWriter
