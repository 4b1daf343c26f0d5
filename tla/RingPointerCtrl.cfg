CONSTANTS
    Configs <- MCConfigs
    MinSize = 4
    Guard = 2
    Lengths = {1, 2, 6}
    PtrLimit = 20
    SeqLimit = 2
SPECIFICATION Spec
INVARIANTS
    EpochConsistent
    DrainedRingAdmits
PROPERTIES
    NoStraddle
    WrapKeepsPromise
