CONSTANTS
    Configs <- MCConfigs
    MinSize = 4
    Guard = 2
    Lengths = {}
    PtrLimit = 32
    SeqLimit = 3
    RingSize = 8
    Records <- MCRecords
    WBound = 8
SPECIFICATION LiveSpec
INVARIANTS
    CommittedChain
    NothingLostSilently
PROPERTIES
    DisableDrains
    HeadNeverBlocks
