SPECIFICATION Spec
CONSTANTS
    Depth = 3
    Words = 2
    MaxRecords = 4
    Shapes <- MCShapes
INVARIANTS
    ResidentPayloadKept
    EveryRecordAccounted
    WriterInsideHead
PROPERTIES
    EvictedForBetter
    HeadLeaves
