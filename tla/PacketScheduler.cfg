CONSTANTS
    Sources <- MCSources
    Lengths <- MCLengths
SPECIFICATION ClockedSpec
INVARIANTS
    RecordsWhole
PROPERTIES
    ShedIffReported
    ShedDespiteStall
    StatusIsServed
