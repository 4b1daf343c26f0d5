CONSTANTS
    Halves <- MCHalves
    Requests <- MCRequests
SPECIFICATION Spec
INVARIANTS
    NoTornThreshold
    MirrorIsActiveUnlessCancelled
