CONSTANTS
    Halves <- MCHalves
    Requests <- MCRequests
SPECIFICATION Spec
INVARIANT MirrorIsActive
