SPECIFICATION Spec
CONSTANTS
    Thresholds <- MCThresholds
    MaxJobs = 2
    MaxRuns = 2
    MaxStarts = 2
    MaxForeign = 1
    MaxReboots = 1
INVARIANTS
    CaptureIsOwn
    LatestIsNewest
PROPERTIES
    NoAutomaticRecovery
    JobsEnd
CHECK_DEADLOCK FALSE
