SPECIFICATION Spec
CONSTANTS
    Limits <- MCLimits
    Radix = 2
    MaxInits = 1
    CaptureSets <- MCCaptureSets
    CaptureHazard = FALSE
    MaxRuns = 2
    Keep = 1
INVARIANTS
    LogTypeOK
    CompleteIsComplete
    GapsCoverLoss
    StreamContiguous
    StdioRestored
    ManifestsMatchLogs
PROPERTY RunsFinalized
CHECK_DEADLOCK FALSE
