SPECIFICATION Spec
CONSTANTS
    NumFrames = 3
    Offset <- MCOffset
    Mode = "Dual"
    ReorderWindow = 3
    MaxReorderBytes = 3
    MaxNackAttempts = 2
    NackBackoff <- MCBackoff
    DefaultNackDelay = 1
    RelStallTimeout = 4
    IdleTimeout = 5
    AckInterval = 1
    NackAgeCap = 2
    MaxNackEntries = 2
    U16Max = 1
    BufferReports = {0, 2}
PROPERTY StallMeansGap
