SPECIFICATION FairSpec
CONSTANTS
    NumFrames = 3
    Offset <- MCOffset
    Mode = "RelOnly"
    ReorderWindow = 3
    MaxReorderBytes = 3
    MaxNackAttempts = 1
    NackBackoff <- MCBackoff
    DefaultNackDelay = 1
    RelStallTimeout = 1
    IdleTimeout = 1
    AckInterval = 0
    NackAgeCap = 1
    MaxNackEntries = 2
    U16Max = 1
    BufferReports = {0}
    RingFrames = 2
    RingBytes = 3
    SealedLen <- MCSealedLen
    MaxOutstanding = 1
    HighWater = 1
    LowWater = 0
    FirstAckTimeout = 1
    TailKeepaliveInterval = 1
    FinalizeTimeout = 1
    NetCapacity = 2
PROPERTY TapAlwaysEnds
