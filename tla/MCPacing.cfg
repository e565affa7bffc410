SPECIFICATION FairSpec
CONSTANTS
    NumFrames = 3
    RingFrames = 1
    RingBytes = 1
    SealedLen <- MCSealedLen
    MaxOutstanding = 2
    HighWater = 2
    LowWater = 0
    FirstAckTimeout = 1
    TailKeepaliveInterval = 1
    FinalizeTimeout = 1
    ReportTtl = 0
    U16Max = 2
    PlayAhead = 1
    AcksInFlight = 2
INVARIANT OccupancyWithinOneReport
PROPERTY PauseAlwaysEnds
