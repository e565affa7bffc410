SPECIFICATION FairSpec
CONSTANTS
    MaxFrames = 4
    SealedLen <- MCSealedLen
    RingFrames = 2
    RingBytes = 3
    MaxOutstanding = 3
    HighWater = 2
    LowWater = 0
    FirstAckTimeout = 1
    TailKeepaliveInterval = 2
    FinalizeTimeout = 3
    AckReports = {0, 1, 2}
INVARIANTS
    TypeOK
    NoSilentLoss
PROPERTIES
    DoneIsFinal
    FinalizingEnds
    PausedStaysAudible
