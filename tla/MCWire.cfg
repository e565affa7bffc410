SPECIFICATION MCSpec
CONSTANTS
    Base = 7
    U16Len = 1
    U32Len = 2
    U64Len = 2
    IdLen = 1
    Version = 4
    MaxPayload = 2
    MaxNackEntries = 2
    U32Max = 8
    MaxPackets = 10
    Words = 3
    WordBits = 2
    MaxCounter = 11
INVARIANTS
    CodecIsOneToOne
    NonceUnique
    OnlyThePeerOpens
    VerdictIsHistory
