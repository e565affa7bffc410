SPECIFICATION FairSpec
CONSTANTS
    NumArms = 2
    Ids <- MCIds
    MayAsk <- MCMayAsk
    NumFrames = 2
    RelCapacity = 1
    Addrs <- MCAddrs
    MayComeFrom <- MCMayComeFrom
    None = None
PROPERTY NeverHeldUp
