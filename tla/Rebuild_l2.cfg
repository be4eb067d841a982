SPECIFICATION FairSpec
CONSTANTS
    NumSources = 2
    MaskBits = 64
    NoSource = NoSource
    Client = {c1}
    First = {c1}
    Single = TRUE
    HeightOf <- TwoPerBlock
    MaxHeld = 2
    MaxFetch = 1
    MaxLosses = 2
INVARIANTS TypeOK NeverSpliced
PROPERTY ParkingEnds
CHECK_DEADLOCK FALSE
