SPECIFICATION TradesSpec
CONSTANTS
    NumSources = 3
    MaskBits = 64
    NoSource = NoSource
    MaxTid = 6
    Cuts <- OwnCuts
INVARIANTS NothingLost OnceWhereAlike
CHECK_DEADLOCK FALSE
