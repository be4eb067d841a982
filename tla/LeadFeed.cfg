SPECIFICATION Spec
CONSTANTS
    NumSources = 2
    MaskBits = 64
    NoSource = NoSource
    FutureLimit = 1
    MaxAge = 1
    MaxStamp = 4
    MaxFrames = 2
    MaxTime = 3
INVARIANTS TypeOK OneSourcePerStamp LeaderComplete OvertakenOnce MarkWithinReach
CHECK_DEADLOCK FALSE
