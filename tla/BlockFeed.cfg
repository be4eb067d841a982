SPECIFICATION Spec
CONSTANTS
    NumSources = 3
    MaskBits = 64
    NoSource = NoSource
    MaxHeight = 3
    Size <- Blocks
    Torn = {2}
INVARIANTS TypeOK ShownOnce CountsAreTrue
PROPERTY KeepsPromise
CHECK_DEADLOCK FALSE
