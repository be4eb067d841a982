SPECIFICATION Spec
CONSTANTS
    NumSources = 2
    MaskBits = 64
    NoSource = NoSource
    Client = {c1, c2}
    First = {c1}
    Single = TRUE
    HeightOf <- Two
    MaxHeld = 1
    MaxFetch = 1
    MaxLosses = 0
INVARIANT NeverSpliced
CHECK_DEADLOCK FALSE
