SPECIFICATION Spec
CONSTANTS
    NumSources = 2
    MaskBits = 64
    NoSource = NoSource
    Client = {c1, c2}
    First = {c1}
    Single = FALSE
    HeightOf <- Two
    MaxHeld = 1
    MaxFetch = 2
    MaxLosses = 1
INVARIANTS NeverUnfounded ParkedIsFetched DeadDoesNotLead
PROPERTY WrittenOffIsMuted
CHECK_DEADLOCK FALSE
