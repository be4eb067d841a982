SPECIFICATION FairSpec
CONSTANTS
    Task = {t1, t2}
    Client = {c1}
    First = {c1}
    Nobody = Nobody
    Single = TRUE
    Depth = 1
    MaxHeld = 2
    Fetch = {k1, k2}
    MaxFrame = 4
INVARIANTS TypeOK EachFrameOnce GoneIsGone
PROPERTY HolesAreClosed
CHECK_DEADLOCK FALSE
