SPECIFICATION Spec
CONSTANTS
    Source = {1}
    Client = {c1, c2}
    Key = {probe, book}
    Pinned = {probe}
    Workers = 2
    MaxQueue = 1
INVARIANT NobodyForgotten
CHECK_DEADLOCK FALSE
