SPECIFICATION FairSpec
CONSTANTS
    Source = {1}
    Client = {c1, c2}
    Key = {probe, book}
    Pinned = {probe}
    Workers = 2
    MaxQueue = 2
INVARIANTS TypeOK OnlyRacesForget  UpstreamAgrees PinnedStays
PROPERTY EverySourceStreams
CHECK_DEADLOCK FALSE
