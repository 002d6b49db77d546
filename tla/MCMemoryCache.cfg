SPECIFICATION FairSpec
CONSTANTS
    Keys = {k1, k2, k3}
    Values = {v1, v2}
    TTLs <- MCTTLs
    MaxTTL = 1
    MaxSize = 2
    Closers = {c1, c2}
    Miss = Miss
INVARIANTS
    CacheInv
PROPERTIES
    EvictsLeastRecent
    ImplementsLossyCache
    ExpiredEntriesLeave
    CloseEnds
