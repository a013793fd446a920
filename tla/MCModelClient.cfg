SPECIFICATION ModelSpec
CONSTANTS
    Calls = {c1, c2, c3}
    None = None
    c1 = c1
    c2 = c2
    c3 = c3
    Asks <- MCAsks
    Requests <- MCRequests
    MaxRetries = 1
    Intervals = 2
    MaxNames = 2
INVARIANTS
    ReadsItsPrefix
    ServesAtMostIntervals
    CacheNeverInTheWay
CHECK_DEADLOCK FALSE
