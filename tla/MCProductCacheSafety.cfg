SPECIFICATION Spec
CONSTANTS
    a = a  b = b  i1 = i1  i2 = i2
    Reader = {a, b}
    Instance = {i1, i2}
    LockRetryMax = 2
    MaxCommits = 2
    MaxReads = 1
    MaxLapses = 2
    MaxCrashes = 1
    MaxResends = 1
    RedisMayFail = TRUE
    Empty = Empty  Free = Free
SYMMETRY Symmetric
CHECK_DEADLOCK FALSE
INVARIANTS
    IInv
    PageNotOlder
    CachedAnswerFresh
    RebuilderHoldsLock
