SPECIFICATION Spec
CONSTANTS
    a = a  b = b  i1 = i1  i2 = i2
    Reader = {a, b}
    Instance = {i1, i2}
    LockRetryMax = 2
    MaxCommits = 2
    MaxReads = 2
    MaxLapses = 0
    MaxCrashes = 0
    MaxResends = 0
    RedisMayFail = FALSE
    Empty = Empty  Free = Free
CHECK_DEADLOCK FALSE
PROPERTY MonotonicReads
