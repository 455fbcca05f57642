SPECIFICATION FairSpec
CONSTANTS
    a = a  b = b  i1 = i1  i2 = i2
    Reader = {a, b}
    Instance = {i1, i2}
    LockRetryMax = 2
    MaxCommits = 1
    MaxReads = 1
    MaxLapses = 0
    MaxCrashes = 1
    MaxResends = 0
    RedisMayFail = TRUE
    Empty = Empty  Free = Free
CHECK_DEADLOCK FALSE
PROPERTY ReadsAnswered
