SPECIFICATION FairSpec
CONSTANTS
    u1 = u1  u2 = u2
    r1 = r1  r2 = r2  r4 = r4
    e1 = e1  e2 = e2
    User = {u1}
    LeftLocked = {u1}
    Request = {r1, r2}
    Slot = {e1}
    Units = 2
    MaxAcquire = 2
    MaxCrashes = 1
    MaxRetries = 1
    MaxResends = 1
    IncrMayFail = TRUE
    Free = Free  Gone = Gone  Idle = Idle  Nobody = Nobody
    UserOf <- MCUserOf
CHECK_DEADLOCK FALSE
PROPERTIES
    JobsFinish
    RequestsAnswered
    ReplayVouchesForJob
INVARIANT VersionNeverAhead
