SPECIFICATION Spec
CONSTANTS
    u1 = u1  u2 = u2
    r1 = r1  r2 = r2  r4 = r4
    e1 = e1  e2 = e2
    User = {u1, u2}
    LeftLocked = {}
    Request = {r1, r2, r4}
    Slot = {e1, e2}
    Units = 1
    MaxAcquire = 2
    MaxCrashes = 1
    MaxRetries = 1
    MaxResends = 0
    IncrMayFail = TRUE
    Free = Free  Gone = Gone  Idle = Idle  Nobody = Nobody
    UserOf <- MCUserOf
CHECK_DEADLOCK FALSE
PROPERTY EventKeepsNewLock
