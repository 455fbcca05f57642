SPECIFICATION Spec
CONSTANTS
    SweepLimits <- MCSweepLimits
    MaxCrawlPages = 3
    Totals = {0, 1, 9, 10, 11, 20, 21, 31, 61, 10000, 10001}
    Absent = Absent  NotANumber = NotANumber
    RawPages = {Absent, NotANumber, 0, 1, 2, 3, 4, 1999, 2000, 2001, 3000}
    RawLimits = {Absent, NotANumber, 0, 1, 2, 3, 19, 20, 21, 22, 101, 200, 201, 2000}
    Spares = {3, 7}
    RushUnits = 1
    RushUsers <- MCRushUsers
    MaxLost = 2
    Unknown = Unknown
    VariantLimits = {10, 100}
    Kept = 10
    ROUNDS = 2
    MaxFaults = 1
    Unread = Unread
    u1 = u1  u2 = u2  u3 = u3
    User = {u1, u2, u3}
    Units = 1
    WorkerConcurrency = 2
    MaxStalls = 2
SYMMETRY Symmetric
CHECK_DEADLOCK FALSE
INVARIANTS
    ContractSound
    DefectFound
    QueryAnswered
    AccusedOnlyIfGuilty
    GuiltyIsAccused
    RoundsFair
    StaleFound
    BlackboxVerdict
    DriftExplained
    RunProven
