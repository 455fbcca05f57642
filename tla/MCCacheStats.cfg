SPECIFICATION FairSpec
CONSTANTS
    i1 = i1  i2 = i2  k6 = k6  watch = watch
    Instance = {i1, i2}
    Client = {k6, watch}
    Prober = k6
    RepeatHits = 1
    MaxEvents = 1
    Timer = Timer
CHECK_DEADLOCK FALSE
INVARIANTS
    IInv
    CountsConserved
    OwnCountsAnswered
    HitMissSound
PROPERTY StatsSettle
