SPECIFICATION FairJobSpec
CONSTANTS
    first = first
    second = second
    other = other
    t1 = t1
    t2 = t2
    DropMinimum = 2
    GrowthMinimum = 3
    GrowthMultiplier = 5
    Invocation <- MCInvocation
    Target <- MCTarget
    NoOne = NoOne
    NoTarget = NoTarget
    Counts = {1}
    Interval = 1
    MaxTime = 0
    InitialRow = {"absent"}
    Environment = {"cancel", "kill"}
    Size = 2
    DailyTargets <- MCTargets
    Attempts <- MCAttempts
INVARIANTS
    ZeroMeansCollected
PROPERTIES
    EveryTargetIsTried
CHECK_DEADLOCK FALSE
