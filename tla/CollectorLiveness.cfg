SPECIFICATION FairSpec
CONSTANTS
    DropMinimum = 2
    GrowthMinimum = 3
    GrowthMultiplier = 5
    Invocation = {p1, p2}
    Target = {t1}
    NoOne = NoOne
    NoTarget = NoTarget
    Counts = {1}
    Interval = 2
    MaxTime = 0
    InitialRow = {"absent"}
    Environment = {"cancel", "kill", "cleanup_error"}
INVARIANTS
    StrandedRunIsExplained
PROPERTIES
    InvocationsEnd
    LockIsFreed
CHECK_DEADLOCK FALSE
