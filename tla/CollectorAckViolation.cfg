SPECIFICATION Spec
CONSTANTS
    DropMinimum = 2
    GrowthMinimum = 3
    GrowthMultiplier = 5
    Invocation = {p1, p2}
    Target = {t1}
    NoOne = NoOne
    NoTarget = NoTarget
    Counts = {1, 7}
    Interval = 2
    MaxTime = 2
    InitialRow = {"absent"}
    Environment = {"lost_ack"}
INVARIANTS
    SnapshotIffSucceeded
CHECK_DEADLOCK FALSE
