SPECIFICATION Spec
CONSTANTS
    DropMinimum = 2
    GrowthMinimum = 6
    GrowthMultiplier = 6
    Invocation = {p1, p2, p3}
    Target = {t1}
    NoOne = NoOne
    NoTarget = NoTarget
    Counts = {1, 3, 7}
    Interval = 2
    MaxTime = 2
    InitialRow = {"absent"}
    Environment = {"lost_ack"}
SYMMETRY Symmetry
INVARIANTS
    PublishedIffAccepted
PROPERTIES
    ImplementsHistory
CHECK_DEADLOCK FALSE
