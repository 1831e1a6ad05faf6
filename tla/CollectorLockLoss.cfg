SPECIFICATION Spec
CONSTANTS
    DropMinimum = 2
    GrowthMinimum = 3
    GrowthMultiplier = 5
    Invocation = {p1, p2}
    Target = {t1}
    NoOne = NoOne
    NoTarget = NoTarget
    Counts = {1, 7}
    Interval = 1
    MaxTime = 1
    InitialRow = {"absent"}
    Environment = {"lock_loss", "clock_back", "cancel", "kill", "lost_ack"}
SYMMETRY Symmetry
INVARIANTS
    SuccessIsTrue
CHECK_DEADLOCK FALSE
