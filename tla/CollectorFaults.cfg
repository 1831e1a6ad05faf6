SPECIFICATION Spec
CONSTANTS
    DropMinimum = 2
    GrowthMinimum = 3
    GrowthMultiplier = 5
    Invocation = {p1, p2}
    Target = {t1}
    NoOne = NoOne
    NoTarget = NoTarget
    Counts = {1, 7}
    Interval = 1
    MaxTime = 1
    InitialRow = {"absent", "mismatched", "disabled", "enabled"}
    Environment = {"cancel", "kill", "db_error", "cleanup_error", "operator"}
SYMMETRY Symmetry
INVARIANTS
    TypeOK
    OneCollectorPerTarget
    SnapshotIffSucceeded
    ReportIsTrue
PROPERTIES
    RunStatusIsFinal
    UnforcedSpacing
    ShownOnlyByFirstSnapshot
CHECK_DEADLOCK FALSE
