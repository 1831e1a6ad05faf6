SPECIFICATION FairSpec
CONSTANTS
    Source <- MCSource
    MinSelected = 1
    MaxSelected = 1
    MaxCollected = 1
    MaxEvents = 3

INVARIANT TypeOK
INVARIANT ReadyIsCurrent
INVARIANT ViewIsExplained
PROPERTY NeverBackInTime
PROPERTY ClosedStaysClosed
PROPERTY PanelSettles

CHECK_DEADLOCK FALSE
