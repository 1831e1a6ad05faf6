SPECIFICATION Spec
CONSTANTS
    Kinds <- Gelbooru
    Counts = {1, 2}
    MaxRounds = 2

INVARIANT BlockIsFinal

CHECK_DEADLOCK FALSE
