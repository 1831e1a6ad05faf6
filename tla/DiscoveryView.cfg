SPECIFICATION FairSpec
CONSTANTS
    none = none
    typed = typed
    any = any
    safe = safe
    largest = largest
    growth = growth
    anime = anime
    Texts <- MCTexts
    NoText = none
    Ratings <- MCRatings
    AnyRating = any
    Options <- MCOptions
    Modes <- MCModes
    MaxPage = 1
    MaxEvents = 3

INVARIANT TypeOK
INVARIANT SettledIsConsistent
INVARIANT TableIsCurrent
INVARIANT LoadingIsPending
PROPERTY TypedTextStays
PROPERTY Settles

CHECK_DEADLOCK FALSE
