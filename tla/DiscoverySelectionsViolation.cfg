SPECIFICATION Spec
CONSTANTS
    none = none
    typed = typed
    any = any
    safe = safe
    largest = largest
    growth = growth
    anime = anime
    Texts <- MCTexts
    NoText = none
    Ratings <- OneRating
    AnyRating = any
    Options <- MCOptions
    Modes <- OneMode
    MaxPage = 1
    MaxEvents = 2

PROPERTY SelectionsSurvive

CHECK_DEADLOCK FALSE
