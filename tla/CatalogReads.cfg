SPECIFICATION Spec
CONSTANTS
    DropMinimum = 2
    GrowthMinimum = 3
    GrowthMultiplier = 2
    Source <- MCSource
    Name <- MCName
    Rating <- MCRating
    Categories <- MCCategories
    Policy <- MCPolicy
    Totals = {3, 4}
    Ids = {1, 2, 3, 4}
    MaxTime = 2
    Legacy <- MCLegacy
    Filters <- MCFilters
    PageLimit = 2

INVARIANT TypeOK
INVARIANT ReadsAgree
INVARIANT AnswersValidate
INVARIANT GrowthAgrees
INVARIANT RanksAreGlobal
INVARIANT PagesAreComplete
PROPERTY NewGrowthIsPlausible

CHECK_DEADLOCK FALSE
