SPECIFICATION ImportsSpec
CONSTANTS
    i1 = i1
    i2 = i2
    d1 = d1
    d2 = d2
    Imports = {i1, i2}
    Days = {d1, d2}
    PeriodCount = 2
    MaxCrashes = 2
    Upgrades = TRUE
    DayLength = 2
    MonthDays = 4
    WeekDays = 3
    MaxEdits = 1
    Exports <- MCExports
    ImportChoices <- MCImportChoices
    Boundaries <- MCBoundaries
    Histories <- MCHistories
INVARIANTS
    ImportsSound
    PlanIsTrue
    HistoryIsReplacedWhole
PROPERTIES
    KeepsImportPromise
    JobsAnswer
CHECK_DEADLOCK FALSE
