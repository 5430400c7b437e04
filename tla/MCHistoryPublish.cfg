SPECIFICATION HistorySpec
CONSTANTS
    january = january
    february = february
    march = march
    Olds = {january, february, march}
    PeriodCount = 3
    NewSpan <- MCNewSpan
    OldSpan <- MCOldSpan
    Crashes = TRUE
    Months = 2
    FirstOf <- MCFirstOf
    Unreadable = {2}
    PerRequest = 1
    ATTEMPTS_PER_PART = 2
    Generations = {1, 2}
    NoRoom = {}
    MaxActs = 2
    MaxRefusals = 2
INVARIANTS
    HistorySound
PROPERTIES
    ReplacedAsAllowed
    MadeOnceAndWhole
    MonthsEnd
CHECK_DEADLOCK FALSE
