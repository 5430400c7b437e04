SPECIFICATION AllOfLab
CONSTANTS
    r1 = r1
    r2 = r2
    Runs = {r1, r2}
    Keys <- MCKeys
    Values = {0, 1}
    MaxVersion = 1
    Default <- MCDefault
    Accepts <- MCAccepts
    Seed <- MCSeed
    MaxOthers = 1
    Tunable = {"prompt"}
    ModelKeys = {"model"}
    MaxCandidates = 1
    MaxActivations = 2
    Slugs = {1, 2}
    Bodies = {"b1", "b2"}
    Results <- MCResults
    Rubrics <- MCRubrics
    ReuseLimit = 1
    MaxScenarios = 2
    MaxAttempts = 3
    MaxMade = 2
    MaxRubrics = 2
    MaxTime = 1
    AtATime = 1
    MaxComparisons = 2
    MaxChoices = 2
    Minute = 1
    DefaultStart = 10
    BotBase = 20
    BotGap = 5
    RetryBase = 1
    MaxReminders = 2
    MaxPlayed = 2
    Played <- MCScenarios
    Continuations <- MCContinuations
    Answers <- MCAnswers
INVARIANTS
    LiveSettingsAreExplained
    ReportIsFair
    IndependentOfDetails
    ChoicesAreFair
    ChatIsTrue
    OutcomeIsTheModels
PROPERTIES
    ChoicesAreKept
SYMMETRY Symmetry
CHECK_DEADLOCK FALSE
