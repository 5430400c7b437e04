SPECIFICATION JobsSpec
CONSTANTS
    MessageCount = 3
    Date <- MCDate
    Every = 2
    QuietMin = 1
    MaxChanges = 2
    Upgrades = TRUE
    ReminderIds = {1, 2}
    MaxDue = 2
    MaxPending = 2
    PerPass = 1
    RetryBase = 1
    RetryMax = 2
    MaxFailures = 2
    MaxCrashes = 1
    Threads = {"loop", "worker"}
    Scripts = 1
    ScriptLength = 2
    MaxBuffer = 1
    MaxCalls = 4
    MaxDepth = 2
    MaxKills = 1
INVARIANTS
    RemindedOnce
    OwnersVersionWins
    ReadsEachOnce
    DatabaseIsSound
PROPERTIES
    RequestsAreNotLost
    DueIsDone
CHECK_DEADLOCK FALSE
