SPECIFICATION FairConversation
CONSTANTS
    t1 = t1
    t2 = t2
    Triggers = {t1, t2}
    SkillOf <- ACatchUp
    Results <- Answers
    MaxRequests = 2
    MaxToolCalls = 2
    MaxToggles = 1
    MaxUpgrades = 1
    Live = {1, 2, 3}
    Exported = {11, 12}
    Imports = {1, 2}
    Date <- DateOf
    ReplyTo <- TargetOf
    DatesOf <- AllOrSome
    Own = {1, 3}
    Pinned = {3}
    RecentWindow = 1
    WindowStep = 2
    MaxScope = 2
    MaxStarts = 2
INVARIANTS
    RequestsAreSettled
    TranscriptIsTrue
PROPERTIES
    EndsAreKept
    RequestsEnd
CHECK_DEADLOCK FALSE
