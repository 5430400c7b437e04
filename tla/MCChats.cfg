SPECIFICATION GroupsSpec
CONSTANTS
    p1 = p1
    p2 = p2
    q1 = q1
    MaxTime = 1
    MaxMessages = 1
    MaxEvents = 2
    MaxOwner = 2
    MaxUpdates = 1
    MaxTasks = 2
    Plans = {p1, p2}
    Questions = {q1}
    MaxItems = 2
    MaxChars = 3
    MaxBoards = 3
    MaxChanges = 3
    MaxPublishers = 2
INVARIANTS
    GroupsSound
    BoardIsTrue
PROPERTIES
    StandingKept
CHECK_DEADLOCK FALSE
