SPECIFICATION Spec
CONSTANTS
    f1 = f1
    f2 = f2
    b1 = b1
    b2 = b2
    Requests <- TwoAndOne
    Foreground <- TwoReplies
    Logged = TRUE
    Checked <- TwoReplies
    MaxWaiting <- TwoWaiting
    SettingsChoices <- AllChoices
SYMMETRY SamePriority
INVARIANTS
    NoStartableWaiting
    SlotsHeldByCallers
    RowsFollowTickets
PROPERTIES
    FirstComeFirstServed
