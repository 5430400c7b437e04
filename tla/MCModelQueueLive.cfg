SPECIFICATION FairSpec
CONSTANTS
    f1 = f1
    f2 = f2
    b1 = b1
    b2 = b2
    Requests <- OneAndTwo
    Foreground <- OneReply
    Logged = FALSE
    Checked = {}
    MaxWaiting <- OneWaiting
    SettingsChoices <- FewChoices
PROPERTIES
    WaitingEnds
    KeepsAdmissionPromise
