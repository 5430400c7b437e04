SPECIFICATION PeopleSpec
CONSTANTS
    u1 = u1
    u2 = u2
    c1 = c1
    c2 = c2
    Users = {u1, u2}
    Chats = {c1, c2}
    Names <- AnnAndAnnie
    Parts <- AnnInAnnie
    Facts = {"tea"}
    Live <- LiveNames
    Export <- ExportNames
    Chosen = {"Annie"}
    MaxPerson = 3
    MaxNote = 2
    NoteLimit = 1
    MaxActs = 5
INVARIANTS
    MemoryIsSound
PROPERTIES
    LockedNotesStay
SYMMETRY SameChats
CHECK_DEADLOCK FALSE
