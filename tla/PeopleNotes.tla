----------------------------- MODULE PeopleNotes -----------------------------
(***************************************************************************)
(* People and what the bot remembers of them: members write, the owner     *)
(* names, merges and splits people and edits notes in the web admin        *)
(* (web/people.py, web/memory.py), members set aliases with commands       *)
(* (tg/commands.py), the model remembers and forgets with its tools        *)
(* (agent/tools/memory.py), the digest keeper adds notes of its own, and   *)
(* an import's thread (importer/service.py) records the names of an        *)
(* export.                                                                 *)
(*                                                                         *)
(* All but the import's thread run on the event loop, one at a time; the   *)
(* database's lock makes each statement and each transaction one step, so  *)
(* the thread comes in between the statements of a handler.                *)
(***************************************************************************)
EXTENDS People

CONSTANTS Live,           \* what an account is called at Telegram
          Export,         \* what the export calls it
          Chosen,         \* the names and aliases people choose
          MaxActs         \* bound: changes of people and of notes

ASSUME PeopleNotesAssumption ==
    /\ {Live, Export} \subseteq [Users -> Names] /\ Chosen \subseteq Names
    /\ MaxActs \in Nat

VARIABLES
    db,
    loop,     \* the handler of a message has found this account to be new
    thread,   \* so has the import's thread
    page,     \* the merge the owner is asked to confirm
    acts,     \* how many changes were made
    meant,    \* per note: whose accounts it was about when that was set
    apart     \* accounts the owner split or moved from a person

peopleVars == <<db, loop, thread, page, acts, meant, apart>>

NoAccount == "nobody"
NoPage == << >>

PeopleTypeOK ==
    /\ db.people \in [Ids -> [name : Names \cup {NoName}, aliases : SUBSET Names] \cup {NoRow}]
    /\ \A u \in Users : db.accounts[u] = NoRow \/ db.accounts[u] \in Account
    /\ db.members \subseteq Chats \X Users
    /\ \A n \in NoteIds : db.notes[n] = NoRow \/ db.notes[n] \in Note
    /\ \A n \in NoteIds : \A i \in DOMAIN db.log[n] : db.log[n][i] \in Entry
    /\ db.seq \in 0 .. MaxNote
    /\ loop = NoPage \/ loop \in Chats \X Users
    /\ thread \in Users \cup {NoAccount}
    /\ page = NoPage \/ page \in Ids \X Ids
    /\ meant \in [NoteIds -> SUBSET Users] /\ apart \subseteq Users

PeopleInit ==
    /\ db = Empty /\ loop = NoPage /\ thread = NoAccount /\ page = NoPage
    /\ acts = 0
    /\ meant = [n \in NoteIds |-> {}] /\ apart = {}

LoopIsFree == loop = NoPage
Acts == acts < MaxActs /\ acts' = acts + 1

\* Whom a note is about, noted when that is set.
Subject(n, about) == meant' = [meant EXCEPT ![n] = AccountsOf(db, about)]

-----------------------------------------------------------------------------
(* Accounts appear *)

\* upsert_live(): the account and the roster
UpsertLive(d, c, u) == Roster(TouchLive(d, u, Live[u]), c, u)

\* upsert_live() of a known account, or up to the insertion of a new one
Writes(c, u) ==
    /\ LoopIsFree /\ Acts
    /\ IF PersonIdFor(db, u) # None
       THEN db' = UpsertLive(db, c, u) /\ UNCHANGED loop
       ELSE loop' = <<c, u>> /\ UNCHANGED db
    /\ UNCHANGED <<thread, page, meant, apart>>

\* The insertion: refused if the thread was faster, and the message's
\* handler fails.
LiveInserts ==
    /\ loop # NoPage
    /\ NewId(db) \in Ids
    /\ db' = LET stored == InsertPerson(db, loop[2])
             IN  IF db.accounts[loop[2]] # NoRow THEN stored
                 ELSE UpsertLive(stored, loop[1], loop[2])
    /\ loop' = NoPage
    /\ UNCHANGED <<thread, page, acts, meant, apart>>

\* upsert_imported() in the thread of the raw stage
UpsertImported(d, c, u) == Roster(TouchImported(d, u, Export[u]), c, u)

Imports(c, u) ==
    /\ Acts
    /\ thread = NoAccount
    /\ IF PersonIdFor(db, u) # None
       THEN db' = UpsertImported(db, c, u) /\ UNCHANGED thread
       ELSE thread' = u /\ UNCHANGED db
    /\ UNCHANGED <<loop, page, meant, apart>>

\* Refused likewise, and the stage fails.
ImportInserts(c) ==
    /\ thread # NoAccount
    /\ NewId(db) \in Ids
    /\ db' = LET stored == InsertPerson(db, thread)
             IN  IF db.accounts[thread] # NoRow THEN stored
                 ELSE UpsertImported(stored, c, thread)
    /\ thread' = NoAccount
    /\ UNCHANGED <<loop, page, acts, meant, apart>>

-----------------------------------------------------------------------------
(* The owner looks after people *)

Changes(d) == LoopIsFree /\ Acts /\ db' = d /\ UNCHANGED <<loop, thread, meant>>

Rename(p, n) ==
    /\ p \in PersonIds(db)
    /\ Changes(SetName(db, p, n)) /\ UNCHANGED <<page, apart>>

\* An alias from the person's page, a chat's page or a member's /alias
AliasSet(p, a) ==
    /\ p \in PersonIds(db)
    /\ Changes(AddAlias(db, p, a)) /\ UNCHANGED <<page, apart>>

AliasGone(p, a) ==
    /\ p \in PersonIds(db)
    /\ Changes(RemoveAlias(db, p, a)) /\ UNCHANGED <<page, apart>>

\* /clearaliases
AliasesCleared(c) ==
    /\ Changes(ClearAliases(db, {db.accounts[u].person : u \in MembersOf(db, c)}))
    /\ UNCHANGED <<page, apart>>

\* The first step shows whom it would merge; the second looks both up again.
MergeAsked(p, target) ==
    /\ p \in PersonIds(db) /\ target \in PersonIds(db) \ {p}
    /\ Changes(db) /\ page' = <<p, target>> /\ UNCHANGED apart

MergeConfirmed ==
    /\ page # NoPage
    /\ {page[1], page[2]} \subseteq PersonIds(db)
    /\ Changes(Merge(db, page[1], page[2]))
    /\ UNCHANGED <<page, apart>>

SplitOff(u) ==
    /\ CanSplit(db, u) /\ NewId(db) \in Ids
    /\ Changes(Split(db, u)) /\ apart' = apart \cup {u} /\ UNCHANGED page

\* The name apply_identities() sets: not one already shown, nor over the name
\* of somebody merged into.
Named(d, p, name, merged) ==
    IF name = NoName \/ (merged /\ d.people[p].name # NoName)
       \/ (d.people[p].name = NoName /\ DisplayNames(d, p) = {name})
    THEN d ELSE SetName(d, p, name)

\* apply_identities(): one sender of the export, whom the owner made one with
\* somebody or gave a name
Identity(u, target, name) ==
    /\ PersonIdFor(db, u) # None \/ NewId(db) \in Ids
    /\ LET known == TouchImported(InsertPerson(db, u), u, Export[u])
           p == PersonIdFor(known, u)
           merged == target \in PersonIds(known) \ {p}
           moved == IF merged THEN MoveAccount(known, u, target) ELSE known
       IN  /\ Changes(Named(moved, PersonIdFor(moved, u), name, merged))
           /\ apart' = IF merged THEN apart \cup {u} ELSE apart
    /\ UNCHANGED page

-----------------------------------------------------------------------------
(* Notes *)

Keeps(d) == LoopIsFree /\ Acts /\ db' = d /\ UNCHANGED <<loop, thread, page, apart>>

\* add_note() of the web admin, its lock set in a second step
OwnerAdds(c, content, about, locked) ==
    /\ db.seq < MaxNote
    /\ about \in {db.accounts[u].person : u \in MembersOf(db, c)} \cup {None}
    /\ Keeps(SetLocked(AddNote(db, c, content, about), db.seq + 1, locked))
    /\ Subject(db.seq + 1, about)

\* edit_note()
OwnerEdits(n, content, about) ==
    /\ MayChange(db, n, TRUE)
    /\ about \in {db.accounts[u].person : u \in MembersOf(db, db.notes[n].chat)} \cup {None}
    /\ Keeps(UpdateNote(db, n, content, about))
    /\ IF about = db.notes[n].about THEN UNCHANGED meant ELSE Subject(n, about)

\* lock_note()
OwnerLocks(n) ==
    /\ db.notes[n] # NoRow
    /\ Keeps(SetLocked(db, n, ~db.notes[n].locked)) /\ UNCHANGED meant

OwnerDeletes(n) == MayChange(db, n, TRUE) /\ Keeps(DeleteNote(db, n)) /\ UNCHANGED meant

OwnerClearsNotes(c) == Keeps(DeleteForChat(db, c)) /\ UNCHANGED meant

\* find_person(): exactly one person of the chat, or the tool's error
Found(c, text) == ResolveAbout(db, c, text) # None

\* The tool remember of a new note
Remembers(c, content, text) ==
    /\ text = NoName \/ Found(c, text)
    /\ Count(db, c) < NoteLimit /\ db.seq < MaxNote
    /\ LET about == IF text = NoName THEN None ELSE ResolveAbout(db, c, text)
       IN  Keeps(AddNote(db, c, content, about)) /\ Subject(db.seq + 1, about)

\* ... and of one in place of a note of this group
Replaces(c, n, content, text) ==
    /\ text = NoName \/ Found(c, text)
    /\ n \in ForChat(db, c) /\ MayChange(db, n, FALSE)
    /\ LET about == IF text = NoName THEN db.notes[n].about ELSE ResolveAbout(db, c, text)
       IN  /\ Keeps(UpdateNote(db, n, content, about))
           /\ IF about = db.notes[n].about THEN UNCHANGED meant ELSE Subject(n, about)

Forgets(c, n) ==
    /\ n \in ForChat(db, c) /\ MayChange(db, n, FALSE)
    /\ Keeps(DeleteNote(db, n)) /\ UNCHANGED meant

\* The digest keeper's update proposes a change of the notes.
Proposes(c, a) ==
    /\ a.kind = "add" => db.seq < MaxNote
    /\ Keeps(ApplyNoteAction(db, c, a))
    /\ meant' = [n \in NoteIds |->
                    IF db'.notes[n] = NoRow \/ db'.notes[n] = db.notes[n] THEN meant[n]
                    ELSE AccountsOf(db, db'.notes[n].about)]

Proposal == [kind : {"add"}, content : Facts, about : Names \cup {NoName}]
       \cup [kind : {"update"}, id : NoteIds, content : Facts, about : Names \cup {NoName}]

Owner ==
    \/ \E p \in Ids, n \in Chosen \cup {NoName} : Rename(p, n)
    \/ \E p \in Ids, a \in Chosen : AliasSet(p, a) \/ AliasGone(p, a)
    \/ \E c \in Chats : AliasesCleared(c) \/ OwnerClearsNotes(c)
    \/ \E p, target \in Ids : MergeAsked(p, target)
    \/ MergeConfirmed
    \/ \E u \in Users : SplitOff(u)
    \/ \E u \in Users, target \in Ids \cup {None}, name \in Chosen \cup {NoName} :
           Identity(u, target, name)
    \/ \E c \in Chats, f \in Facts, p \in Ids \cup {None}, l \in BOOLEAN : OwnerAdds(c, f, p, l)
    \/ \E n \in NoteIds, f \in Facts, p \in Ids \cup {None} : OwnerEdits(n, f, p)
    \/ \E n \in NoteIds : OwnerLocks(n) \/ OwnerDeletes(n)

Bot ==
    \/ \E c \in Chats, f \in Facts, text \in Names \cup {NoName} : Remembers(c, f, text)
    \/ \E c \in Chats, n \in NoteIds, f \in Facts, text \in Names \cup {NoName} :
           Replaces(c, n, f, text)
    \/ \E c \in Chats, n \in NoteIds : Forgets(c, n)
    \/ \E c \in Chats, a \in Proposal : Proposes(c, a)

PeopleNext ==
    \/ \E c \in Chats, u \in Users : Writes(c, u) \/ Imports(c, u)
    \/ LiveInserts
    \/ \E c \in Chats : ImportInserts(c)
    \/ Owner
    \/ Bot

PeopleSpec == PeopleInit /\ [][PeopleNext]_peopleVars

-----------------------------------------------------------------------------
(* Properties *)

\* Every account belongs to a person there is, and nobody is left without an
\* account, whatever is merged, moved and split, and although two threads may
\* find the same account to be new.
EveryoneHasAnAccount ==
    /\ \A u \in Users : db.accounts[u] # NoRow => db.accounts[u].person \in PersonIds(db)
    /\ \A p \in PersonIds(db) : AccountsOf(db, p) # {}

\* The last lock or unlock among entries was a lock.
EndsLocked(entries) ==
    \E i \in DOMAIN entries :
        /\ entries[i].action = "locked"
        /\ \A j \in DOMAIN entries : j > i => entries[j].action # "unlocked"

\* Entries that are the history of a note, or of one that is gone
Tells(entries, note) ==
    LET last == entries[Len(entries)]
    IN  /\ \A i, j \in DOMAIN entries : entries[i].chat = entries[j].chat
        /\ IF note = NoRow THEN entries # << >> => last.action = "deleted"
           ELSE
             /\ entries # << >>
             /\ <<last.chat, last.content, last.about>> =
                    <<note.chat, note.content, note.about>>
             /\ note.locked <=> EndsLocked(entries)

\* The history of a note tells whose chat it is of, what it says, whom it is
\* about and whether it is locked or deleted, also after people were merged; a
\* note of a chat whose memory was cleared has none.
HistoryTellsAll ==
    \A n \in NoteIds : Tells(db.log[n], db.notes[n])

\* A note is about somebody there is, and never about a stranger: not about a
\* later person who got the ID of one merged away.  Who was split off or moved
\* by the owner leaves the notes behind.
NotesKeepTheirSubject ==
    \A n \in NoteIds : (db.notes[n] # NoRow /\ db.notes[n].about # None) =>
        /\ db.notes[n].about \in PersonIds(db)
        /\ \/ meant[n] \cap apart # {}
           \/ meant[n] \subseteq AccountsOf(db, db.notes[n].about)

\* What the model proposes or calls changes no locked note, whoever the note
\* is about and however its text reaches the model.
LockedNotesStay ==
    [][Bot => \A n \in NoteIds :
          (db.notes[n] # NoRow /\ db.notes[n].locked) => db'.notes[n] = db.notes[n]]_peopleVars

\* What is remembered has a subject and a past: no person without an account,
\* no note about nobody or a stranger, and none whose history tells otherwise.
MemoryIsSound ==
    PeopleTypeOK /\ EveryoneHasAnAccount /\ HistoryTellsAll /\ NotesKeepTheirSubject
=============================================================================
