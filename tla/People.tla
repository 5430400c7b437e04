-------------------------------- MODULE People --------------------------------
(***************************************************************************)
(* The repositories of people, group rosters and memory notes              *)
(* (naruto/db/people.py, db/members.py, db/memory.py, memory/notes.py) as  *)
(* functions of one database record.  Times, @usernames, categories and    *)
(* message sources are left out: nothing here depends on them.             *)
(***************************************************************************)
EXTENDS Integers, Sequences, FiniteSetsExt

CONSTANTS Users,      \* Telegram accounts
          Chats,
          Names,      \* what somebody can be called
          Parts,      \* the pairs <<part, name>>: a name contains another
          Facts,      \* contents of notes
          MaxPerson,  \* bound: IDs of people
          MaxNote,    \* bound: IDs of notes
          NoteLimit   \* memory.max_notes_per_chat

ASSUME PeopleAssumption ==
    /\ {MaxPerson, MaxNote, NoteLimit} \subseteq Nat \ {0}
    /\ Parts \subseteq Names \X Names

None == 0             \* NULL
NoName == "nobody"    \* NULL as a name
NoRow == << >>
Ids == 1 .. MaxPerson
NoteIds == 1 .. MaxNote

\* Rows of people (with its aliases), accounts, memory_notes and
\* memory_note_history.
Person == [name : Names \cup {NoName}, aliases : SUBSET Names]
Account == [person : Ids, live : Names \cup {NoName}, export : Names \cup {NoName}]
Note == [chat : Chats, content : Facts, about : Ids \cup {None}, locked : BOOLEAN]
Entry == [chat : Chats, action : {"created", "updated", "deleted", "locked", "unlocked"},
          content : Facts, about : Ids \cup {None}]

Empty == [people |-> [p \in Ids |-> NoRow], accounts |-> [u \in Users |-> NoRow],
          members |-> {}, notes |-> [n \in NoteIds |-> NoRow],
          log |-> [n \in NoteIds |-> << >>], seq |-> 0]

-----------------------------------------------------------------------------
(* People *)

PersonIds(d) == {p \in Ids : d.people[p] # NoRow}
AccountsOf(d, p) == {u \in Users : d.accounts[u] # NoRow /\ d.accounts[u].person = p}

\* person_id_for()
PersonIdFor(d, u) == IF d.accounts[u] = NoRow THEN None ELSE d.accounts[u].person

\* The ID of the next row of people: one above the highest, so the ID of a
\* deleted person comes again.
NewId(d) == Max(PersonIds(d) \cup {0}) + 1

NewPerson == [name |-> NoName, aliases |-> {}]

\* _ensure_account() after its check: both rows, or none when the account
\* exists by now.
InsertPerson(d, u) ==
    LET id == NewId(d)
    IN  IF d.accounts[u] # NoRow THEN d
        ELSE [d EXCEPT !.people[id] = NewPerson,
                       !.accounts[u] = [person |-> id, live |-> NoName, export |-> NoName]]

TouchLive(d, u, n) == [d EXCEPT !.accounts[u].live = IF n = NoName THEN @ ELSE n]
TouchImported(d, u, n) == [d EXCEPT !.accounts[u].export = IF n = NoName THEN @ ELSE n]

\* display_name: the chosen name, else an account's; with several accounts
\* the most recently seen, here any.
DisplayNames(d, p) ==
    LET mine == AccountsOf(d, p)
        live == {d.accounts[u].live : u \in mine} \ {NoName}
        export == {d.accounts[u].export : u \in mine} \ {NoName}
    IN  IF d.people[p].name # NoName THEN {d.people[p].name}
        ELSE IF live # {} THEN live ELSE export

SetName(d, p, n) == IF d.people[p] = NoRow THEN d ELSE [d EXCEPT !.people[p].name = n]

AddAlias(d, p, a) ==
    IF d.people[p] = NoRow THEN d ELSE [d EXCEPT !.people[p].aliases = @ \cup {a}]

RemoveAlias(d, p, a) ==
    IF d.people[p] = NoRow THEN d ELSE [d EXCEPT !.people[p].aliases = @ \ {a}]

ClearAliases(d, ps) ==
    [d EXCEPT !.people = [p \in Ids |->
        IF p \in ps /\ @[p] # NoRow THEN [name |-> @[p].name, aliases |-> {}] ELSE @[p]]]

\* Mutant: the history of the notes still names the deleted person.
MergeNotesOnly(d, source, target) ==
    LET at(p) == IF p = source THEN target ELSE p
        moved(r) == IF r = NoRow THEN NoRow ELSE [r EXCEPT !.person = at(@)]
        told(r) == IF r = NoRow THEN NoRow ELSE [r EXCEPT !.about = at(@)]
        from == d.people[source]
        to == d.people[target]
    IN  [d EXCEPT
           !.accounts = [u \in Users |-> moved(d.accounts[u])],
           !.people = [@ EXCEPT ![source] = NoRow, ![target] =
                [name |-> IF to.name = NoName THEN from.name ELSE to.name,
                 aliases |-> to.aliases \cup from.aliases]],
           !.notes = [n \in NoteIds |-> told(d.notes[n])]]

\* merge(): accounts, aliases, notes and their history move over, then the
\* source goes.
Merge(d, source, target) ==
    LET at(p) == IF p = source THEN target ELSE p
        moved(r) == IF r = NoRow THEN NoRow ELSE [r EXCEPT !.person = at(@)]
        told(r) == IF r = NoRow THEN NoRow ELSE [r EXCEPT !.about = at(@)]
        from == d.people[source]
        to == d.people[target]
    IN  [d EXCEPT
           !.accounts = [u \in Users |-> moved(d.accounts[u])],
           !.people = [@ EXCEPT ![source] = NoRow, ![target] =
                [name |-> IF to.name = NoName THEN from.name ELSE to.name,
                 aliases |-> to.aliases \cup from.aliases]],
           !.notes = [n \in NoteIds |-> told(d.notes[n])],
           !.log = [n \in NoteIds |-> [i \in DOMAIN d.log[n] |-> told(d.log[n][i])]]]

\* move_account() to somebody else: who is left with no account is merged.
MoveAccount(d, u, target) ==
    LET old == d.accounts[u].person
    IN  IF AccountsOf(d, old) = {u} THEN Merge(d, old, target)
        ELSE [d EXCEPT !.accounts[u].person = target]

\* split(), refused for an only account
CanSplit(d, u) == d.accounts[u] # NoRow /\ AccountsOf(d, d.accounts[u].person) # {u}
Split(d, u) ==
    LET id == NewId(d)
    IN  [d EXCEPT !.people[id] = NewPerson, !.accounts[u].person = id]

-----------------------------------------------------------------------------
(* Rosters *)

Roster(d, c, u) == [d EXCEPT !.members = @ \cup {<<c, u>>}]
MembersOf(d, c) == {u \in Users : <<c, u>> \in d.members /\ d.accounts[u] # NoRow}

\* _names() of a member
NamesOf(d, u) ==
    LET p == d.accounts[u].person
    IN  (DisplayNames(d, p) \cup {d.accounts[u].live, d.accounts[u].export}
            \cup d.people[p].aliases) \ {NoName}

\* match_members(): exact matches win over partial ones.
MatchMembers(d, us, text) ==
    LET exact == {u \in us : text \in NamesOf(d, u)}
    IN  IF exact # {} THEN exact
        ELSE {u \in us : \E n \in NamesOf(d, u) : <<text, n>> \in Parts}

\* resolve_about(): a name that is exactly one person of the chat
ResolveAbout(d, c, text) ==
    LET found == {d.accounts[u].person : u \in MatchMembers(d, MembersOf(d, c), text)}
    IN  IF Cardinality(found) = 1 THEN Max(found) ELSE None

-----------------------------------------------------------------------------
(* Notes *)

Count(d, c) == Cardinality({n \in NoteIds : d.notes[n] # NoRow /\ d.notes[n].chat = c})
ForChat(d, c) == {n \in NoteIds : d.notes[n] # NoRow /\ d.notes[n].chat = c}

\* _log()
Logged(d, n, note, action) ==
    [d EXCEPT !.log[n] = Append(@,
        [chat |-> note.chat, action |-> action, content |-> note.content, about |-> note.about])]

\* add(): the next ID, never one used before (AUTOINCREMENT)
AddNote(d, c, content, about) ==
    LET id == d.seq + 1
        note == [chat |-> c, content |-> content, about |-> about, locked |-> FALSE]
    IN  Logged([d EXCEPT !.seq = id, !.notes[id] = note], id, note, "created")

\* Mutant: the lock is not looked at.
MayChangeAny(d, n, force) == d.notes[n] # NoRow

\* What update() and delete() refuse with an error
MayChange(d, n, force) == d.notes[n] # NoRow /\ (force \/ ~d.notes[n].locked)

\* update() of what may be changed: logged when it changes something
UpdateNote(d, n, content, about) ==
    LET note == [d.notes[n] EXCEPT !.content = content, !.about = about]
    IN  IF note = d.notes[n] THEN d
        ELSE Logged([d EXCEPT !.notes[n] = note], n, note, "updated")

DeleteNote(d, n) == [Logged(d, n, d.notes[n], "deleted") EXCEPT !.notes[n] = NoRow]

SetLocked(d, n, locked) ==
    LET note == [d.notes[n] EXCEPT !.locked = locked]
    IN  IF note = d.notes[n] THEN d
        ELSE Logged([d EXCEPT !.notes[n] = note], n, note,
                    IF locked THEN "locked" ELSE "unlocked")

\* delete_for_chat(): the notes and the history of every note the chat had.
\* All entries of a note are of its chat, so its history goes whole.
DeleteForChat(d, c) ==
    [d EXCEPT !.notes = [n \in NoteIds |-> IF n \in ForChat(d, c) THEN NoRow ELSE d.notes[n]],
              !.log = [n \in NoteIds |->
                  IF \E i \in DOMAIN d.log[n] : d.log[n][i].chat = c THEN << >>
                  ELSE d.log[n]]]

\* apply_note_actions() for one proposed action, automatic notes being on:
\* no duplicate, none above the limit, none of another chat, none locked.
ApplyNoteAction(d, c, a) ==
    LET about == IF a.about = NoName THEN None ELSE ResolveAbout(d, c, a.about)
    IN  IF a.kind = "add"
        THEN IF (\E n \in ForChat(d, c) : d.notes[n].content = a.content)
                    \/ Count(d, c) >= NoteLimit
             THEN d ELSE AddNote(d, c, a.content, about)
        ELSE IF a.id \in ForChat(d, c) /\ MayChange(d, a.id, FALSE)
             THEN UpdateNote(d, a.id, a.content,
                             IF a.about = NoName THEN d.notes[a.id].about ELSE about)
             ELSE d
=============================================================================
