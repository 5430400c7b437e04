------------------------------ MODULE GroupsProofs ------------------------------
(***************************************************************************)
(* Proofs about Chats: a group stays one chat, what is known of the bot's  *)
(* membership is true once nothing is under way, its owner is told of it,  *)
(* and no step but the owner's takes a decision back.  And about Board:    *)
(* what is pinned in the group is what is saved.                           *)
(*                                                                         *)
(* An operation of the repositories writes one row of the tables (Writes)  *)
(* or migrates the old ID's.  What the lemmas show of the two is all that  *)
(* the proofs of the steps need.                                           *)
(***************************************************************************)
EXTENDS Chats, Board, FiniteSetTheorems, TLAPS

-----------------------------------------------------------------------------
(* The invariant *)

\* The tables are whole: at most the old ID leads to another, and then it has
\* no row, and what belongs to a chat is under an ID that has one.
Whole(d) ==
    /\ d \in Tables
    /\ d.aliases[New] = None /\ d.aliases[Old] \in {None, New}
    /\ d.aliases[Old] = New => d.chats[Old] = NoRow
    /\ \A m \in d.messages : d.chats[m.chat] # NoRow
    /\ \A c \in d.members : d.chats[c] # NoRow

\* The bot learns of the upgrade after Telegram; updates with the new ID come
\* after those with the old one.
Aligned(d, s, g) ==
    /\ g.id = Old => /\ d.aliases[Old] = None /\ d.chats[New] = NoRow
                     /\ \A i \in DOMAIN s : s[i].id = Old
    /\ \A i, j \in DOMAIN s : i < j /\ s[i].id = New => s[j].id = New

IsMember(u) == u.kind \in {"join", "gone", "rights"}
NoMember(s, ids) == \A i \in DOMAIN s : IsMember(s[i]) => s[i].id \notin ids
IsLast(s, i) == IsMember(s[i]) /\ \A j \in DOMAIN s : j > i => ~IsMember(s[j])

\* The IDs whose updates change the row of the group's current ID
Leading(d, g) == IF d.aliases[Old] = New THEN Ids ELSE {g.id}

\* The latest update of the membership is true ...
LastIsTrue(s, g) ==
    \A i \in DOMAIN s : IsLast(s, i) => (s[i].kind # "gone") = g.present

\* ... and once it is handled, so is the row of the current ID, or the old
\* one's that will move there.
RowIsTrue(d, s, g) ==
    /\ d.chats[g.id] # NoRow /\ NoMember(s, Leading(d, g)) => d.chats[g.id].present = g.present
    /\ d.chats[g.id] = NoRow /\ NoMember(s, Ids) =>
          \A c \in Ids : d.chats[c] # NoRow => d.chats[c].present = g.present

\* That the bot left is the last it hears of the chat.
GoneIsLast(d, s, g) ==
    /\ g.id = New /\ ~g.present => ~NoMember(s, {New}) \/ \A i \in DOMAIN s : s[i].id = New
    /\ ~g.present /\ NoMember(s, Ids) => \A i \in DOMAIN s : Known(d, s[i].id)

Truth(d, s, g) == LastIsTrue(s, g) /\ RowIsTrue(d, s, g) /\ GoneIsLast(d, s, g)

AnswersTrue(ts, g) ==
    \A t \in ts : t.kind = "check" /\ t.answer \in {"in", "out"} => (t.answer = "in") = g.present

\* Nobody has decided about the group, under either ID.
NoRows(d) == \A c \in Ids : d.chats[c] = NoRow
Undecided(d) ==
    ~NoRows(d) /\ \A c \in Ids : d.chats[c] # NoRow => d.chats[c].status = "pending"

\* The owner's message about an undecided group was sent, or will be: the
\* group's first update is its joining.
Telling(d, s, g, ts, word) ==
    /\ NoRows(d) => IF s = << >> THEN ~g.present ELSE Head(s).kind = "join"
    /\ word = "no" /\ Undecided(d) =>
          \/ \E t \in ts : t.kind \in {"joined", "notify"}
          \/ \E i \in DOMAIN s : s[i].kind = "join"

GroupsInv ==
    /\ TypeOK
    /\ Whole(db)
    /\ Aligned(db, updates, group)
    /\ group.id = Old => notices = {}
    /\ group.id = New /\ notices # {"to", "from"} =>
          db.aliases[Old] = New \/ (astray /\ told = "missed")
    /\ \A t \in tasks : Known(db, t.id)
    /\ ~astray => Truth(db, updates, group) /\ AnswersTrue(tasks, group)
    /\ told # "missed" => Telling(db, updates, group, tasks, told)

-----------------------------------------------------------------------------
(* Identities *)

LEMMA IdFacts ==
    /\ Old \in Ids /\ New \in Ids /\ Old # New /\ None \notin Ids
    /\ \A c : c \in Ids <=> c = Old \/ c = New
BY DEF Old, New, Ids, None

LEMMA NoRowIsNoChat == NoRow \notin Chat
<1>1. DOMAIN NoRow = {}
  BY DEF NoRow
<1>2. \A x \in Chat : "status" \in DOMAIN x
  BY DEF Chat
<1> QED BY <1>1, <1>2

LEMMA TableTypes ==
    ASSUME NEW d \in Tables
    PROVE  /\ d.chats \in [Ids -> {NoRow} \cup Chat]
           /\ d.aliases \in [Ids -> Ids \cup {None}]
           /\ d.messages \in SUBSET Message /\ d.members \in SUBSET Ids
           /\ \A c \in Ids : d.chats[c] # NoRow => d.chats[c] \in Chat
BY DEF Tables

LEMMA ResolveIs ==
    ASSUME NEW d, Whole(d), NEW c \in Ids
    PROVE  /\ Resolve(d, c) = IF d.aliases[Old] = New THEN New ELSE c
           /\ Resolve(d, c) \in Ids
           /\ d.aliases[Old] = New => Resolve(d, c) # Old
<1>1. d.aliases[New] = None /\ d.aliases[Old] \in {None, New}
  BY DEF Whole
<1>2. CASE c = New
  <2>1. Resolve(d, c) = New
    BY <1>1, <1>2 DEF Resolve
  <2> QED BY <1>2, <2>1, IdFacts
<1>3. CASE c = Old
  <2>1. CASE d.aliases[Old] = New
    <3>1. Resolve(d, c) = New
      BY <1>1, <1>3, <2>1, IdFacts DEF Resolve
    <3> QED BY <2>1, <3>1, IdFacts
  <2>2. CASE d.aliases[Old] = None
    <3>1. Resolve(d, c) = Old
      BY <1>3, <2>2 DEF Resolve
    <3> QED BY <1>3, <2>2, <3>1, IdFacts
  <2> QED BY <1>1, <2>1, <2>2
<1> QED BY <1>2, <1>3, IdFacts

-----------------------------------------------------------------------------
(* What an operation on the tables writes *)

\* What a row was, and is, unless its status is one that was decided
RowFollows(was, is, decided) ==
    /\ was.since # None => is.since = was.since
    /\ is.status = was.status \/ is.status \in decided

Nothing == {}
Decisions == {"enabled", "disabled"}

\* The row of an ID, its messages and members
Writes(d, e, r, there, decided) ==
    /\ e \in Tables /\ e.aliases = d.aliases
    /\ \E is \in Chat :
          /\ e.chats = [d.chats EXCEPT ![r] = is]
          /\ is.present = there
          /\ d.chats[r] # NoRow => RowFollows(d.chats[r], is, decided)
    /\ \A m \in e.messages : m \in d.messages \/ m.chat = r
    /\ \A c \in e.members : c \in d.members \/ c = r

LEMMA WritesRow ==
    ASSUME NEW d, NEW e, NEW r \in Ids, NEW there, NEW decided, Whole(d),
           Writes(d, e, r, there, decided)
    PROVE  /\ e \in Tables /\ e.aliases = d.aliases
           /\ e.chats[r] \in Chat /\ e.chats[r] # NoRow
           /\ \A c \in Ids : c # r => e.chats[c] = d.chats[c]
<1>1. PICK is \in Chat :
          /\ e.chats = [d.chats EXCEPT ![r] = is]
          /\ is.present = there
          /\ d.chats[r] # NoRow => RowFollows(d.chats[r], is, decided)
  BY DEF Writes
<1>2. d.chats \in [Ids -> {NoRow} \cup Chat]
  BY TableTypes DEF Whole
<1>3. e.chats[r] = is /\ \A c \in Ids : c # r => e.chats[c] = d.chats[c]
  BY <1>1, <1>2
<1> QED BY <1>1, <1>3, NoRowIsNoChat DEF Writes

LEMMA WrittenIsThere ==
    ASSUME NEW d, NEW e, NEW r \in Ids, NEW there, NEW decided, Whole(d),
           Writes(d, e, r, there, decided)
    PROVE  e.chats[r] # NoRow
<1>1. PICK is \in Chat : e.chats = [d.chats EXCEPT ![r] = is]
  BY DEF Writes
<1>2. d.chats \in [Ids -> {NoRow} \cup Chat]
  BY TableTypes DEF Whole
<1>3. e.chats[r] = is
  BY <1>1, <1>2
<1> QED BY <1>3, NoRowIsNoChat

LEMMA WrittenPresent ==
    ASSUME NEW d, NEW e, NEW r \in Ids, NEW there, NEW decided, Whole(d),
           Writes(d, e, r, there, decided)
    PROVE  e.chats[r].present = there
<1>1. PICK is \in Chat : e.chats = [d.chats EXCEPT ![r] = is] /\ is.present = there
  BY DEF Writes
<1>2. d.chats \in [Ids -> {NoRow} \cup Chat]
  BY TableTypes DEF Whole
<1> QED BY <1>1, <1>2

LEMMA WrittenFollows ==
    ASSUME NEW d, NEW e, NEW r \in Ids, NEW there, NEW decided, Whole(d),
           Writes(d, e, r, there, decided), d.chats[r] # NoRow
    PROVE  RowFollows(d.chats[r], e.chats[r], decided)
<1>1. PICK is \in Chat :
          /\ e.chats = [d.chats EXCEPT ![r] = is]
          /\ RowFollows(d.chats[r], is, decided)
  BY DEF Writes
<1>2. d.chats \in [Ids -> {NoRow} \cup Chat]
  BY TableTypes DEF Whole
<1> QED BY <1>1, <1>2

LEMMA WritesWhole ==
    ASSUME NEW d, NEW e, NEW r \in Ids, NEW there, NEW decided, Whole(d),
           d.aliases[Old] = New => r # Old, Writes(d, e, r, there, decided)
    PROVE  Whole(e)
<1>1. /\ e \in Tables /\ e.aliases = d.aliases /\ e.chats[r] # NoRow
      /\ \A c \in Ids : c # r => e.chats[c] = d.chats[c]
  BY WritesRow
<1>2. \A c \in Ids : d.chats[c] # NoRow => e.chats[c] # NoRow
  BY <1>1
<1>3. /\ \A m \in e.messages : m \in d.messages \/ m.chat = r
      /\ \A c \in e.members : c \in d.members \/ c = r
  BY DEF Writes
<1>4. \A m \in d.messages : m.chat \in Ids
  <2>1. d.messages \in SUBSET Message
    BY TableTypes DEF Whole
  <2> QED BY <2>1 DEF Message
<1>5. d.members \in SUBSET Ids
  BY TableTypes DEF Whole
<1>6. ASSUME NEW m \in e.messages PROVE e.chats[m.chat] # NoRow
  <2>1. CASE m.chat = r
    BY <1>1, <2>1
  <2>2. CASE m \in d.messages
    BY <1>2, <1>4, <2>2 DEF Whole
  <2> QED BY <1>3, <2>1, <2>2
<1>7. ASSUME NEW c \in e.members PROVE e.chats[c] # NoRow
  <2>1. CASE c = r
    BY <1>1, <2>1
  <2>2. CASE c \in d.members
    BY <1>2, <1>5, <2>2 DEF Whole
  <2> QED BY <1>3, <2>1, <2>2
<1>8. e.aliases[Old] = New => e.chats[Old] = NoRow
  BY <1>1, IdFacts DEF Whole
<1>9. e.aliases[New] = None /\ e.aliases[Old] \in {None, New}
  BY <1>1 DEF Whole
<1> QED BY <1>1, <1>6, <1>7, <1>8, <1>9 DEF Whole

LEMMA WritesThenWrites ==
    ASSUME NEW d, NEW e, NEW f, NEW r \in Ids, NEW p, NEW q, NEW decided, Whole(d), Whole(e),
           Writes(d, e, r, p, decided), Writes(e, f, r, q, decided)
    PROVE  Writes(d, f, r, q, decided)
<1>1. PICK is \in Chat : /\ e.chats = [d.chats EXCEPT ![r] = is]
                         /\ d.chats[r] # NoRow => RowFollows(d.chats[r], is, decided)
  BY DEF Writes
<1>2. PICK then \in Chat : /\ f.chats = [e.chats EXCEPT ![r] = then] /\ then.present = q
                           /\ e.chats[r] # NoRow => RowFollows(e.chats[r], then, decided)
  BY DEF Writes
<1>3. d.chats \in [Ids -> {NoRow} \cup Chat]
  BY TableTypes DEF Whole
<1>4. e.chats[r] = is /\ is # NoRow
  BY <1>1, <1>3, NoRowIsNoChat
<1>5. f.chats = [d.chats EXCEPT ![r] = then]
  BY <1>1, <1>2, <1>3
<1>6. d.chats[r] # NoRow => RowFollows(d.chats[r], then, decided)
  <2>1. RowFollows(is, then, decided)
    BY <1>2, <1>4
  <2> QED BY <1>1, <2>1 DEF RowFollows
<1>7. /\ f \in Tables /\ f.aliases = d.aliases
      /\ \A m \in f.messages : m \in d.messages \/ m.chat = r
      /\ \A c \in f.members : c \in d.members \/ c = r
  BY DEF Writes
<1> QED BY <1>2, <1>5, <1>6, <1>7 DEF Writes

LEMMA WritesMore ==
    ASSUME NEW d, NEW e, NEW r, NEW p, Writes(d, e, r, p, Nothing)
    PROVE  Writes(d, e, r, p, Decisions)
BY DEF Writes, RowFollows, Nothing

\* The row of a chat is replaced.
LEMMA RowIsWritten ==
    ASSUME NEW d, Whole(d), NEW r \in Ids, NEW is \in Chat, NEW decided,
           d.chats[r] # NoRow => RowFollows(d.chats[r], is, decided)
    PROVE  Writes(d, [d EXCEPT !.chats[r] = is], r, is.present, decided)
<1>1. d \in Tables /\ d.chats \in [Ids -> {NoRow} \cup Chat]
  BY TableTypes DEF Whole
<1>2. PICK e : e = [d EXCEPT !.chats[r] = is]
  OBVIOUS
<1>3. /\ e.chats = [d.chats EXCEPT ![r] = is] /\ e.aliases = d.aliases
      /\ e.messages = d.messages /\ e.members = d.members
  BY <1>1, <1>2 DEF Tables
<1>4. e \in Tables
  BY <1>1, <1>2 DEF Tables
<1>5. Writes(d, e, r, is.present, decided)
  BY <1>3, <1>4 DEF Writes
<1> QED BY <1>2, <1>5

LEMMA ChangedWrites ==
    ASSUME NEW d, Whole(d), NEW c \in Ids, Known(d, c), NEW is \in Chat, NEW decided,
           RowFollows(Get(d, c), is, decided)
    PROVE  Writes(d, Changed(d, c, is), Resolve(d, c), is.present, decided)
<1>1. PICK r \in Ids : r = Resolve(d, c)
  BY ResolveIs
<1>2. RowFollows(d.chats[r], is, decided) /\ Changed(d, c, is) = [d EXCEPT !.chats[r] = is]
  BY <1>1 DEF Get, Changed
<1> QED BY <1>1, <1>2, RowIsWritten

\* A chat with a row
LEMMA KnownChat ==
    ASSUME NEW d, Whole(d), NEW c \in Ids, Known(d, c)
    PROVE  Get(d, c) = d.chats[Resolve(d, c)] /\ Get(d, c) \in Chat /\ Get(d, c) # NoRow
<1>1. PICK r \in Ids : r = Resolve(d, c)
  BY ResolveIs
<1>2. d.chats[r] # NoRow /\ d.chats[r] \in Chat
  BY <1>1, TableTypes DEF Known, Whole
<1> QED BY <1>1, <1>2 DEF Get

LEMMA SetStatusWrites ==
    ASSUME NEW d, Whole(d), NEW c \in Ids, Known(d, c), now \in 1 .. MaxTime,
           NEW status \in {"enabled", "disabled"}
    PROVE  Writes(d, SetStatus(d, c, status), Resolve(d, c), Get(d, c).present, Decisions)
<1>1. PICK chat \in Chat : chat = Get(d, c)
  BY KnownChat
<1>2. PICK is : is = [chat EXCEPT
                        !.status = status,
                        !.since = IF status = "enabled" /\ chat.since = None THEN now ELSE chat.since]
  OBVIOUS
<1>3. now \in 0 .. MaxTime /\ status \in Statuses
  BY DEF Statuses
<1>4. /\ is \in Chat /\ is.present = chat.present /\ is.status = status
      /\ chat.since # None => is.since = chat.since
  BY <1>2, <1>3 DEF Chat
<1>5. RowFollows(Get(d, c), is, Decisions)
  BY <1>1, <1>4 DEF RowFollows, Decisions
<1>6. SetStatus(d, c, status) = Changed(d, c, is)
  BY <1>1, <1>2 DEF SetStatus
<1> QED BY <1>1, <1>4, <1>5, <1>6, ChangedWrites

LEMMA SetMembershipWrites ==
    ASSUME NEW d, Whole(d), NEW c \in Ids, Known(d, c), NEW there \in BOOLEAN
    PROVE  Writes(d, SetMembership(d, c, there), Resolve(d, c), there, Nothing)
<1>1. PICK chat \in Chat : chat = Get(d, c)
  BY KnownChat
<1>2. PICK is : is = [chat EXCEPT !.present = there]
  OBVIOUS
<1>3. /\ is \in Chat /\ is.present = there /\ is.status = chat.status /\ is.since = chat.since
  BY <1>2 DEF Chat
<1>4. RowFollows(Get(d, c), is, Nothing)
  BY <1>1, <1>3 DEF RowFollows
<1>5. SetMembership(d, c, there) = Changed(d, c, is)
  BY <1>1, <1>2 DEF SetMembership
<1> QED BY <1>3, <1>4, <1>5, ChangedWrites

LEMMA MarkNotifiedWrites ==
    ASSUME NEW d, Whole(d), NEW c \in Ids, Known(d, c)
    PROVE  Writes(d, MarkNotified(d, c), Resolve(d, c), Get(d, c).present, Nothing)
<1>1. PICK chat \in Chat : chat = Get(d, c)
  BY KnownChat
<1>2. PICK is : is = [chat EXCEPT !.notified = TRUE]
  OBVIOUS
<1>3. /\ is \in Chat /\ is.present = chat.present /\ is.status = chat.status
      /\ is.since = chat.since
  BY <1>2 DEF Chat
<1>4. RowFollows(Get(d, c), is, Nothing)
  BY <1>1, <1>3 DEF RowFollows
<1>5. MarkNotified(d, c) = Changed(d, c, is)
  BY <1>1, <1>2 DEF MarkNotified
<1> QED BY <1>1, <1>3, <1>4, <1>5, ChangedWrites

\* What the row of an ID says of the bot's membership, after it was seen
SeenPresent(d, c) == IF Known(d, c) THEN Get(d, c).present ELSE TRUE

LEMMA UpsertSeenWrites ==
    ASSUME NEW d, Whole(d), NEW c \in Ids
    PROVE  /\ Writes(d, UpsertSeen(d, c), Resolve(d, c), SeenPresent(d, c), Nothing)
           /\ Whole(UpsertSeen(d, c))
           /\ Known(UpsertSeen(d, c), c)
           /\ Resolve(UpsertSeen(d, c), c) = Resolve(d, c)
           /\ Get(UpsertSeen(d, c), c).present = SeenPresent(d, c)
<1>1. PICK r \in Ids : r = Resolve(d, c) /\ (d.aliases[Old] = New => r # Old)
  BY ResolveIs
<1>2. PICK e : e = UpsertSeen(d, c)
  OBVIOUS
<1>3. Writes(d, e, r, SeenPresent(d, c), Nothing)
  <2>1. CASE Known(d, c)
    <3>1. e = d /\ d.chats[r] # NoRow /\ d.chats[r] \in Chat
      BY <1>1, <1>2, <2>1, KnownChat DEF UpsertSeen, Known, Get
    <3>2. d.chats \in [Ids -> {NoRow} \cup Chat] /\ d \in Tables
      BY TableTypes DEF Whole
    <3>3. d.chats = [d.chats EXCEPT ![r] = d.chats[r]]
      BY <3>2
    <3>4. RowFollows(d.chats[r], d.chats[r], Nothing)
      BY DEF RowFollows
    <3>5. SeenPresent(d, c) = d.chats[r].present
      BY <1>1, <2>1 DEF SeenPresent, Get
    <3> QED BY <3>1, <3>2, <3>3, <3>4, <3>5 DEF Writes
  <2>2. CASE ~Known(d, c)
    <3>1. PICK is : is = [status |-> "pending", present |-> TRUE, notified |-> FALSE, since |-> None]
      OBVIOUS
    <3>2. is \in Chat /\ is.present = TRUE
      <4>1. None \in 0 .. MaxTime
        BY ChatsAssumption DEF None
      <4> QED BY <3>1, <4>1 DEF Chat, Statuses
    <3>3. e = [d EXCEPT !.chats[r] = is] /\ d.chats[r] = NoRow /\ SeenPresent(d, c) = TRUE
      BY <1>1, <1>2, <2>2, <3>1 DEF UpsertSeen, Known, SeenPresent
    <3> QED BY <3>2, <3>3, RowIsWritten
  <2> QED BY <2>1, <2>2
<1>4. Whole(e)
  BY <1>1, <1>3, WritesWhole
<1>5. /\ e.aliases = d.aliases /\ e.chats[r] # NoRow /\ e.chats[r].present = SeenPresent(d, c)
  <2>1. PICK p : p = SeenPresent(d, c)
    OBVIOUS
  <2>2. Writes(d, e, r, p, Nothing)
    BY <1>3, <2>1
  <2>3. e.aliases = d.aliases
    BY <2>2 DEF Writes
  <2>4. e.chats[r] # NoRow /\ e.chats[r].present = p
    BY <2>2, WritesRow, WrittenPresent
  <2> QED BY <2>1, <2>3, <2>4
<1>6. Resolve(e, c) = r
  BY <1>1, <1>4, <1>5, ResolveIs
<1> QED BY <1>1, <1>2, <1>3, <1>4, <1>5, <1>6 DEF Known, Get

LEMMA InsertLiveWrites ==
    ASSUME NEW d, Whole(d), NEW c \in Ids, d.chats[c] # NoRow,
           NEW u, u.id \in Ids, u.n \in 1 .. MaxMessages
    PROVE  Writes(d, InsertLive(d, c, u), c, d.chats[c].present, Nothing)
<1>1. PICK e : e = InsertLive(d, c, u)
  OBVIOUS
<1>2. PICK m \in Message : m = [chat |-> c, origin |-> u.id, n |-> u.n]
  BY DEF Message
<1>3. e = d \/ e = [d EXCEPT !.messages = d.messages \cup {m}]
  BY <1>1, <1>2 DEF InsertLive
<1>4. d \in Tables /\ d.chats \in [Ids -> {NoRow} \cup Chat] /\ d.chats[c] \in Chat
      /\ d.messages \in SUBSET Message
  BY TableTypes DEF Whole
<1>5. /\ e \in Tables /\ e.chats = d.chats /\ e.aliases = d.aliases /\ e.members = d.members
      /\ \A x \in e.messages : x \in d.messages \/ x.chat = c
  <2>1. CASE e = d
    BY <1>4, <2>1
  <2>2. CASE e = [d EXCEPT !.messages = d.messages \cup {m}]
    <3>1. e.messages = d.messages \cup {m} /\ m.chat = c
      BY <1>2, <1>4, <2>2 DEF Tables
    <3>2. e \in Tables /\ e.chats = d.chats /\ e.aliases = d.aliases /\ e.members = d.members
      BY <1>4, <2>2 DEF Tables
    <3> QED BY <3>1, <3>2
  <2> QED BY <1>3, <2>1, <2>2
<1>6. e.chats = [d.chats EXCEPT ![c] = d.chats[c]]
  BY <1>4, <1>5
<1>7. RowFollows(d.chats[c], d.chats[c], Nothing)
  BY DEF RowFollows
<1> QED BY <1>1, <1>4, <1>5, <1>6, <1>7 DEF Writes

LEMMA UpsertMemberWrites ==
    ASSUME NEW d, Whole(d), NEW c \in Ids, d.chats[c] # NoRow
    PROVE  Writes(d, UpsertMember(d, c), c, d.chats[c].present, Nothing)
<1>1. PICK e : e = [d EXCEPT !.members = d.members \cup {c}]
  OBVIOUS
<1>2. d \in Tables /\ d.chats \in [Ids -> {NoRow} \cup Chat] /\ d.chats[c] \in Chat
      /\ d.members \in SUBSET Ids
  BY TableTypes DEF Whole
<1>3. /\ e \in Tables /\ e.chats = d.chats /\ e.aliases = d.aliases /\ e.messages = d.messages
      /\ e.members = d.members \cup {c}
  BY <1>1, <1>2 DEF Tables
<1>4. e.chats = [d.chats EXCEPT ![c] = d.chats[c]]
  BY <1>2, <1>3
<1>5. RowFollows(d.chats[c], d.chats[c], Nothing)
  BY DEF RowFollows
<1> QED BY <1>1, <1>2, <1>3, <1>4, <1>5 DEF Writes, UpsertMember

-----------------------------------------------------------------------------
(* What the handlers write *)

\* What an update tells of the membership, in the row of its ID
Tells(d, u) == IF IsMember(u) THEN u.kind # "gone" ELSE SeenPresent(d, u.id)
Decides(u) == IF u.kind \in {"enable", "disable"} THEN Decisions ELSE Nothing

LEMMA UpdateTypes ==
    ASSUME NEW u \in Update
    PROVE  /\ u.id \in Ids
           /\ u.kind \in {"join", "gone", "rights", "enable", "disable", "say"}
           /\ u.kind = "say" => u.n \in 1 .. MaxMessages
BY DEF Update

LEMMA OnMemberWrites ==
    ASSUME NEW d, Whole(d), NEW u \in Update, IsMember(u)
    PROVE  /\ Writes(d, OnMember(d, u).db, Resolve(d, u.id), Tells(d, u), Nothing)
           /\ OnMember(d, u).task = IF u.kind = "join"
                                    THEN [kind |-> "joined", id |-> Resolve(d, u.id)] ELSE NoTask
<1>1. PICK c \in Ids : c = u.id
  BY UpdateTypes
<1>2. PICK r \in Ids : r = Resolve(d, c)
  BY ResolveIs
<1>3. PICK e : e = UpsertSeen(d, c)
  OBVIOUS
<1>4. Writes(d, e, r, SeenPresent(d, c), Nothing) /\ Whole(e) /\ Known(e, c) /\ Resolve(e, c) = r
  BY <1>2, <1>3, UpsertSeenWrites
<1>5. PICK p \in BOOLEAN : p = (u.kind # "gone")
  OBVIOUS
<1>6. Writes(e, SetMembership(e, c, p), r, p, Nothing)
  BY <1>4, SetMembershipWrites
<1>7. Writes(d, SetMembership(e, c, p), r, p, Nothing)
  BY <1>4, <1>6, WritesThenWrites
<1>8. OnMember(d, u).db = SetMembership(e, c, p)
  BY <1>1, <1>3, <1>5 DEF OnMember
<1>9. Tells(d, u) = p
  BY <1>5 DEF Tells
<1> QED BY <1>1, <1>2, <1>7, <1>8, <1>9 DEF OnMember

LEMMA OnMessageWrites ==
    ASSUME NEW d, Whole(d), NEW u \in Update, u.kind = "say"
    PROVE  /\ Writes(d, OnMessage(d, u).db, Resolve(d, u.id), Tells(d, u), Nothing)
           /\ OnMessage(d, u).task \in {NoTask, [kind |-> "notify", id |-> Resolve(d, u.id)]}
<1>1. PICK c \in Ids : c = u.id
  BY UpdateTypes
<1>2. PICK r \in Ids : r = Resolve(d, c) /\ (d.aliases[Old] = New => r # Old)
  BY ResolveIs
<1>3. PICK seen : seen = UpsertSeen(d, c)
  OBVIOUS
<1>4. PICK p : p = SeenPresent(d, c)
  OBVIOUS
<1>5. /\ Writes(d, seen, r, p, Nothing) /\ Whole(seen) /\ Known(seen, c) /\ Resolve(seen, c) = r
  BY <1>2, <1>3, <1>4, UpsertSeenWrites
<1>6. seen.chats[r] # NoRow /\ seen.chats[r].present = p /\ seen.aliases = d.aliases
  <2>1. Writes(d, seen, r, p, Nothing)
    BY <1>5
  <2>2. seen.aliases = d.aliases
    BY <2>1 DEF Writes
  <2>3. seen.chats[r] # NoRow /\ seen.chats[r].present = p
    BY <2>1, WritesRow, WrittenPresent
  <2> QED BY <2>2, <2>3
<1>7. PICK made : made = InsertLive(seen, r, u)
  OBVIOUS
<1>8. Writes(seen, made, r, p, Nothing)
  BY <1>1, <1>5, <1>6, <1>7, InsertLiveWrites, UpdateTypes
<1>9. Whole(made)
  BY <1>2, <1>5, <1>6, <1>8, WritesWhole
<1>10. made.chats[r] # NoRow /\ made.chats[r].present = p
  BY <1>5, <1>8, WritesRow, WrittenPresent
<1>11. Writes(made, UpsertMember(made, r), r, p, Nothing)
  BY <1>9, <1>10, UpsertMemberWrites
<1>12. Writes(d, made, r, p, Nothing)
  BY <1>5, <1>8, WritesThenWrites
<1>13. Writes(d, UpsertMember(made, r), r, p, Nothing)
  BY <1>9, <1>11, <1>12, WritesThenWrites
<1>14. OnMessage(d, u).db \in {seen, UpsertMember(made, r)}
  <2>1. Resolve(d, u.id) = r /\ UpsertSeen(d, u.id) = seen
    BY <1>1, <1>2, <1>3
  <2> QED BY <1>7, <2>1 DEF OnMessage
<1>15. Tells(d, u) = p
  BY <1>1, <1>4 DEF Tells, IsMember
<1>16. OnMessage(d, u).task \in {NoTask, [kind |-> "notify", id |-> Resolve(d, u.id)]}
  BY DEF OnMessage
<1> QED BY <1>1, <1>2, <1>5, <1>13, <1>14, <1>15, <1>16

LEMMA OnCommandWrites ==
    ASSUME NEW d, Whole(d), NEW u \in Update, u.kind \in {"enable", "disable"}, now \in 1 .. MaxTime
    PROVE  /\ Writes(d, OnCommand(d, u).db, Resolve(d, u.id), Tells(d, u), Decisions)
           /\ OnCommand(d, u).task \in {NoTask, Check(Resolve(d, u.id))}
<1>1. PICK c \in Ids : c = u.id
  BY UpdateTypes
<1>2. PICK r \in Ids : r = Resolve(d, c)
  BY ResolveIs
<1>3. PICK e : e = UpsertSeen(d, c)
  OBVIOUS
<1>4. PICK p : p = SeenPresent(d, c)
  OBVIOUS
<1>5. Writes(d, e, r, p, Nothing) /\ Whole(e) /\ Known(e, c) /\ Resolve(e, c) = r /\ Get(e, c).present = p
  BY <1>2, <1>3, <1>4, UpsertSeenWrites
<1>6. PICK status \in {"enabled", "disabled"} :
        status = IF u.kind = "enable" THEN "enabled" ELSE "disabled"
  OBVIOUS
<1>7. Writes(e, SetStatus(e, c, status), r, p, Decisions)
  BY <1>5, SetStatusWrites
<1>8. Writes(d, e, r, p, Decisions)
  BY <1>5, WritesMore
<1>9. Writes(d, SetStatus(e, c, status), r, p, Decisions)
  BY <1>5, <1>7, <1>8, WritesThenWrites
<1>10. OnCommand(d, u).db = SetStatus(e, c, status)
  BY <1>1, <1>3, <1>6 DEF OnCommand
<1>11. Tells(d, u) = p
  BY <1>1, <1>4 DEF Tells, IsMember
<1>12. OnCommand(d, u).task \in {NoTask, Check(Resolve(d, u.id))}
  BY DEF OnCommand
<1> QED BY <1>1, <1>2, <1>9, <1>10, <1>11, <1>12


LEMMA HandledWrites ==
    ASSUME NEW d, Whole(d), NEW u \in Update, now \in 1 .. MaxTime
    PROVE  /\ Writes(d, Handled(d, u).db, Resolve(d, u.id), Tells(d, u), Decides(u))
           /\ u.kind = "join" =>
                 Handled(d, u).task = [kind |-> "joined", id |-> Resolve(d, u.id)]
           /\ u.kind # "join" =>
                 Handled(d, u).task \in {NoTask, [kind |-> "notify", id |-> Resolve(d, u.id)],
                                         Check(Resolve(d, u.id))}
<1>1. CASE u.kind \in {"join", "gone", "rights"}
  <2>1. Handled(d, u) = OnMember(d, u)
    BY <1>1 DEF Handled
  <2>2. IsMember(u) /\ Decides(u) = Nothing
    BY <1>1 DEF IsMember, Decides
  <2> QED BY <2>1, <2>2, OnMemberWrites
<1>2. CASE u.kind = "say"
  <2>1. Handled(d, u) = OnMessage(d, u)
    BY <1>2 DEF Handled
  <2>2. Decides(u) = Nothing
    BY <1>2 DEF Decides
  <2> QED BY <1>2, <2>1, <2>2, OnMessageWrites
<1>3. CASE u.kind \in {"enable", "disable"}
  <2>1. Handled(d, u) = OnCommand(d, u)
    BY <1>3 DEF Handled
  <2>2. Decides(u) = Decisions
    BY <1>3 DEF Decides
  <2> QED BY <1>3, <2>1, <2>2, OnCommandWrites
<1> QED BY <1>1, <1>2, <1>3, UpdateTypes

-----------------------------------------------------------------------------
(* The upgrade *)

\* What a row that takes over another's is
MergedRow(old, new) ==
    IF old = NoRow THEN new ELSE IF new = NoRow THEN old ELSE Merged(old, new)

LEMMA MergedFacts ==
    ASSUME NEW old \in Chat, NEW new \in Chat
    PROVE  /\ Merged(old, new) \in Chat
           /\ Merged(old, new).present = new.present
           /\ Merged(old, new).status = IF new.status = "pending" THEN old.status ELSE new.status
           /\ Merged(old, new).since = IF new.since = None \/ (old.since # None /\ old.since < new.since)
                                       THEN old.since ELSE new.since
<1>1. PICK is : is = Merged(old, new)
  OBVIOUS
<1> DEFINE status == IF new.status = "pending" THEN old.status ELSE new.status
           since == IF new.since = None \/ (old.since # None /\ old.since < new.since)
                    THEN old.since ELSE new.since
<1>2. status \in Statuses /\ since \in 0 .. MaxTime
  BY DEF Chat
<1>3. is = [new EXCEPT !.status = status, !.since = since]
  BY <1>1 DEF Merged
<1> HIDE DEF status, since
<1>4. is \in Chat /\ is.present = new.present /\ is.status = status /\ is.since = since
  BY <1>2, <1>3 DEF Chat
<1> QED BY <1>1, <1>4 DEF status, since

LEMMA MigrateFacts ==
    ASSUME NEW d, Whole(d)
    PROVE  /\ Whole(Migrate(d, Old, New))
           /\ Migrate(d, Old, New).aliases[Old] = New
           /\ Migrate(d, Old, New).chats[Old] = NoRow
           /\ Migrate(d, Old, New).chats[New] = MergedRow(d.chats[Old], d.chats[New])
<1>1. /\ d \in Tables /\ d.chats \in [Ids -> {NoRow} \cup Chat]
      /\ d.aliases \in [Ids -> Ids \cup {None}]
      /\ d.messages \in SUBSET Message /\ d.members \in SUBSET Ids
      /\ \A c \in Ids : d.chats[c] # NoRow => d.chats[c] \in Chat
      /\ d.aliases[New] = None /\ d.aliases[Old] \in {None, New}
      /\ \A m \in d.messages : d.chats[m.chat] # NoRow
      /\ \A c \in d.members : d.chats[c] # NoRow
  BY TableTypes DEF Whole
<1>2. PICK e : e = Migrate(d, Old, New)
  OBVIOUS
<1>3. Whole(e) /\ e.aliases[Old] = New /\ e.chats[Old] = NoRow
      /\ e.chats[New] = MergedRow(d.chats[Old], d.chats[New])
  <2>1. CASE d.chats[Old] = NoRow
    <3>1. e = [d EXCEPT !.aliases[Old] = New]
      BY <1>2, <2>1 DEF Migrate
    <3>2. /\ e.chats = d.chats /\ e.messages = d.messages /\ e.members = d.members
          /\ e.aliases = [d.aliases EXCEPT ![Old] = New]
      BY <1>1, <3>1 DEF Tables
    <3>3. e.aliases[Old] = New /\ e.aliases[New] = None /\ e.aliases \in [Ids -> Ids \cup {None}]
      BY <1>1, <3>2, IdFacts
    <3>4. e \in Tables
      BY <1>1, <3>1, <3>2, <3>3 DEF Tables
    <3>5. Whole(e)
      BY <1>1, <2>1, <3>2, <3>3, <3>4 DEF Whole
    <3> QED BY <2>1, <3>2, <3>3, <3>5 DEF MergedRow
  <2>2. CASE d.chats[Old] # NoRow
    <3>1. PICK is : is = IF d.chats[New] = NoRow THEN d.chats[Old]
                         ELSE Merged(d.chats[Old], d.chats[New])
      OBVIOUS
    <3>2. is \in Chat /\ is = MergedRow(d.chats[Old], d.chats[New])
      BY <1>1, <2>2, <3>1, IdFacts, MergedFacts DEF MergedRow
    <3>3. PICK a : a = [d EXCEPT !.chats[New] = is, !.chats[Old] = NoRow]
      OBVIOUS
    <3>4. /\ a.chats = [d.chats EXCEPT ![New] = is, ![Old] = NoRow]
          /\ a.aliases = d.aliases /\ a.messages = d.messages /\ a.members = d.members
          /\ a \in Tables
      BY <1>1, <3>2, <3>3 DEF Tables
    <3>5. /\ a.chats[Old] = NoRow /\ a.chats[New] = is
      BY <1>1, <3>4, IdFacts
    <3>6. PICK b : b = Moved(a, Old, New)
      OBVIOUS
    <3>7. MovedRows(a.messages, Old, New) \in SUBSET Message
          /\ \A m \in MovedRows(a.messages, Old, New) : m.chat = New
      <4>1. ASSUME NEW m \in a.messages
            PROVE  [m EXCEPT !.chat = Under(m.chat, Old, New)] \in Message
                   /\ [m EXCEPT !.chat = Under(m.chat, Old, New)].chat = New
        <5>1. m \in Message /\ m.chat \in Ids
          BY <1>1, <3>4, <4>1 DEF Message
        <5>2. Under(m.chat, Old, New) = New
          BY <5>1, IdFacts DEF Under
        <5> QED BY <5>1, <5>2, IdFacts DEF Message
      <4>2. ASSUME NEW x \in MovedRows(a.messages, Old, New)
            PROVE  x \in Message /\ x.chat = New
        <5>1. PICK m \in a.messages : x = [m EXCEPT !.chat = Under(m.chat, Old, New)]
          BY DEF MovedRows
        <5> QED BY <4>1, <5>1
      <4> QED BY <4>2
    <3>8. {Under(c, Old, New) : c \in a.members} \in SUBSET {New}
      <4>1. \A c \in a.members : Under(c, Old, New) = New
        BY <1>1, <3>4, IdFacts DEF Under
      <4> QED BY <4>1
    <3>9. /\ b.chats = a.chats /\ b.aliases = a.aliases
          /\ b.messages = MovedRows(a.messages, Old, New)
          /\ b.members = {Under(c, Old, New) : c \in a.members} /\ b \in Tables
      <4>1. {Under(c, Old, New) : c \in a.members} \in SUBSET Ids
        BY <3>8, IdFacts
      <4>2. PICK ms \in SUBSET Message : ms = MovedRows(a.messages, Old, New)
        BY <3>7
      <4>3. PICK mm \in SUBSET Ids : mm = {Under(c, Old, New) : c \in a.members}
        BY <4>1
      <4>4. b = [a EXCEPT !.messages = ms, !.members = mm]
        BY <3>6, <4>2, <4>3 DEF Moved
      <4>5. b.chats = a.chats /\ b.aliases = a.aliases /\ b.messages = ms /\ b.members = mm
            /\ b \in Tables
        BY <3>4, <4>4 DEF Tables
      <4> QED BY <4>2, <4>3, <4>5
    <3>10. e = AddAlias(b, Old, New)
      BY <1>2, <2>2, <3>1, <3>3, <3>6 DEF Migrate
    <3>11. PICK al : al = [c \in Ids |-> IF c = Old \/ b.aliases[c] = Old THEN New ELSE b.aliases[c]]
      OBVIOUS
    <3>12. al[Old] = New /\ al[New] = None /\ al \in [Ids -> Ids \cup {None}]
      BY <1>1, <3>4, <3>9, <3>11, IdFacts
    <3>13. e = [b EXCEPT !.aliases = al]
      BY <3>10, <3>11 DEF AddAlias
    <3>14. /\ e.chats = b.chats /\ e.aliases = al /\ e.messages = b.messages
           /\ e.members = b.members /\ e \in Tables
      BY <3>9, <3>12, <3>13 DEF Tables
    <3>15. e.chats[New] = is /\ e.chats[New] # NoRow /\ e.chats[Old] = NoRow
      BY <3>2, <3>5, <3>9, <3>14, NoRowIsNoChat
    <3>16. /\ \A m \in e.messages : e.chats[m.chat] # NoRow
           /\ \A c \in e.members : e.chats[c] # NoRow
      <4>1. \A m \in e.messages : m.chat = New
        BY <3>7, <3>9, <3>14
      <4>2. \A c \in e.members : c = New
        BY <3>8, <3>9, <3>14
      <4> QED BY <3>15, <4>1, <4>2
    <3>17. Whole(e)
      BY <3>12, <3>14, <3>15, <3>16 DEF Whole
    <3> QED BY <3>2, <3>12, <3>14, <3>15, <3>17
  <2> QED BY <2>1, <2>2
<1> QED BY <1>2, <1>3

-----------------------------------------------------------------------------
(* What stays known, and decided *)

Grows(d, e) ==
    /\ \A c \in Ids : Known(d, c) => Known(e, c)
    /\ NoRows(e) => NoRows(d)
    /\ ~NoRows(d) /\ Undecided(e) => Undecided(d)

LEMMA WritesGrow ==
    ASSUME NEW d, NEW e, NEW r \in Ids, NEW p, NEW decided, Whole(d), Whole(e),
           decided \in {Nothing, Decisions}, Writes(d, e, r, p, decided)
    PROVE  Grows(d, e) /\ ~NoRows(e)
<1>1. /\ e.aliases = d.aliases /\ e.chats[r] # NoRow
      /\ \A c \in Ids : c # r => e.chats[c] = d.chats[c]
  BY WritesRow
<1>2. d.chats[r] # NoRow => (e.chats[r].status = "pending" => d.chats[r].status = "pending")
  <2>1. SUFFICES ASSUME d.chats[r] # NoRow, e.chats[r].status = "pending"
                 PROVE  d.chats[r].status = "pending"
    OBVIOUS
  <2>2. RowFollows(d.chats[r], e.chats[r], decided)
    BY <2>1, WrittenFollows
  <2>3. "pending" \notin decided
    BY DEF Nothing, Decisions
  <2> QED BY <2>1, <2>2, <2>3 DEF RowFollows
<1>3. \A c \in Ids : d.chats[c] # NoRow => e.chats[c] # NoRow
  BY <1>1
<1>4. ASSUME NEW c \in Ids, Known(d, c) PROVE Known(e, c)
  <2>1. Resolve(e, c) = Resolve(d, c) /\ Resolve(d, c) \in Ids
    BY <1>1, ResolveIs
  <2> QED BY <1>3, <1>4, <2>1 DEF Known
<1>5. ASSUME ~NoRows(d), Undecided(e) PROVE Undecided(d)
  <2>1. ASSUME NEW c \in Ids, d.chats[c] # NoRow PROVE d.chats[c].status = "pending"
    <3>1. e.chats[c] # NoRow /\ e.chats[c].status = "pending"
      BY <1>3, <1>5, <2>1 DEF Undecided
    <3> QED BY <1>1, <1>2, <2>1, <3>1
  <2> QED BY <1>5, <2>1 DEF Undecided
<1>6. ~NoRows(e)
  BY <1>1 DEF NoRows
<1> QED BY <1>4, <1>5, <1>6 DEF Grows

LEMMA MigrateGrows ==
    ASSUME NEW d, Whole(d)
    PROVE  Grows(d, Migrate(d, Old, New)) /\ (NoRows(d) => NoRows(Migrate(d, Old, New)))
<1>1. PICK e : e = Migrate(d, Old, New)
  OBVIOUS
<1>2. /\ Whole(e) /\ e.aliases[Old] = New /\ e.chats[Old] = NoRow
      /\ e.chats[New] = MergedRow(d.chats[Old], d.chats[New])
  BY <1>1, MigrateFacts
<1>3. \A c \in Ids : d.chats[c] # NoRow => d.chats[c] \in Chat
  BY TableTypes DEF Whole
<1>4. (\E c \in Ids : d.chats[c] # NoRow) <=> e.chats[New] # NoRow
  BY <1>2, <1>3, IdFacts, MergedFacts, NoRowIsNoChat DEF MergedRow
<1>5. \A c \in Ids : Resolve(e, c) = New
  BY <1>2, ResolveIs
<1>6. ASSUME NEW c \in Ids, Known(d, c) PROVE Known(e, c)
  <2>1. Resolve(d, c) \in Ids /\ d.chats[Resolve(d, c)] # NoRow
    BY <1>6, ResolveIs DEF Known
  <2> QED BY <1>4, <1>5, <2>1 DEF Known
<1>7. ASSUME ~NoRows(d), Undecided(e) PROVE Undecided(d)
  <2>1. e.chats[New] # NoRow /\ e.chats[New].status = "pending"
    BY <1>4, <1>7, IdFacts DEF NoRows, Undecided
  <2>2. ASSUME NEW c \in Ids, d.chats[c] # NoRow PROVE d.chats[c].status = "pending"
    <3>1. CASE d.chats[Old] = NoRow \/ d.chats[New] = NoRow
      BY <1>2, <2>1, <2>2, <3>1, IdFacts DEF MergedRow
    <3>2. CASE d.chats[Old] # NoRow /\ d.chats[New] # NoRow
      <4>1. d.chats[Old] \in Chat /\ d.chats[New] \in Chat
        BY <1>3, <3>2, IdFacts
      <4>2. e.chats[New].status = IF d.chats[New].status = "pending" THEN d.chats[Old].status
                                  ELSE d.chats[New].status
        BY <1>2, <3>2, <4>1, MergedFacts DEF MergedRow
      <4>3. d.chats[Old].status = "pending" /\ d.chats[New].status = "pending"
        BY <2>1, <4>2
      <4> QED BY <4>3, IdFacts
    <3> QED BY <3>1, <3>2
  <2> QED BY <1>7, <2>2 DEF Undecided
<1>8. NoRows(e) <=> NoRows(d)
  BY <1>2, <1>4, IdFacts DEF NoRows
<1> QED BY <1>1, <1>6, <1>7, <1>8 DEF Grows

-----------------------------------------------------------------------------
(* Updates *)

LEMMA AppendUpdates ==
    ASSUME NEW s \in Seq(Update), NEW u \in Update
    PROVE  /\ Append(s, u) \in Seq(Update) /\ Append(s, u) # << >>
           /\ DOMAIN s = 1 .. Len(s) /\ Len(s) \in Nat
           /\ DOMAIN Append(s, u) = 1 .. Len(s) + 1
           /\ \A i \in DOMAIN s : i \in DOMAIN Append(s, u) /\ Append(s, u)[i] = s[i]
           /\ Len(s) + 1 \in DOMAIN Append(s, u) /\ Append(s, u)[Len(s) + 1] = u
           /\ Head(Append(s, u)) = IF s = << >> THEN u ELSE Head(s)
<1>1. PICK z : z = Append(s, u)
  OBVIOUS
<1>2. /\ z \in Seq(Update) /\ Len(z) = Len(s) + 1 /\ Len(s) \in Nat
      /\ \A i \in 1 .. Len(s) : z[i] = s[i]
      /\ z[Len(s) + 1] = u
  BY <1>1
<1>3. DOMAIN s = 1 .. Len(s) /\ DOMAIN z = 1 .. Len(s) + 1 /\ z # << >>
  BY <1>2
<1>4. Head(z) = IF s = << >> THEN u ELSE Head(s)
  <2>1. CASE s = << >>
    BY <1>1, <2>1
  <2>2. CASE s # << >>
    <3>1. Head(z) = z[1] /\ Head(s) = s[1] /\ 1 \in 1 .. Len(s)
      BY <1>2, <1>3, <2>2
    <3> QED BY <1>2, <2>2, <3>1
  <2> QED BY <2>1, <2>2
<1> QED BY <1>1, <1>2, <1>3, <1>4

LEMMA TailUpdates ==
    ASSUME NEW s \in Seq(Update), s # << >>
    PROVE  /\ Tail(s) \in Seq(Update) /\ Tail(s) # s
           /\ Head(s) = s[1] /\ Head(s) \in Update
           /\ DOMAIN s = 1 .. Len(s) /\ Len(s) \in Nat \ {0}
           /\ DOMAIN Tail(s) = 1 .. Len(s) - 1
           /\ \A i \in DOMAIN Tail(s) : i + 1 \in DOMAIN s /\ Tail(s)[i] = s[i + 1]
           /\ \A i \in DOMAIN s : i # 1 => i - 1 \in DOMAIN Tail(s) /\ Tail(s)[i - 1] = s[i]
<1>1. PICK z : z = Tail(s)
  OBVIOUS
<1>2. /\ z \in Seq(Update) /\ Len(z) = Len(s) - 1 /\ Len(s) \in Nat \ {0}
      /\ \A i \in 1 .. Len(z) : z[i] = s[i + 1]
      /\ Head(s) = s[1]
  BY <1>1
<1>3. DOMAIN s = 1 .. Len(s) /\ DOMAIN z = 1 .. Len(s) - 1 /\ z # s
  BY <1>2
<1>4. s[1] \in Update
  BY <1>2
<1>5. ASSUME NEW i \in DOMAIN s, i # 1 PROVE i - 1 \in DOMAIN z /\ z[i - 1] = s[i]
  <2>1. i - 1 \in 1 .. Len(z) /\ (i - 1) + 1 = i
    BY <1>2, <1>3, <1>5
  <2> QED BY <1>2, <1>3, <2>1
<1>6. ASSUME NEW i \in DOMAIN z PROVE i + 1 \in DOMAIN s /\ z[i] = s[i + 1]
  BY <1>2, <1>3
<1>7. Head(s) \in Update /\ Head(s) = s[1]
  BY <1>2, <1>4
<1> QED BY <1>1, <1>2, <1>3, <1>5, <1>6, <1>7

LEMMA UpdateIds ==
    ASSUME NEW s \in Seq(Update), NEW i \in DOMAIN s
    PROVE  s[i] \in Update /\ s[i].id \in Ids
<1>1. s[i] \in Update
  OBVIOUS
<1> QED BY <1>1, UpdateTypes

-----------------------------------------------------------------------------
(* Steps that keep the updates in the order of the upgrade *)

LEMMA AlignedAppends ==
    ASSUME NEW d, NEW s \in Seq(Update), NEW u \in Update, NEW g, NEW h, g.id \in Ids,
           h.id = g.id, u.id = g.id, Aligned(d, s, g)
    PROVE  Aligned(d, Append(s, u), h)
<1>1. PICK z : z = Append(s, u)
  OBVIOUS
<1>2. /\ DOMAIN s = 1 .. Len(s) /\ Len(s) \in Nat /\ DOMAIN z = 1 .. Len(s) + 1
      /\ \A i \in DOMAIN s : z[i] = s[i]
      /\ z[Len(s) + 1] = u
  BY <1>1, AppendUpdates
<1>3. \A i \in DOMAIN z : i \in DOMAIN s \/ i = Len(s) + 1
  BY <1>2
<1>4. ASSUME h.id = Old PROVE \A i \in DOMAIN z : z[i].id = Old
  BY <1>2, <1>3, <1>4 DEF Aligned
<1>5. ASSUME NEW i \in DOMAIN z, NEW j \in DOMAIN z, i < j, z[i].id = New
      PROVE  z[j].id = New
  <2>1. i \in DOMAIN s
    BY <1>2, <1>5
  <2>2. CASE j \in DOMAIN s
    BY <1>2, <1>5, <2>1, <2>2 DEF Aligned
  <2>3. CASE j = Len(s) + 1
    <3>1. g.id # Old
      BY <1>2, <1>5, <2>1, IdFacts DEF Aligned
    <3> QED BY <1>2, <2>3, <3>1, IdFacts
  <2> QED BY <1>3, <2>2, <2>3
<1> QED BY <1>1, <1>4, <1>5 DEF Aligned

LEMMA AlignedTails ==
    ASSUME NEW d, NEW s \in Seq(Update), s # << >>, NEW g, Aligned(d, s, g)
    PROVE  Aligned(d, Tail(s), g)
<1>1. PICK z : z = Tail(s)
  OBVIOUS
<1>2. /\ DOMAIN s = 1 .. Len(s) /\ Len(s) \in Nat /\ DOMAIN z = 1 .. Len(s) - 1
      /\ \A i \in DOMAIN z : i + 1 \in DOMAIN s /\ z[i] = s[i + 1]
  BY <1>1, TailUpdates
<1>3. ASSUME g.id = Old PROVE \A i \in DOMAIN z : z[i].id = Old
  BY <1>2, <1>3 DEF Aligned
<1>4. ASSUME NEW i \in DOMAIN z, NEW j \in DOMAIN z, i < j, z[i].id = New
      PROVE  z[j].id = New
  <2>1. i + 1 < j + 1 /\ i + 1 \in DOMAIN s /\ j + 1 \in DOMAIN s /\ s[i + 1].id = New
    BY <1>2, <1>4
  <2>2. s[j + 1].id = New
    BY <2>1 DEF Aligned
  <2> QED BY <1>2, <2>2
<1> QED BY <1>1, <1>3, <1>4 DEF Aligned

LEMMA AlignedWrites ==
    ASSUME NEW d, NEW e, NEW s, NEW g, NEW r \in Ids, NEW p, NEW decided, Whole(d),
           Writes(d, e, r, p, decided), Aligned(d, s, g), g.id = Old => r = Old
    PROVE  Aligned(e, s, g)
<1>1. e.aliases = d.aliases /\ \A c \in Ids : c # r => e.chats[c] = d.chats[c]
  BY WritesRow
<1> QED BY <1>1, IdFacts DEF Aligned

\* Before the upgrade, who is known has the old ID.
LEMMA KnownIsOld ==
    ASSUME NEW d, Whole(d), NEW s, NEW g, Aligned(d, s, g), g.id = Old, NEW c \in Ids, Known(d, c)
    PROVE  Resolve(d, c) = Old
<1>1. d.aliases[Old] = None /\ d.chats[New] = NoRow
  BY DEF Aligned
<1>2. Resolve(d, c) = c /\ d.chats[c] # NoRow
  BY <1>1, ResolveIs, IdFacts DEF Known
<1> QED BY <1>1, <1>2, IdFacts

-----------------------------------------------------------------------------
(* Steps that keep the membership true *)

LEMMA TruthOfChange ==
    ASSUME NEW d, NEW s \in Seq(Update), NEW u \in Update, NEW h, h.id \in Ids,
           IsMember(u), u.id = h.id, (u.kind # "gone") = h.present
    PROVE  Truth(d, Append(s, u), h)
<1>1. PICK z : z = Append(s, u)
  OBVIOUS
<1>2. PICK n \in DOMAIN z : z[n] = u /\ \A i \in DOMAIN z : i # n => i < n
  <2>1. /\ Len(s) \in Nat /\ DOMAIN z = 1 .. Len(s) + 1 /\ Len(s) + 1 \in DOMAIN z
        /\ z[Len(s) + 1] = u
    BY <1>1, AppendUpdates
  <2>2. \A i \in DOMAIN z : i # Len(s) + 1 => i < Len(s) + 1
    BY <2>1
  <2> QED BY <2>1, <2>2
<1>3. \A ids : h.id \in ids => ~NoMember(z, ids)
  BY <1>2 DEF NoMember
<1>4. LastIsTrue(z, h)
  <2>1. ASSUME NEW i \in DOMAIN z, IsLast(z, i) PROVE z[i] = u
    <3>1. ~(n > i)
      BY <1>2, <2>1 DEF IsLast
    <3>2. DOMAIN z \subseteq Int
      BY <1>1, AppendUpdates
    <3>3. i = n
      BY <1>2, <3>1, <3>2
    <3> QED BY <1>2, <3>3
  <2> QED BY <2>1 DEF LastIsTrue
<1>5. h.id \in Leading(d, h)
  BY DEF Leading
<1>6. RowIsTrue(d, z, h)
  BY <1>3, <1>5 DEF RowIsTrue
<1>7. GoneIsLast(d, z, h)
  <2>1. ~NoMember(z, Ids) /\ (h.id = New => ~NoMember(z, {New}))
    BY <1>3
  <2> QED BY <2>1 DEF GoneIsLast
<1> QED BY <1>1, <1>4, <1>6, <1>7 DEF Truth

LEMMA TruthOfOther ==
    ASSUME NEW d, NEW s \in Seq(Update), NEW u \in Update, NEW g, g.present = TRUE,
           ~IsMember(u), Truth(d, s, g)
    PROVE  Truth(d, Append(s, u), g)
<1>1. PICK z : z = Append(s, u)
  OBVIOUS
<1>2. /\ DOMAIN s = 1 .. Len(s) /\ Len(s) \in Nat /\ DOMAIN z = 1 .. Len(s) + 1
      /\ \A i \in DOMAIN s : i \in DOMAIN z /\ z[i] = s[i]
      /\ z[Len(s) + 1] = u
  BY <1>1, AppendUpdates
<1>3. \A ids : NoMember(z, ids) => NoMember(s, ids)
  BY <1>2 DEF NoMember
<1>4. LastIsTrue(z, g)
  <2>1. ASSUME NEW i \in DOMAIN z, IsLast(z, i) PROVE (z[i].kind # "gone") = g.present
    <3>1. i # Len(s) + 1
      BY <1>2, <2>1 DEF IsLast
    <3>2. i \in DOMAIN s /\ z[i] = s[i]
      BY <1>2, <3>1
    <3>3. IsLast(s, i)
      BY <1>2, <2>1, <3>2 DEF IsLast
    <3>4. (s[i].kind # "gone") = g.present
      BY <3>2, <3>3 DEF Truth, LastIsTrue
    <3> QED BY <3>2, <3>4
  <2> QED BY <2>1 DEF LastIsTrue
<1>5. RowIsTrue(d, z, g)
  BY <1>3 DEF Truth, RowIsTrue
<1>6. GoneIsLast(d, z, g)
  BY DEF GoneIsLast
<1> QED BY <1>1, <1>4, <1>5, <1>6 DEF Truth

\* A handler writes the row of a known chat: as it was, or what is true.
LEMMA TruthOfWrite ==
    ASSUME NEW d, NEW e, NEW s \in Seq(Update), NEW g, NEW r \in Ids, NEW p, NEW decided,
           Whole(d), Whole(e), Writes(d, e, r, p, decided), decided \in {Nothing, Decisions},
           d.chats[r] # NoRow, p = d.chats[r].present \/ p = g.present,
           g.id \in Ids, Truth(d, s, g)
    PROVE  Truth(e, s, g)
<1>1. /\ e.aliases = d.aliases /\ e.chats[r] # NoRow
      /\ \A c \in Ids : c # r => e.chats[c] = d.chats[c]
  BY WritesRow
<1>2. e.chats[r].present = p
  BY WrittenPresent
<1>3. Leading(e, g) = Leading(d, g)
  BY <1>1 DEF Leading
<1>4. \A c \in Ids : /\ e.chats[c] # NoRow <=> d.chats[c] # NoRow
                     /\ d.chats[c].present = g.present => e.chats[c].present = g.present
  BY <1>1, <1>2
<1>5. RowIsTrue(e, s, g)
  BY <1>3, <1>4 DEF Truth, RowIsTrue
<1>6. GoneIsLast(e, s, g)
  <2>1. \A i \in DOMAIN s : Known(d, s[i].id) => Known(e, s[i].id)
    BY WritesGrow, UpdateIds DEF Grows
  <2> QED BY <2>1 DEF Truth, GoneIsLast
<1> QED BY <1>5, <1>6 DEF Truth

LEMMA TruthOfMigration ==
    ASSUME NEW d, NEW s \in Seq(Update), NEW g, Whole(d), g.id = New, Truth(d, s, g)
    PROVE  Truth(Migrate(d, Old, New), s, g)
<1>1. PICK e : e = Migrate(d, Old, New)
  OBVIOUS
<1>2. /\ e.aliases[Old] = New /\ e.chats[Old] = NoRow
      /\ e.chats[New] = MergedRow(d.chats[Old], d.chats[New])
  BY <1>1, MigrateFacts
<1>3. NoMember(s, Ids) => NoMember(s, Leading(d, g))
  <2>1. Leading(d, g) \subseteq Ids
    BY IdFacts DEF Leading
  <2> QED BY <2>1 DEF NoMember
<1>4. ASSUME e.chats[New] # NoRow, NoMember(s, Ids) PROVE e.chats[New].present = g.present
  <2>1. CASE d.chats[New] = NoRow
    <3>1. d.chats[Old] # NoRow /\ e.chats[New] = d.chats[Old]
      BY <1>2, <1>4, <2>1 DEF MergedRow
    <3> QED BY <1>4, <2>1, <3>1, IdFacts DEF Truth, RowIsTrue
  <2>2. CASE d.chats[New] # NoRow
    <3>1. d.chats[New].present = g.present
      BY <1>3, <1>4, <2>2 DEF Truth, RowIsTrue
    <3>2. e.chats[New].present = d.chats[New].present
      <4>1. CASE d.chats[Old] = NoRow
        BY <1>2, <4>1 DEF MergedRow
      <4>2. CASE d.chats[Old] # NoRow
        <5>1. d.chats[Old] \in Chat /\ d.chats[New] \in Chat
          BY <2>2, <4>2, TableTypes, IdFacts DEF Whole
        <5>2. e.chats[New] = Merged(d.chats[Old], d.chats[New])
          BY <1>2, <2>2, <4>2 DEF MergedRow
        <5> QED BY <5>1, <5>2, MergedFacts
      <4> QED BY <4>1, <4>2
    <3> QED BY <3>1, <3>2
  <2> QED BY <2>1, <2>2
<1>5. Leading(e, g) = Ids
  BY <1>2 DEF Leading
<1>6. ASSUME NEW c \in Ids, e.chats[New] = NoRow PROVE e.chats[c] = NoRow
  BY <1>2, <1>6, IdFacts
<1>7. RowIsTrue(e, s, g)
  BY <1>4, <1>5, <1>6 DEF RowIsTrue
<1>8. GoneIsLast(e, s, g)
  <2>1. \A i \in DOMAIN s : Known(d, s[i].id) => Known(e, s[i].id)
    BY <1>1, MigrateGrows, UpdateIds DEF Grows
  <2> QED BY <2>1 DEF Truth, GoneIsLast
<1> QED BY <1>1, <1>7, <1>8 DEF Truth

LEMMA TruthOfUpgrade ==
    ASSUME NEW d, NEW s \in Seq(Update), NEW g, NEW h, Whole(d), g.id = Old, h.id = New,
           g.present = TRUE, h.present = TRUE, Aligned(d, s, g), Truth(d, s, g)
    PROVE  Truth(d, s, h)
<1>1. d.chats[New] = NoRow /\ d.aliases[Old] = None
  BY DEF Aligned
<1>2. LastIsTrue(s, h)
  BY DEF Truth, LastIsTrue
<1>3. RowIsTrue(d, s, h)
  <2>1. ASSUME NoMember(s, Ids), NEW c \in Ids, d.chats[c] # NoRow
        PROVE  d.chats[c].present = h.present
    <3>1. c = Old
      BY <1>1, <2>1, IdFacts
    <3>2. NoMember(s, Leading(d, g))
      <4>1. Leading(d, g) \subseteq Ids
        BY IdFacts DEF Leading
      <4> QED BY <2>1, <4>1 DEF NoMember
    <3> QED BY <2>1, <3>1, <3>2 DEF Truth, RowIsTrue
  <2> QED BY <1>1, <2>1 DEF RowIsTrue
<1>4. GoneIsLast(d, s, h)
  BY DEF GoneIsLast
<1> QED BY <1>2, <1>3, <1>4 DEF Truth

\* The first update is handled, once for all or to come again.
LEMMA TruthOfHandling ==
    ASSUME NEW d, NEW e, NEW s \in Seq(Update), s # << >>, NEW g, NEW r \in Ids, NEW p, NEW decided,
           Whole(d), Whole(e), r = Resolve(d, Head(s).id), p = Tells(d, Head(s)),
           Writes(d, e, r, p, decided), decided \in {Nothing, Decisions},
           g.id \in Ids, g.present \in BOOLEAN, Aligned(d, s, g), Truth(d, s, g)
    PROVE  Truth(e, s, g) /\ Truth(e, Tail(s), g)
<1>1. PICK u \in Update : u = Head(s) /\ u = s[1] /\ u.id \in Ids
  BY TailUpdates, UpdateTypes
<1>2. PICK z : z = Tail(s)
  OBVIOUS
<1>3. /\ z \in Seq(Update) /\ DOMAIN s = 1 .. Len(s) /\ Len(s) \in Nat \ {0}
      /\ DOMAIN z = 1 .. Len(s) - 1
      /\ \A i \in DOMAIN z : i + 1 \in DOMAIN s /\ z[i] = s[i + 1]
      /\ \A i \in DOMAIN s : i # 1 => i - 1 \in DOMAIN z /\ z[i - 1] = s[i]
      /\ 1 \in DOMAIN s
  BY <1>2, TailUpdates
<1>4. /\ e.aliases = d.aliases /\ e.chats[r] # NoRow
      /\ \A c \in Ids : c # r => e.chats[c] = d.chats[c]
  <2>1. e.aliases = d.aliases
    BY DEF Writes
  <2>2. e.chats[r] # NoRow
    BY WritesRow
  <2>3. \A c \in Ids : c # r => e.chats[c] = d.chats[c]
    <3>1. PICK is \in Chat : e.chats = [d.chats EXCEPT ![r] = is]
      BY DEF Writes
    <3>2. d.chats \in [Ids -> {NoRow} \cup Chat]
      BY TableTypes DEF Whole
    <3> QED BY <3>1, <3>2
  <2> QED BY <2>1, <2>2, <2>3
<1>5. e.chats[r].present = p
  BY WrittenPresent
<1>6. Grows(d, e) /\ Known(e, u.id)
  <2>1. Grows(d, e)
    BY WritesGrow
  <2>2. Resolve(e, u.id) = r
    BY <1>1, <1>4, ResolveIs
  <2> QED BY <1>4, <2>1, <2>2 DEF Known
<1>7. Leading(e, g) = Leading(d, g) /\ Leading(d, g) \subseteq Ids
  BY <1>4, IdFacts DEF Leading
<1>8. ASSUME NEW ids, NoMember(z, ids), ~IsMember(u) \/ u.id \notin ids
      PROVE  NoMember(s, ids)
  <2>1. ASSUME NEW i \in DOMAIN s, IsMember(s[i]) PROVE s[i].id \notin ids
    <3>1. CASE i = 1
      BY <1>1, <1>8, <2>1, <3>1
    <3>2. CASE i # 1
      BY <1>3, <1>8, <2>1, <3>2 DEF NoMember
    <3> QED BY <3>1, <3>2
  <2> QED BY <2>1 DEF NoMember
<1>9. \A ids : NoMember(s, ids) => NoMember(z, ids) /\ (IsMember(u) => u.id \notin ids)
  BY <1>1, <1>3 DEF NoMember
\* The first update is the last of the membership.
<1>10. ASSUME IsMember(u), NoMember(z, Ids) PROVE p = g.present
  <2>1. ASSUME NEW j \in DOMAIN s, j > 1 PROVE ~IsMember(s[j])
    <3>1. j - 1 \in DOMAIN z /\ z[j - 1] = s[j] /\ s[j].id \in Ids
      BY <1>3, <2>1, UpdateIds
    <3> QED BY <1>10, <3>1 DEF NoMember
  <2>2. IsLast(s, 1)
    BY <1>1, <1>10, <2>1 DEF IsLast
  <2>3. (s[1].kind # "gone") = g.present
    BY <1>3, <2>2 DEF Truth, LastIsTrue
  <2> QED BY <1>1, <1>10, <2>3 DEF Tells
\* Another update tells what was known, or there was nothing to know.
<1>11. ASSUME ~IsMember(u), NoMember(s, Ids),
              d.chats[r] # NoRow => d.chats[r].present = g.present
       PROVE  p = g.present
  <2>1. p = SeenPresent(d, u.id)
    BY <1>1, <1>11 DEF Tells
  <2>2. CASE Known(d, u.id)
    <3>1. d.chats[r] # NoRow /\ p = d.chats[r].present
      BY <1>1, <2>1, <2>2 DEF SeenPresent, Known, Get
    <3> QED BY <1>11, <3>1
  <2>3. CASE ~Known(d, u.id)
    <3>1. ~(~g.present /\ NoMember(s, Ids))
      BY <1>1, <1>3, <2>3 DEF Truth, GoneIsLast
    <3>2. g.present = TRUE
      BY <1>11, <3>1
    <3>3. p = TRUE
      BY <2>1, <2>3 DEF SeenPresent
    <3> QED BY <3>2, <3>3
  <2> QED BY <2>2, <2>3
\* If it is the row of the current ID, every update left changes that row.
<1>12. ASSUME r = g.id PROVE \A i \in DOMAIN s : s[i].id \in Leading(d, g)
  <2>1. CASE d.aliases[Old] = New
    BY <2>1, UpdateIds DEF Leading
  <2>2. CASE d.aliases[Old] # New
    <3>1. r = u.id /\ Leading(d, g) = {g.id}
      BY <1>1, <2>2, ResolveIs DEF Leading
    <3>2. CASE g.id = Old
      BY <3>1, <3>2 DEF Aligned
    <3>3. CASE g.id = New
      <4>1. ASSUME NEW i \in DOMAIN s PROVE s[i].id = New
        <5>1. CASE i = 1
          BY <1>1, <1>12, <3>1, <3>3, <5>1
        <5>2. CASE i # 1
          <6>1. 1 < i
            BY <1>3, <5>2
          <6>2. s[1].id = New
            BY <1>1, <1>12, <3>1, <3>3
          <6> QED BY <1>3, <6>1, <6>2 DEF Aligned
        <5> QED BY <5>1, <5>2
      <4> QED BY <3>1, <3>3, <4>1
    <3> QED BY <3>2, <3>3, IdFacts
  <2> QED BY <2>1, <2>2
<1>13. ASSUME r = g.id, NoMember(z, Leading(d, g)) PROVE NoMember(z, Ids)
  <2>1. \A i \in DOMAIN z : z[i].id \in Leading(d, g)
    BY <1>3, <1>12, <1>13
  <2> QED BY <1>13, <2>1 DEF NoMember
<1>14. LastIsTrue(z, g)
  <2>1. ASSUME NEW i \in DOMAIN z, IsLast(z, i) PROVE (z[i].kind # "gone") = g.present
    <3>1. i + 1 \in DOMAIN s /\ z[i] = s[i + 1] /\ i \in Nat
      BY <1>3
    <3>2. ASSUME NEW j \in DOMAIN s, j > i + 1 PROVE ~IsMember(s[j])
      <4>1. j # 1 /\ j - 1 > i
        BY <1>3, <3>1, <3>2
      <4>2. j - 1 \in DOMAIN z /\ z[j - 1] = s[j]
        BY <1>3, <4>1
      <4> QED BY <2>1, <4>1, <4>2 DEF IsLast
    <3>3. IsLast(s, i + 1)
      BY <2>1, <3>1, <3>2 DEF IsLast
    <3> QED BY <3>1, <3>3 DEF Truth, LastIsTrue
  <2> QED BY <2>1 DEF LastIsTrue
\* What holds of the updates left holds of all, too, if the first stays.
<1>15. ASSUME NoMember(z, Leading(d, g)) PROVE e.chats[g.id] # NoRow => e.chats[g.id].present = g.present
  <2>1. CASE r # g.id
    <3>1. d.aliases[Old] # New
      <4>1. CASE g.id = Old
        BY <4>1, IdFacts DEF Aligned
      <4>2. CASE g.id = New
        BY <1>1, <2>1, <4>2, ResolveIs
      <4> QED BY <4>1, <4>2, IdFacts
    <3>2. r = u.id /\ Leading(d, g) = {g.id}
      BY <1>1, <3>1, ResolveIs DEF Leading
    <3>3. NoMember(s, Leading(d, g))
      BY <1>8, <1>15, <2>1, <3>2
    <3>4. e.chats[g.id] = d.chats[g.id]
      BY <1>4, <2>1
    <3> QED BY <3>3, <3>4 DEF Truth, RowIsTrue
  <2>2. CASE r = g.id
    <3>1. NoMember(z, Ids)
      BY <1>13, <1>15, <2>2
    <3>2. CASE IsMember(u)
      BY <1>5, <1>10, <2>2, <3>1, <3>2
    <3>3. CASE ~IsMember(u)
      <4>1. NoMember(s, Ids) /\ NoMember(s, Leading(d, g))
        BY <1>8, <1>15, <3>1, <3>3
      <4>2. d.chats[r] # NoRow => d.chats[r].present = g.present
        BY <2>2, <4>1 DEF Truth, RowIsTrue
      <4> QED BY <1>5, <1>11, <2>2, <3>3, <4>1, <4>2
    <3> QED BY <3>2, <3>3
  <2> QED BY <2>1, <2>2
<1>16. ASSUME NoMember(z, Ids), e.chats[g.id] = NoRow, NEW c \in Ids, e.chats[c] # NoRow
       PROVE  e.chats[c].present = g.present
  <2>1. r # g.id /\ c # g.id /\ c = r /\ d.chats[g.id] = NoRow
    <3>1. r # g.id /\ c # g.id
      BY <1>4, <1>16
    <3>2. c = r
      BY <3>1, IdFacts
    <3> QED BY <1>4, <1>16, <3>1, <3>2
  <2>2. CASE IsMember(u)
    BY <1>5, <1>10, <1>16, <2>1, <2>2
  <2>3. CASE ~IsMember(u)
    <3>1. NoMember(s, Ids)
      BY <1>8, <1>16, <2>3
    <3>2. d.chats[r] # NoRow => d.chats[r].present = g.present
      BY <2>1, <3>1 DEF Truth, RowIsTrue
    <3> QED BY <1>5, <1>11, <2>1, <2>3, <3>1, <3>2
  <2> QED BY <2>2, <2>3
<1>17. RowIsTrue(e, z, g) /\ RowIsTrue(e, s, g)
  BY <1>7, <1>9, <1>15, <1>16 DEF RowIsTrue
\* After the bot has left there is only the new ID, once the leaving is handled.
<1>18. ASSUME g.id = New, ~g.present, NoMember(z, {New}) PROVE \A i \in DOMAIN s : s[i].id = New
  <2>1. CASE \A i \in DOMAIN s : s[i].id = New
    BY <2>1
  <2>2. CASE ~NoMember(s, {New})
    <3>1. IsMember(u) /\ u.id = New
      BY <1>8, <1>18, <2>2
    <3>2. ASSUME NEW i \in DOMAIN s, i # 1 PROVE s[i].id = New
      <4>1. 1 < i /\ s[1].id = New
        BY <1>1, <1>3, <3>1, <3>2
      <4> QED BY <1>3, <4>1 DEF Aligned
    <3> QED BY <1>1, <3>1, <3>2
  <2> QED BY <1>18, <2>1, <2>2 DEF Truth, GoneIsLast
<1>19. ASSUME ~g.present, NoMember(z, Ids) PROVE \A i \in DOMAIN s : Known(e, s[i].id)
  <2>1. CASE ~IsMember(u)
    <3>1. NoMember(s, Ids)
      BY <1>8, <1>19, <2>1
    <3>2. \A i \in DOMAIN s : Known(d, s[i].id)
      BY <1>19, <3>1 DEF Truth, GoneIsLast
    <3> QED BY <1>6, <3>2, UpdateIds DEF Grows
  <2>2. CASE IsMember(u)
    <3>1. CASE d.aliases[Old] = New
      <4>1. \A c \in Ids : Resolve(e, c) = New
        BY <1>4, <3>1, ResolveIs
      <4>2. r = New
        BY <1>1, <3>1, ResolveIs
      <4> QED BY <1>4, <4>1, <4>2, UpdateIds DEF Known
    <3>2. CASE g.id = Old
      <4>1. \A i \in DOMAIN s : s[i].id = Old
        BY <3>2 DEF Aligned
      <4> QED BY <1>1, <1>3, <1>6, <4>1
    <3>3. CASE g.id = New
      <4>1. NoMember(z, {New})
        BY <1>19, IdFacts DEF NoMember
      <4>2. \A i \in DOMAIN s : s[i].id = New
        BY <1>18, <1>19, <3>3, <4>1
      <4> QED BY <1>1, <1>3, <1>6, <4>2
    <3> QED BY <3>1, <3>2, <3>3, IdFacts
  <2> QED BY <2>1, <2>2
<1>20. GoneIsLast(e, z, g) /\ GoneIsLast(e, s, g)
  <2>1. /\ (\A i \in DOMAIN s : s[i].id = New) => (\A i \in DOMAIN z : z[i].id = New)
        /\ (\A i \in DOMAIN s : Known(e, s[i].id)) => (\A i \in DOMAIN z : Known(e, z[i].id))
    BY <1>3
  <2>2. g.id = New /\ ~g.present => ~NoMember(z, {New}) \/ \A i \in DOMAIN z : z[i].id = New
    BY <1>18, <2>1
  <2>3. ~g.present /\ NoMember(z, Ids) => \A i \in DOMAIN z : Known(e, z[i].id)
    BY <1>19, <2>1
  <2>4. g.id = New /\ ~g.present => ~NoMember(s, {New}) \/ \A i \in DOMAIN s : s[i].id = New
    BY DEF Truth, GoneIsLast
  <2>5. ~g.present /\ NoMember(s, Ids) => \A i \in DOMAIN s : Known(e, s[i].id)
    BY <1>9, <1>19
  <2> QED BY <2>2, <2>3, <2>4, <2>5 DEF GoneIsLast
<1>21. LastIsTrue(s, g)
  BY DEF Truth
<1> QED BY <1>2, <1>14, <1>17, <1>20, <1>21 DEF Truth

-----------------------------------------------------------------------------
(* Steps that keep the owner's message coming *)

Comes(ts) == \E t \in ts : t.kind \in {"joined", "notify"}

LEMMA TellingOfUpdate ==
    ASSUME NEW d, NEW s \in Seq(Update), NEW u \in Update, NEW g, NEW h, NEW ts, NEW us, NEW word,
           Telling(d, s, g, ts, word), u.kind = "join" \/ g.present, Comes(ts) => Comes(us)
    PROVE  Telling(d, Append(s, u), h, us, word)
<1>1. PICK z : z = Append(s, u)
  OBVIOUS
<1>2. /\ z # << >> /\ Head(z) = (IF s = << >> THEN u ELSE Head(s))
      /\ \A i \in DOMAIN s : i \in DOMAIN z /\ z[i] = s[i]
  BY <1>1, AppendUpdates
<1>3. NoRows(d) => Head(z).kind = "join"
  <2>1. CASE s = << >>
    BY <1>2, <2>1 DEF Telling
  <2>2. CASE s # << >>
    BY <1>2, <2>2 DEF Telling
  <2> QED BY <2>1, <2>2
<1>4. word = "no" /\ Undecided(d) => Comes(us) \/ \E i \in DOMAIN z : z[i].kind = "join"
  BY <1>2 DEF Telling, Comes
<1> QED BY <1>1, <1>2, <1>3, <1>4 DEF Telling, Comes

LEMMA TellingOfGrowth ==
    ASSUME NEW d, NEW e, NEW s, NEW g, NEW ts, NEW us, NEW word,
           Telling(d, s, g, ts, word), Grows(d, e), NoRows(d) => NoRows(e),
           Comes(ts) => Comes(us)
    PROVE  Telling(e, s, g, us, word)
<1>1. NoRows(e) => NoRows(d)
  BY DEF Grows
<1>2. Undecided(e) => Undecided(d)
  BY DEF Grows, Undecided
<1> QED BY <1>1, <1>2 DEF Telling, Comes

\* The first update is handled, and the handler of a joining goes on.
LEMMA TellingOfHandling ==
    ASSUME NEW d, NEW e, NEW s \in Seq(Update), s # << >>, NEW g, NEW ts, NEW us, NEW word, NEW then,
           Telling(d, s, g, ts, word), Grows(d, e), ~NoRows(e),
           Head(s).kind = "join" => Comes(us),
           Head(s).kind # "join" => then = word, Comes(ts) => Comes(us)
    PROVE  Telling(e, Tail(s), g, us, then)
<1>1. /\ Head(s) = s[1] /\ DOMAIN s = 1 .. Len(s)
      /\ \A i \in DOMAIN s : i # 1 => i - 1 \in DOMAIN Tail(s) /\ Tail(s)[i - 1] = s[i]
  BY TailUpdates
<1>2. CASE Head(s).kind = "join"
  BY <1>2 DEF Telling, Comes
<1>3. CASE Head(s).kind # "join"
  <2>1. ~NoRows(d)
    BY <1>3 DEF Telling
  <2>2. ASSUME then = "no", Undecided(e), ~Comes(us)
        PROVE  \E i \in DOMAIN Tail(s) : Tail(s)[i].kind = "join"
    <3>1. Undecided(d) /\ word = "no" /\ ~Comes(ts)
      BY <1>3, <2>1, <2>2 DEF Grows
    <3>2. PICK i \in DOMAIN s : s[i].kind = "join"
      BY <3>1 DEF Telling, Comes
    <3>3. i # 1
      BY <1>1, <1>3, <3>2
    <3> QED BY <1>1, <3>2, <3>3
  <2> QED BY <2>2 DEF Telling, Comes
<1> QED BY <1>2, <1>3

\* It is handled and comes again; no handler was on its way to the owner.
LEMMA TellingOfRepetition ==
    ASSUME NEW d, NEW e, NEW s \in Seq(Update), s # << >>, NEW g, NEW ts, NEW us, NEW word,
           Telling(d, s, g, ts, word), Grows(d, e), ~NoRows(e), ~Comes(ts)
    PROVE  Telling(e, s, g, us, word)
<1>1. ASSUME word = "no", Undecided(e) PROVE \E i \in DOMAIN s : s[i].kind = "join"
  <2>1. CASE NoRows(d)
    <3>1. Head(s) = s[1] /\ 1 \in DOMAIN s /\ Head(s).kind = "join"
      BY <2>1, TailUpdates DEF Telling
    <3> QED BY <3>1
  <2>2. CASE ~NoRows(d)
    BY <1>1, <2>2 DEF Telling, Comes, Grows
  <2> QED BY <2>1, <2>2
<1> QED BY <1>1 DEF Telling

-----------------------------------------------------------------------------
(* The first state, and the steps *)

LEMMA GroupsInit ==
    ASSUME ChatsAssumption, Init
    PROVE  GroupsInv
<1>1. TypeOK
  <2>1. db \in Tables
    BY DEF Init, Tables, Ids, Message
  <2>2. updates \in Seq(Update)
    BY DEF Init
  <2>3. now \in 1 .. MaxTime /\ said \in 0 .. MaxMessages
    BY DEF Init, ChatsAssumption
  <2> QED BY <2>1, <2>2, <2>3, IdFacts DEF Init, TypeOK
<1>2. Whole(db)
  BY <1>1, IdFacts DEF Init, TypeOK, Whole
<1>3. Aligned(db, updates, group)
  BY IdFacts DEF Init, Aligned
<1>4. Truth(db, updates, group) /\ AnswersTrue(tasks, group)
  <2>1. DOMAIN updates = {} /\ group.id = Old /\ tasks = {}
    BY DEF Init
  <2>2. \A c \in Ids : db.chats[c] = NoRow
    BY DEF Init
  <2>3. LastIsTrue(updates, group) /\ GoneIsLast(db, updates, group)
    BY <2>1, IdFacts DEF LastIsTrue, GoneIsLast
  <2>4. RowIsTrue(db, updates, group)
    BY <2>1, <2>2, IdFacts DEF RowIsTrue
  <2> QED BY <2>1, <2>3, <2>4 DEF Truth, AnswersTrue
<1>5. Telling(db, updates, group, tasks, told)
  BY DEF Init, Telling, Undecided, NoRows
<1> QED BY <1>1, <1>2, <1>3, <1>4, <1>5, IdFacts DEF Init, GroupsInv

\* A change of the membership at Telegram, and its update
LEMMA ChangeKeeps ==
    ASSUME GroupsInv, TypeOK', NEW u \in Update, IsMember(u), u.id = group.id,
           group'.id = group.id, (u.kind # "gone") = group'.present,
           u.kind = "join" \/ group.present,
           updates' = Append(updates, u), UNCHANGED <<db, notices, told>>,
           astray' = (astray \/ Answered),
           \A t \in tasks' : t.kind = "check" /\ t.answer # "none" => t \in tasks,
           \A t \in tasks' : Known(db, t.id), Comes(tasks) => Comes(tasks')
    PROVE  GroupsInv'
<1>1. updates \in Seq(Update) /\ group.id \in Ids
  BY DEF GroupsInv, TypeOK
<1>2. Aligned(db', updates', group')
  BY <1>1, AlignedAppends DEF GroupsInv
<1>3. Truth(db', updates', group')
  BY <1>1, TruthOfChange
<1>4. ~astray' => AnswersTrue(tasks', group')
  BY DEF AnswersTrue, Answered
<1>5. told' # "missed" => Telling(db', updates', group', tasks', told')
  BY <1>1, TellingOfUpdate DEF GroupsInv
<1> QED BY <1>2, <1>3, <1>4, <1>5 DEF GroupsInv

\* Another update is sent.
LEMMA SendKeeps ==
    ASSUME GroupsInv, TypeOK', NEW u \in Update, ~IsMember(u), u.id = group.id, group.present,
           updates' = Append(updates, u), UNCHANGED <<db, group, notices, tasks, told, astray>>
    PROVE  GroupsInv'
<1>1. updates \in Seq(Update) /\ group.id \in Ids /\ group.present = TRUE
  BY DEF GroupsInv, TypeOK
<1>2. Aligned(db', updates', group')
  BY <1>1, AlignedAppends DEF GroupsInv
<1>3. ~astray' => Truth(db', updates', group')
  BY <1>1, TruthOfOther DEF GroupsInv
<1>4. told' # "missed" => Telling(db', updates', group', tasks', told')
  BY <1>1, TellingOfUpdate DEF GroupsInv
<1> QED BY <1>2, <1>3, <1>4 DEF GroupsInv

\* A handler, or the owner, writes the row of a known chat or none.
LEMMA WriteKeeps ==
    ASSUME GroupsInv, TypeOK', UNCHANGED <<group, notices, updates>>,
           NEW r \in Ids, db.chats[r] # NoRow, NEW p,
           NEW decided, decided \in {Nothing, Decisions},
           db' = db \/ Writes(db, db', r, p, decided),
           ~astray' => ~astray /\ AnswersTrue(tasks', group),
           ~astray' => db' = db \/ p = db.chats[r].present \/ p = group.present,
           \A t \in tasks' : t \in tasks \/ Known(db, t.id),
           told' # "missed" => told # "missed",
           told' = "no" => told = "no",
           told' = "no" /\ Undecided(db') /\ Comes(tasks) => Comes(tasks')
    PROVE  GroupsInv'
<1>1. /\ updates \in Seq(Update) /\ group.id \in Ids /\ Whole(db)
      /\ Aligned(db, updates, group)
  BY DEF GroupsInv, TypeOK
<1>2. db.aliases[Old] = New => r # Old
  BY <1>1 DEF Whole
<1>3. group.id = Old => r = Old
  BY <1>1, IdFacts DEF Aligned
<1>4. Whole(db')
  BY <1>1, <1>2, WritesWhole
<1>5. db'.aliases = db.aliases
  BY DEF Writes
<1>6. Grows(db, db') /\ ~NoRows(db) /\ ~NoRows(db')
  <2>1. ~NoRows(db)
    BY DEF NoRows
  <2>2. CASE db' = db
    BY <2>1, <2>2 DEF Grows
  <2>3. CASE Writes(db, db', r, p, decided)
    BY <1>1, <1>4, <2>1, <2>3, WritesGrow
  <2> QED BY <2>1, <2>2, <2>3
<1>7. Aligned(db', updates, group)
  <2>1. CASE db' = db
    BY <1>1, <2>1
  <2>2. CASE Writes(db, db', r, p, decided)
    BY <1>1, <1>3, <2>2, AlignedWrites
  <2> QED BY <2>1, <2>2
<1>8. ~astray' => Truth(db', updates, group)
  <2>1. CASE db' = db
    BY <2>1 DEF GroupsInv
  <2>2. CASE Writes(db, db', r, p, decided) /\ ~(db' = db)
    BY <1>1, <1>4, <2>2, TruthOfWrite DEF GroupsInv
  <2> QED BY <2>1, <2>2
<1>9. \A t \in tasks' : Known(db', t.id)
  <2>1. TAKE t \in tasks'
  <2>2. t.id \in Ids
    BY DEF TypeOK, Task
  <2>3. Known(db, t.id)
    BY DEF GroupsInv
  <2> QED BY <1>6, <2>2, <2>3 DEF Grows
<1>10. told' # "missed" => Telling(db', updates, group, tasks', told')
  <2>1. ASSUME told' # "missed", told' = "no", Undecided(db')
        PROVE  Comes(tasks') \/ \E i \in DOMAIN updates : updates[i].kind = "join"
    <3>1. Telling(db, updates, group, tasks, told) /\ told = "no" /\ Undecided(db)
      BY <1>6, <2>1 DEF GroupsInv, Grows
    <3> QED BY <2>1, <3>1 DEF Telling, Comes
  <2> QED BY <1>6, <2>1 DEF Telling, Comes
<1>11. group' = group /\ updates' = updates /\ notices' = notices
  OBVIOUS
<1>12. /\ group'.id = Old => notices' = {}
       /\ group'.id = New /\ notices' # {"to", "from"} =>
             db'.aliases[Old] = New \/ (astray' /\ told' = "missed")
  BY <1>5, <1>11 DEF GroupsInv, TypeOK
<1> QED BY <1>4, <1>7, <1>8, <1>9, <1>10, <1>11, <1>12 DEF GroupsInv

\* A notice of the upgrade comes, or a refusal that tells of it.
LEMMA MigrationKeeps ==
    ASSUME GroupsInv, TypeOK', group.id = New, db' = Migrate(db, Old, New),
           UNCHANGED <<group, updates, tasks, told, astray>>
    PROVE  GroupsInv'
<1>1. Whole(db) /\ updates \in Seq(Update) /\ Aligned(db, updates, group)
  BY DEF GroupsInv, TypeOK
<1>2. /\ Whole(db') /\ db'.aliases[Old] = New
      /\ Grows(db, db') /\ (NoRows(db) => NoRows(db'))
  BY <1>1, MigrateFacts, MigrateGrows
<1>3. Aligned(db', updates, group)
  BY <1>1, IdFacts DEF Aligned
<1>4. ~astray => Truth(db', updates, group)
  BY <1>1, TruthOfMigration DEF GroupsInv
<1>5. \A t \in tasks : Known(db', t.id)
  BY <1>2 DEF GroupsInv, TypeOK, Task, Grows
<1>6. told # "missed" => Telling(db', updates, group, tasks, told)
  BY <1>2, TellingOfGrowth DEF GroupsInv
<1> QED BY <1>2, <1>3, <1>4, <1>5, <1>6, IdFacts DEF GroupsInv

LEMMA TaskTypes ==
    ASSUME NEW c \in Ids
    PROVE  /\ Check(c) \in Task /\ Check(c).id = c /\ Check(c).kind = "check" /\ Check(c).answer = "none"
           /\ [kind |-> "joined", id |-> c] \in Task /\ [kind |-> "notify", id |-> c] \in Task
           /\ [kind |-> "leave", id |-> c, answer |-> "none"] \in Task
           /\ NoTask \notin Task
<1>1. Check(c) = [kind |-> "check", id |-> c, answer |-> "none"]
  BY DEF Check
<1>2. NoTask \notin Task
  <2>1. \A t \in Task : t.kind # "none"
    BY DEF Task
  <2> QED BY <2>1 DEF NoTask
<1> QED BY <1>1, <1>2 DEF Task

LEMMA TaskIds ==
    ASSUME NEW t \in Task
    PROVE  t.id \in Ids /\ t.kind \in {"notify", "joined", "check", "leave"}
BY DEF Task

LEMMA AnsweredTask ==
    ASSUME NEW t \in Task, t.kind \in {"check", "leave"}, NEW a \in {"none", "error", "out", "in"}
    PROVE  /\ [t EXCEPT !.answer = a] \in Task
           /\ [t EXCEPT !.answer = a].kind = t.kind
           /\ [t EXCEPT !.answer = a].id = t.id
           /\ [t EXCEPT !.answer = a].answer = a
BY DEF Task

LEMMA UpdateIs ==
    ASSUME NEW c \in Ids
    PROVE  /\ \A kind \in {"join", "gone", "rights", "enable", "disable"} :
                 [kind |-> kind, id |-> c] \in Update
           /\ \A n \in 1 .. MaxMessages : [kind |-> "say", id |-> c, n |-> n] \in Update
BY DEF Update

\* Known under one ID, known under the ID it leads to
LEMMA KnownResolved ==
    ASSUME NEW d, Whole(d), NEW c \in Ids, Known(d, c)
    PROVE  /\ Resolve(d, c) \in Ids /\ d.chats[Resolve(d, c)] # NoRow
           /\ Known(d, Resolve(d, c)) /\ Resolve(d, Resolve(d, c)) = Resolve(d, c)
           /\ Get(d, Resolve(d, c)) = Get(d, c) /\ Get(d, c).present = d.chats[Resolve(d, c)].present
<1>1. Resolve(d, c) \in Ids /\ Resolve(d, Resolve(d, c)) = Resolve(d, c)
  BY ResolveIs, IdFacts
<1> QED BY <1>1 DEF Known, Get

LEMMA GroupsFacts ==
    ASSUME GroupsInv
    PROVE  /\ Whole(db) /\ db \in Tables /\ group.id \in Ids /\ group.present \in BOOLEAN
           /\ group \in [id : Ids, present : BOOLEAN]
           /\ notices \subseteq {"to", "from"} /\ updates \in Seq(Update) /\ tasks \subseteq Task
           /\ now \in 1 .. MaxTime /\ said \in 0 .. MaxMessages
           /\ told \in {"no", "yes", "missed"} /\ astray \in BOOLEAN
           /\ Aligned(db, updates, group)
           /\ \A t \in tasks : Known(db, t.id) /\ t.id \in Ids
BY TaskIds DEF GroupsInv, TypeOK

-----------------------------------------------------------------------------

LEMMA GroupChangesKeeps ==
    ASSUME GroupsInv, NEW h \in [id : Ids, present : BOOLEAN], h.id = group.id,
           NEW kind \in {"join", "gone", "rights"}, kind = "join" \/ group.present,
           (kind # "gone") = h.present, GroupChanges(h, kind)
    PROVE  GroupsInv'
<1>1. PICK u \in Update : u.kind = kind /\ u.id = h.id /\ u = [kind |-> kind, id |-> h.id]
  BY UpdateIs
<1>2. /\ updates' = Append(updates, u) /\ group' = h
      /\ UNCHANGED <<db, notices, tasks, now, said, told>>
  BY <1>1 DEF GroupChanges, Sends
<1>3. astray' = (astray \/ Answered)
  BY DEF GroupChanges
<1>4. TypeOK'
  <2>1. astray' \in BOOLEAN
    BY <1>3, GroupsFacts
  <2>2. updates' \in Seq(Update)
    BY <1>2, GroupsFacts, AppendUpdates
  <2> QED BY <1>2, <2>1, <2>2, GroupsFacts DEF TypeOK
<1>5. IsMember(u)
  BY <1>1 DEF IsMember
<1> QED BY <1>1, <1>2, <1>3, <1>4, <1>5, ChangeKeeps, GroupsFacts

LEMMA GroupStepsKeep ==
    ASSUME GroupsInv, AddBot \/ RemoveBot \/ Promote
    PROVE  GroupsInv'
<1>1. group \in [id : Ids, present : BOOLEAN]
  BY GroupsFacts
<1>2. CASE AddBot
  <2>1. PICK h \in [id : Ids, present : BOOLEAN] :
           h = [group EXCEPT !.present = TRUE] /\ h.id = group.id /\ h.present = TRUE
    <3>1. PICK h : h = [group EXCEPT !.present = TRUE]
      OBVIOUS
    <3>2. h \in [id : Ids, present : BOOLEAN]
      BY <1>1, <3>1
    <3>3. h.id = group.id
      BY <1>1, <3>1
    <3>4. h.present = TRUE
      BY <1>1, <3>1
    <3> QED BY <3>1, <3>2, <3>3, <3>4
  <2>2. GroupChanges(h, "join")
    BY <1>2, <2>1 DEF AddBot
  <2> QED BY <2>1, <2>2, GroupChangesKeeps
<1>3. CASE RemoveBot
  <2>1. PICK h \in [id : Ids, present : BOOLEAN] :
           h = [group EXCEPT !.present = FALSE] /\ h.id = group.id /\ h.present = FALSE
    <3>1. PICK h : h = [group EXCEPT !.present = FALSE]
      OBVIOUS
    <3>2. h \in [id : Ids, present : BOOLEAN]
      BY <1>1, <3>1
    <3>3. h.id = group.id
      BY <1>1, <3>1
    <3>4. h.present = FALSE
      BY <1>1, <3>1
    <3> QED BY <3>1, <3>2, <3>3, <3>4
  <2>2. GroupChanges(h, "gone") /\ group.present
    BY <1>3, <2>1 DEF RemoveBot
  <2> QED BY <2>1, <2>2, GroupChangesKeeps
<1>4. CASE Promote
  <2>1. PICK h \in [id : Ids, present : BOOLEAN] : h = group /\ h.present = TRUE
    BY <1>1, <1>4 DEF Promote
  <2>2. GroupChanges(h, "rights") /\ group.present
    BY <1>4, <2>1 DEF Promote
  <2> QED BY <2>1, <2>2, GroupChangesKeeps
<1> QED BY <1>2, <1>3, <1>4

LEMMA UpgradeKeeps ==
    ASSUME GroupsInv, Upgrade
    PROVE  GroupsInv'
<1>1. PICK h \in [id : Ids, present : BOOLEAN] :
         h = group' /\ h.id = New /\ h.present = TRUE /\ group.present = TRUE /\ group.id = Old
  BY GroupsFacts, IdFacts DEF Upgrade
<1>2. notices' = {"to", "from"} /\ UNCHANGED <<db, updates, tasks, now, said, told, astray>>
  BY DEF Upgrade, bounds
<1>3. TypeOK'
  BY <1>1, <1>2, GroupsFacts DEF TypeOK
<1>4. Aligned(db, updates, h)
  BY <1>1, GroupsFacts, IdFacts DEF Aligned
<1>5. ~astray => Truth(db, updates, h)
  BY <1>1, TruthOfUpgrade, GroupsFacts DEF GroupsInv
<1>6. ~astray => AnswersTrue(tasks, h)
  BY <1>1 DEF GroupsInv, AnswersTrue
<1>7. told # "missed" => Telling(db, updates, h, tasks, told)
  BY <1>1 DEF GroupsInv, Telling
<1> QED BY <1>1, <1>2, <1>3, <1>4, <1>5, <1>6, <1>7, IdFacts DEF GroupsInv

LEMMA SayKeeps ==
    ASSUME GroupsInv, Say \/ OwnerTypes("enable") \/ OwnerTypes("disable")
    PROVE  GroupsInv'
<1>1. PICK u \in Update : ~IsMember(u) /\ u.id = group.id /\ updates' = Append(updates, u)
  <2>1. CASE Say
    <3>1. said' \in 1 .. MaxMessages
      BY <2>1, ChatsAssumption, GroupsFacts DEF Say
    <3>2. PICK n \in 1 .. MaxMessages : n = said'
      BY <3>1
    <3>3. PICK u : u = [kind |-> "say", id |-> group.id, n |-> n]
      OBVIOUS
    <3>4. u \in Update /\ u.kind = "say" /\ u.id = group.id
      BY <3>3, UpdateIs, GroupsFacts
    <3>5. updates' = Append(updates, u)
      BY <2>1, <3>2, <3>3 DEF Say, Sends
    <3> QED BY <3>4, <3>5 DEF IsMember
  <2>2. ASSUME NEW kind \in {"enable", "disable"}, OwnerTypes(kind)
        PROVE  \E u \in Update : ~IsMember(u) /\ u.id = group.id /\ updates' = Append(updates, u)
    <3>1. PICK u : u = [kind |-> kind, id |-> group.id]
      OBVIOUS
    <3>2. u \in Update /\ u.kind = kind /\ u.id = group.id
      BY <3>1, UpdateIs, GroupsFacts
    <3>3. updates' = Append(updates, u)
      BY <2>2, <3>1 DEF OwnerTypes, Sends
    <3> QED BY <3>2, <3>3 DEF IsMember
  <2> QED BY <2>1, <2>2
<1>2. /\ UNCHANGED <<db, group, notices, tasks, now, told, astray>> /\ group.present
      /\ said' \in 0 .. MaxMessages
  BY ChatsAssumption, GroupsFacts DEF Say, OwnerTypes
<1>3. TypeOK'
  BY <1>1, <1>2, GroupsFacts, AppendUpdates DEF TypeOK
<1> QED BY <1>1, <1>2, <1>3, SendKeeps

LEMMA IdleKeeps ==
    ASSUME GroupsInv, Tick \/ UNCHANGED vars
    PROVE  GroupsInv'
<1>1. UNCHANGED <<db, group, notices, updates, tasks, told, astray>> /\ said' = said
  BY DEF Tick, vars, bounds
<1>2. now' \in 1 .. MaxTime
  BY ChatsAssumption, GroupsFacts DEF Tick, vars, bounds
<1>3. TypeOK'
  BY <1>1, <1>2, GroupsFacts DEF TypeOK
<1> QED BY <1>1, <1>3 DEF GroupsInv

-----------------------------------------------------------------------------

\* What the handlers of the first update do
LEMMA FirstHandled ==
    ASSUME GroupsInv, updates # << >>
    PROVE  /\ Head(updates) \in Update /\ Resolve(db, Head(updates).id) \in Ids
           /\ Writes(db, Handled(db, Head(updates)).db, Resolve(db, Head(updates).id),
                     Tells(db, Head(updates)), Decides(Head(updates)))
           /\ Decides(Head(updates)) \in {Nothing, Decisions}
           /\ Whole(Handled(db, Head(updates)).db) /\ Handled(db, Head(updates)).db \in Tables
           /\ Grows(db, Handled(db, Head(updates)).db) /\ ~NoRows(Handled(db, Head(updates)).db)
           /\ Handled(db, Head(updates)).db.aliases = db.aliases
           /\ Known(Handled(db, Head(updates)).db, Resolve(db, Head(updates).id))
           /\ Aligned(Handled(db, Head(updates)).db, updates, group)
<1>1. PICK u \in Update : u = Head(updates) /\ u = updates[1] /\ u.id \in Ids /\ 1 \in DOMAIN updates
  BY TailUpdates, GroupsFacts, UpdateTypes
<1>2. PICK r \in Ids : r = Resolve(db, u.id) /\ (db.aliases[Old] = New => r # Old)
                       /\ r = IF db.aliases[Old] = New THEN New ELSE u.id
  BY ResolveIs, GroupsFacts, <1>1
<1>3. PICK e : e = Handled(db, u).db
  OBVIOUS
<1>4. Writes(db, e, r, Tells(db, u), Decides(u))
  BY <1>2, <1>3, HandledWrites, GroupsFacts
<1>5. Decides(u) \in {Nothing, Decisions}
  BY DEF Decides
<1>6. Whole(e)
  BY <1>2, <1>4, WritesWhole, GroupsFacts
<1>7. Grows(db, e) /\ ~NoRows(e)
  BY <1>4, <1>5, <1>6, WritesGrow, GroupsFacts
<1>8. e.aliases = db.aliases /\ e \in Tables
  BY <1>4 DEF Writes
<1>9. Known(e, r)
  <2>1. e.chats[r] # NoRow
    <3>1. PICK p, decided : p = Tells(db, u) /\ decided = Decides(u)
      OBVIOUS
    <3>2. Writes(db, e, r, p, decided)
      BY <1>4, <3>1
    <3> QED BY <3>2, WrittenIsThere, GroupsFacts
  <2>2. Resolve(e, r) = r
    BY <1>2, <1>6, <1>8, ResolveIs
  <2> QED BY <2>1, <2>2 DEF Known
<1>10. Aligned(e, updates, group)
  <2>1. group.id = Old => r = Old
    BY <1>1, <1>2, IdFacts, GroupsFacts DEF Aligned
  <2> QED BY <1>4, <2>1, AlignedWrites, GroupsFacts
<1> QED BY <1>1, <1>2, <1>3, <1>4, <1>5, <1>6, <1>7, <1>8, <1>9, <1>10

LEMMA DispatchKeeps ==
    ASSUME GroupsInv, Dispatch
    PROVE  GroupsInv'
<1>1. PICK u, r, w : u = Head(updates) /\ r = Resolve(db, u.id) /\ w = Handled(db, u).task
  OBVIOUS
<1>2. /\ updates # << >> /\ u \in Update /\ r \in Ids
      /\ Writes(db, db', r, Tells(db, u), Decides(u)) /\ Decides(u) \in {Nothing, Decisions}
      /\ Whole(db') /\ db' \in Tables /\ Grows(db, db') /\ ~NoRows(db')
      /\ db'.aliases = db.aliases /\ Known(db', r) /\ Aligned(db', updates, group)
  BY <1>1, FirstHandled DEF Dispatch
<1>3. /\ u.kind = "join" => w = [kind |-> "joined", id |-> r]
      /\ u.kind # "join" => w \in {NoTask, [kind |-> "notify", id |-> r], Check(r)}
  BY <1>1, <1>2, HandledWrites, GroupsFacts
<1>4. IF w = NoTask THEN tasks' = tasks ELSE tasks' = tasks \cup {w}
  BY <1>1 DEF Dispatch, Start
<1>5. /\ updates' = Tail(updates) /\ UNCHANGED <<group, notices, now, said, astray>>
      /\ told' = IF u.kind = "join" /\ told = "yes" THEN "no" ELSE told
  BY <1>1 DEF Dispatch, bounds
<1>6. w # NoTask => /\ w \in Task /\ w.id = r /\ (w.kind = "check" => w.answer = "none")
                    /\ (u.kind = "join" => w.kind = "joined")
  <2>1. CASE u.kind = "join"
    <3>1. w = [kind |-> "joined", id |-> r]
      BY <1>3, <2>1
    <3>2. w \in Task
      BY <1>2, <3>1, TaskTypes
    <3> QED BY <3>1, <3>2
  <2>2. CASE w = [kind |-> "notify", id |-> r] /\ u.kind # "join"
    BY <1>2, <2>2, TaskTypes
  <2>3. CASE w = Check(r) /\ u.kind # "join"
    BY <1>2, <2>3, TaskTypes
  <2> QED BY <1>3, <2>1, <2>2, <2>3
<1>7. u.kind = "join" => w # NoTask
  <2>1. ASSUME u.kind = "join" PROVE w \in Task
    <3>1. w = [kind |-> "joined", id |-> r]
      BY <1>3, <2>1
    <3> QED BY <1>2, <3>1, TaskTypes
  <2>2. NoTask \notin Task
    BY <1>2, TaskTypes
  <2> QED BY <2>1, <2>2
<1>8. TypeOK'
  <2>1. tasks' \subseteq Task
    BY <1>4, <1>6, GroupsFacts
  <2>2. updates' \in Seq(Update)
    BY <1>2, <1>5, TailUpdates, GroupsFacts
  <2>3. told' \in {"no", "yes", "missed"}
    BY <1>5, GroupsFacts
  <2> QED BY <1>2, <1>5, <2>1, <2>2, <2>3, GroupsFacts DEF TypeOK
<1>9. Aligned(db', updates', group)
  BY <1>2, <1>5, AlignedTails, GroupsFacts
<1>10. \A t \in tasks' : Known(db', t.id)
  <2>1. \A t \in tasks : Known(db', t.id)
    BY <1>2, GroupsFacts DEF Grows
  <2> QED BY <1>2, <1>4, <1>6, <2>1
<1>11. ~astray => Truth(db', updates', group)
  BY <1>1, <1>2, <1>5, TruthOfHandling, GroupsFacts DEF GroupsInv
<1>12. ~astray => AnswersTrue(tasks', group)
  BY <1>4, <1>6 DEF GroupsInv, AnswersTrue
<1>13. told' # "missed" => Telling(db', updates', group, tasks', told')
  <2>1. Comes(tasks) => Comes(tasks')
    BY <1>4 DEF Comes
  <2>2. u.kind = "join" => Comes(tasks')
    BY <1>4, <1>6, <1>7 DEF Comes
  <2>3. told' # "missed" => told # "missed"
    BY <1>5
  <2> QED BY <1>1, <1>2, <1>5, <2>1, <2>2, <2>3, TellingOfHandling, GroupsFacts DEF GroupsInv
<1> QED BY <1>2, <1>5, <1>8, <1>9, <1>10, <1>11, <1>12, <1>13 DEF GroupsInv

LEMMA MigrationsKeep ==
    ASSUME GroupsInv, DispatchNotice \/ RefusedAsMigrated
    PROVE  GroupsInv'
<1>1. group.id = New
  BY IdFacts, GroupsFacts DEF GroupsInv, DispatchNotice, RefusedAsMigrated
<1>2. db' = Migrate(db, Old, New)
  <2>1. ASSUME NEW kind \in {"to", "from"} PROVE Handled(db, [kind |-> kind]).db = Migrate(db, Old, New)
    BY DEF Handled
  <2> QED BY <2>1, GroupsFacts DEF DispatchNotice, RefusedAsMigrated
<1>3. /\ notices' \subseteq {"to", "from"}
      /\ UNCHANGED <<group, updates, tasks, now, said, told, astray>>
  BY GroupsFacts DEF DispatchNotice, RefusedAsMigrated, bounds
<1>4. db' \in Tables
  BY <1>2, MigrateFacts, GroupsFacts DEF Whole
<1>5. TypeOK'
  BY <1>3, <1>4, GroupsFacts DEF TypeOK
<1> QED BY <1>1, <1>2, <1>3, <1>5, MigrationKeeps

LEMMA CrashKeeps ==
    ASSUME GroupsInv, Crash
    PROVE  GroupsInv'
<1>1. tasks' = {} /\ UNCHANGED <<group, now, said>>
  BY DEF Crash, bounds
<1>2. told' = IF updates' # updates \/ notices' # notices
                 \/ (\E t \in tasks : t.kind \in {"notify", "joined"})
              THEN "missed" ELSE told
  BY DEF Crash
<1>3. astray' = (astray \/ updates' # updates \/ notices' # notices
                       \/ \E t \in tasks : t.kind = "leave")
  BY DEF Crash
<1>4. told' # "missed" => told # "missed" /\ told' = told /\ ~Comes(tasks) /\ updates' = updates
  BY <1>2 DEF Comes
<1>5. astray' \in BOOLEAN /\ (~astray' => ~astray /\ updates' = updates)
  BY <1>3, GroupsFacts
<1>6. told' \in {"no", "yes", "missed"}
  BY <1>2, GroupsFacts
<1>11. /\ notices' # notices => astray' /\ told' = "missed"
       /\ astray /\ told = "missed" => astray' /\ told' = "missed"
  BY <1>2, <1>3
<1>7. AnswersTrue(tasks', group') /\ ~Comes(tasks')
  BY <1>1 DEF AnswersTrue, Comes
<1>8. CASE UNCHANGED <<db, updates>> /\ notices' \subseteq notices
  <2>1. TypeOK'
    BY <1>1, <1>5, <1>6, <1>8, GroupsFacts DEF TypeOK
  <2>2. told' # "missed" => Telling(db', updates', group', tasks', told')
    BY <1>1, <1>4, <1>8 DEF GroupsInv, Telling, Comes
  <2>3. /\ group.id = Old => notices' = {}
        /\ group.id = New /\ notices' # {"to", "from"} =>
              db.aliases[Old] = New \/ (astray' /\ told' = "missed")
    BY <1>8, <1>11 DEF GroupsInv
  <2> QED BY <1>1, <1>5, <1>7, <1>8, <2>1, <2>2, <2>3 DEF GroupsInv
<1>9. CASE updates # << >> /\ updates' = Tail(updates) /\ UNCHANGED <<db, notices>>
  <2>1. updates' \in Seq(Update) /\ updates' # updates /\ Aligned(db, updates', group)
    BY <1>9, TailUpdates, AlignedTails, GroupsFacts
  <2>2. TypeOK'
    BY <1>1, <1>5, <1>6, <1>9, <2>1, GroupsFacts DEF TypeOK
  <2> QED BY <1>1, <1>4, <1>5, <1>9, <1>11, <2>1, <2>2 DEF GroupsInv
<1>10. CASE /\ updates # << >> /\ db' = Handled(db, Head(updates)).db
            /\ UNCHANGED <<updates, notices>>
  <2>1. PICK u, r : u = Head(updates) /\ r = Resolve(db, u.id)
    OBVIOUS
  <2>2. /\ u \in Update /\ r \in Ids
        /\ Writes(db, db', r, Tells(db, u), Decides(u)) /\ Decides(u) \in {Nothing, Decisions}
        /\ Whole(db') /\ db' \in Tables /\ Grows(db, db') /\ ~NoRows(db')
        /\ db'.aliases = db.aliases /\ Aligned(db', updates, group)
    BY <1>10, <2>1, FirstHandled
  <2>3. TypeOK'
    BY <1>1, <1>5, <1>6, <1>10, <2>2, GroupsFacts DEF TypeOK
  <2>4. ~astray => Truth(db', updates, group)
    BY <1>10, <2>1, <2>2, TruthOfHandling, GroupsFacts DEF GroupsInv
  <2>5. told' # "missed" => Telling(db', updates, group, tasks', told')
    BY <1>4, <1>10, <2>2, TellingOfRepetition, GroupsFacts DEF GroupsInv
  <2> QED BY <1>1, <1>5, <1>7, <1>10, <1>11, <2>2, <2>3, <2>4, <2>5 DEF GroupsInv
<1>12. ASSUME NEW kind \in notices, db' = Handled(db, [kind |-> kind]).db, UNCHANGED <<updates, notices>>
       PROVE  GroupsInv'
  <2>1. db' = Migrate(db, Old, New) /\ group.id = New
    BY <1>12, IdFacts, GroupsFacts DEF GroupsInv, Handled
  <2>2. db' \in Tables /\ Whole(db') /\ db'.aliases[Old] = New
    BY <2>1, MigrateFacts, GroupsFacts DEF Whole
  <2>3. TypeOK'
    BY <1>1, <1>5, <1>6, <1>12, <2>2, GroupsFacts DEF TypeOK
  <2>4. Aligned(db', updates, group)
    BY <2>1, IdFacts DEF Aligned, GroupsInv
  <2>5. ~astray => Truth(db', updates, group)
    BY <2>1, GroupsFacts, TruthOfMigration DEF GroupsInv
  <2>6. told' # "missed" => Telling(db', updates, group, tasks', told')
    BY <1>4, <2>1, MigrateGrows, TellingOfGrowth, GroupsFacts DEF GroupsInv
  <2> QED BY <1>1, <1>5, <1>7, <1>12, <2>1, <2>2, <2>3, <2>4, <2>5, <2>6, IdFacts DEF GroupsInv
<1> QED BY <1>8, <1>9, <1>10, <1>12 DEF Crash

-----------------------------------------------------------------------------

\* The owner, or the bot on its own, starts to ask Telegram.
LEMMA StartKeeps ==
    ASSUME GroupsInv, NEW c \in Ids, Known(db, c), NEW t \in Task, Start(t),
           t.id = Resolve(db, c), t.kind = "check" => t.answer = "none",
           db' = db \/ (\E status \in {"enabled", "disabled"} : db' = SetStatus(db, c, status)),
           UNCHANGED <<group, notices, updates, now, said, told, astray>>
    PROVE  GroupsInv'
<1>1. PICK r \in Ids : /\ r = Resolve(db, c) /\ db.chats[r] # NoRow /\ Known(db, r)
                       /\ Get(db, c).present = db.chats[r].present
  BY KnownResolved, GroupsFacts
<1>2. PICK p : p = db.chats[r].present
  OBVIOUS
<1>3. db' = db \/ Writes(db, db', r, p, Decisions)
  BY <1>1, <1>2, SetStatusWrites, GroupsFacts
<1>4. tasks' = tasks \cup {t}
  BY DEF Start
<1>5. TypeOK'
  <2>1. db' \in Tables
    BY <1>3, GroupsFacts DEF Writes
  <2> QED BY <1>4, <2>1, GroupsFacts DEF TypeOK
<1>6. ~astray' => ~astray /\ AnswersTrue(tasks', group)
  BY <1>4 DEF GroupsInv, AnswersTrue
<1>7. Comes(tasks) => Comes(tasks')
  BY <1>4 DEF Comes
<1>8. \A x \in tasks' : x \in tasks \/ Known(db, x.id)
  BY <1>1, <1>4
<1>9. UNCHANGED <<group, notices, updates>> /\ told' = told
  OBVIOUS
<1>10. ~astray' => db' = db \/ p = db.chats[r].present \/ p = group.present
  BY <1>2
<1>11. PICK decided : decided = Decisions /\ decided \in {Nothing, Decisions}
  OBVIOUS
<1>12. db' = db \/ Writes(db, db', r, p, decided)
  BY <1>3, <1>11
<1> QED BY <1>1, <1>5, <1>6, <1>7, <1>8, <1>9, <1>10, <1>11, <1>12, WriteKeeps

LEMMA OwnerKeeps ==
    ASSUME GroupsInv, NEW c \in Ids,
           Button(c) \/ PageEnables(c) \/ PageLeaves(c) \/ PageChecks(c) \/ Refresh(c)
    PROVE  GroupsInv'
<1>1. UNCHANGED <<group, notices, updates, now, said, told, astray>>
  BY DEF Button, PageEnables, PageLeaves, PageChecks, Refresh, Rest
<1>2. Known(db, c)
  <2>1. ASSUME Refresh(c) PROVE Known(db, c)
    <3>1. db.chats[c] # NoRow
      BY <2>1 DEF Refresh
    <3>2. Resolve(db, c) = c
      BY <3>1, ResolveIs, IdFacts, GroupsFacts DEF Whole
    <3> QED BY <3>1, <3>2 DEF Known
  <2> QED BY <2>1 DEF Button, PageEnables, PageLeaves, PageChecks, EnableChat, LeaveChat
<1>3. PICK r \in Ids : r = Resolve(db, c) /\ (db.chats[c] # NoRow => r = c)
  BY ResolveIs, IdFacts, GroupsFacts DEF Whole
<1>4. CASE EnableChat(c)
  <2>1. Start(Check(r)) /\ db' = SetStatus(db, c, "enabled")
    BY <1>3, <1>4 DEF EnableChat
  <2> QED BY <1>1, <1>2, <1>3, <2>1, TaskTypes, StartKeeps
<1>5. CASE LeaveChat(c)
  <2>1. PICK t : t = [kind |-> "leave", id |-> r, answer |-> "none"]
    OBVIOUS
  <2>2. Start(t) /\ db' = db
    BY <1>3, <1>5, <2>1 DEF LeaveChat
  <2>3. t \in Task /\ t.id = r /\ t.kind # "check"
    BY <2>1, TaskTypes
  <2> QED BY <1>1, <1>2, <1>3, <2>2, <2>3, StartKeeps
<1>6. CASE PageChecks(c) \/ Refresh(c)
  <2>1. Start(Check(r)) /\ db' = db
    BY <1>3, <1>6 DEF PageChecks, Refresh
  <2> QED BY <1>1, <1>2, <1>3, <2>1, TaskTypes, StartKeeps
<1> QED BY <1>4, <1>5, <1>6 DEF Button, PageEnables, PageLeaves

LEMMA PageDisablesKeeps ==
    ASSUME GroupsInv, NEW c \in Ids, PageDisables(c)
    PROVE  GroupsInv'
<1>1. UNCHANGED <<group, notices, updates, tasks, now, said, told, astray>> /\ Known(db, c)
  BY DEF PageDisables, Rest
<1>2. PICK r \in Ids : /\ r = Resolve(db, c) /\ db.chats[r] # NoRow
                       /\ Get(db, c).present = db.chats[r].present
  BY <1>1, KnownResolved, GroupsFacts
<1>3. PICK p : p = db.chats[r].present
  OBVIOUS
<1>4. PICK decided : decided = Decisions /\ decided \in {Nothing, Decisions}
  OBVIOUS
<1>5. Writes(db, db', r, p, decided)
  BY <1>1, <1>2, <1>3, <1>4, SetStatusWrites, GroupsFacts DEF PageDisables
<1>6. TypeOK'
  <2>1. db' \in Tables
    BY <1>5 DEF Writes
  <2> QED BY <1>1, <2>1, GroupsFacts DEF TypeOK
<1>7. ~astray' => ~astray /\ AnswersTrue(tasks', group)
  BY <1>1 DEF GroupsInv
<1> QED BY <1>1, <1>2, <1>3, <1>4, <1>5, <1>6, <1>7, WriteKeeps

-----------------------------------------------------------------------------

\* Telegram's answer comes; it may be that the bot has left.
LEMMA AnswerKeeps ==
    ASSUME GroupsInv, NEW t \in tasks, Answer(t)
    PROVE  GroupsInv'
<1>1. PICK a : /\ a \in {IF t.id # group.id THEN "error" ELSE IF group.present THEN "in" ELSE "out", "error"}
               /\ tasks' = (tasks \ {t}) \cup {[t EXCEPT !.answer = a]}
               /\ IF t.kind = "leave" /\ a = "in"
                  THEN /\ group' = [group EXCEPT !.present = FALSE]
                       /\ Sends([kind |-> "gone", id |-> group.id])
                       /\ astray' = (astray \/ Answered)
                  ELSE UNCHANGED <<group, updates, astray>>
  BY DEF Answer
<1>2. /\ a \in {"error", "in", "out"} /\ (a = "in" => group.present) /\ (a = "out" => ~group.present)
      /\ t.kind \in {"check", "leave"} /\ UNCHANGED <<db, notices, now, said, told>>
      /\ t \in Task /\ Known(db, t.id) /\ t.id \in Ids
  BY <1>1, GroupsFacts DEF Answer, bounds
<1>3. PICK x : x = [t EXCEPT !.answer = a]
  OBVIOUS
<1>4. x \in Task /\ x.kind = t.kind /\ x.id = t.id /\ x.answer = a
  <2>1. a \in {"none", "error", "out", "in"}
    BY <1>2
  <2> QED BY <1>2, <1>3, <2>1, AnsweredTask
<1>5. tasks' = (tasks \ {t}) \cup {x}
  BY <1>1, <1>3
<1>6. \A y \in tasks' : Known(db, y.id) /\ y \in Task
  BY <1>2, <1>4, <1>5, GroupsFacts
<1>7. Comes(tasks) => Comes(tasks')
  BY <1>2, <1>5 DEF Comes
<1>8. CASE t.kind = "leave" /\ a = "in"
  <2>1. PICK u \in Update : u.kind = "gone" /\ u.id = group.id /\ u = [kind |-> "gone", id |-> group.id]
    BY UpdateIs, GroupsFacts
  <2>2. updates' = Append(updates, u) /\ updates' \in Seq(Update)
    <3>1. updates' = Append(updates, u)
      BY <1>1, <1>8, <2>1 DEF Sends
    <3> QED BY <3>1, AppendUpdates, GroupsFacts
  <2>3. group' = [group EXCEPT !.present = FALSE] /\ astray' = (astray \/ Answered)
    BY <1>1, <1>8
  <2>4. group' \in [id : Ids, present : BOOLEAN] /\ group'.id = group.id
    BY <2>3, GroupsFacts
  <2>5. group'.present = FALSE
    BY <2>3, GroupsFacts
  <2>6. astray' \in BOOLEAN
    BY <2>3, GroupsFacts
  <2>7. TypeOK'
    BY <1>2, <1>6, <2>2, <2>4, <2>6, GroupsFacts DEF TypeOK
  <2>8. \A y \in tasks' : y.kind = "check" /\ y.answer # "none" => y \in tasks
    BY <1>4, <1>5, <1>8
  <2>9. IsMember(u) /\ (u.kind # "gone") = group'.present
    BY <2>1, <2>5 DEF IsMember
  <2> QED BY <1>2, <1>6, <1>7, <1>8, <2>1, <2>2, <2>3, <2>4, <2>7, <2>8, <2>9, ChangeKeeps
<1>9. CASE ~(t.kind = "leave" /\ a = "in")
  <2>1. UNCHANGED <<group, updates, notices, told, astray>> /\ db' = db
    BY <1>1, <1>2, <1>9
  <2>2. TypeOK'
    BY <1>2, <1>6, <2>1, GroupsFacts DEF TypeOK
  <2>3. ~astray' => ~astray /\ AnswersTrue(tasks', group)
    <3>1. x.answer \in {"in", "out"} => (x.answer = "in") = group.present
      BY <1>2, <1>4, GroupsFacts
    <3> QED BY <1>5, <2>1, <3>1 DEF GroupsInv, AnswersTrue
  <2>4. Resolve(db, t.id) \in Ids /\ db.chats[Resolve(db, t.id)] # NoRow
    BY <1>2, KnownResolved, GroupsFacts
  <2>5. PICK r, p, decided : r \in Ids /\ db.chats[r] # NoRow /\ decided \in {Nothing, Decisions}
    BY <2>4
  <2> QED BY <1>6, <1>7, <2>1, <2>2, <2>3, <2>5, WriteKeeps
<1> QED BY <1>8, <1>9

\* The rights were checked: the membership is what Telegram said.
LEMMA CheckEndsKeeps ==
    ASSUME GroupsInv, NEW t \in tasks, CheckEnds(t)
    PROVE  GroupsInv'
<1>1. /\ t.kind = "check" /\ t.answer # "none" /\ tasks' = tasks \ {t}
      /\ db' = IF t.answer = "error" THEN db ELSE SetMembership(db, t.id, t.answer = "in")
      /\ UNCHANGED <<group, notices, updates, now, said, told, astray>>
      /\ Known(db, t.id) /\ t.id \in Ids /\ t \in Task
  BY GroupsFacts DEF CheckEnds, Ends, bounds
<1>2. PICK r \in Ids : r = Resolve(db, t.id) /\ db.chats[r] # NoRow
  BY <1>1, KnownResolved, GroupsFacts
<1>3. PICK p \in BOOLEAN : p = (t.answer = "in")
  OBVIOUS
<1>4. PICK decided : decided = Nothing /\ decided \in {Nothing, Decisions}
  OBVIOUS
<1>5. db' = db \/ Writes(db, db', r, p, decided)
  BY <1>1, <1>2, <1>3, <1>4, SetMembershipWrites, GroupsFacts
<1>6. TypeOK'
  <2>1. db' \in Tables
    BY <1>5, GroupsFacts DEF Writes
  <2> QED BY <1>1, <2>1, GroupsFacts DEF TypeOK
<1>7. ~astray' => ~astray /\ AnswersTrue(tasks', group)
  BY <1>1 DEF GroupsInv, AnswersTrue
<1>8. ~astray' => db' = db \/ p = db.chats[r].present \/ p = group.present
  <2>1. t.answer \in {"none", "error", "out", "in"}
    BY <1>1 DEF Task
  <2>2. ~astray /\ t.answer # "error" => (t.answer = "in") = group.present
    BY <1>1, <2>1 DEF GroupsInv, AnswersTrue
  <2> QED BY <1>1, <1>3, <2>2
<1>9. Comes(tasks) => Comes(tasks')
  BY <1>1 DEF Comes
<1> QED BY <1>1, <1>2, <1>4, <1>5, <1>6, <1>7, <1>8, <1>9, WriteKeeps

\* The bot was told to leave: the chat is marked as left and disabled.
LEMMA LeaveWrites ==
    ASSUME GroupsInv, NEW c \in Ids, Known(db, c), NEW p \in BOOLEAN
    PROVE  Writes(db, SetStatus(SetMembership(db, c, p), c, "disabled"), Resolve(db, c), p, Decisions)
<1>1. PICK r \in Ids : r = Resolve(db, c) /\ db.chats[r] # NoRow /\ (db.aliases[Old] = New => r # Old)
  BY KnownResolved, ResolveIs, GroupsFacts
<1>2. PICK e : e = SetMembership(db, c, p)
  OBVIOUS
<1>3. Writes(db, e, r, p, Nothing)
  BY <1>1, <1>2, SetMembershipWrites, GroupsFacts
<1>4. Whole(e)
  BY <1>1, <1>3, WritesWhole, GroupsFacts
<1>5. Resolve(e, c) = r /\ Known(e, c) /\ e.chats[r].present = p
  <2>1. e.aliases = db.aliases
    BY <1>3 DEF Writes
  <2>2. e.chats[r] # NoRow
    BY <1>3, WrittenIsThere, GroupsFacts
  <2>3. e.chats[r].present = p
    BY <1>3, WrittenPresent, GroupsFacts
  <2>4. Resolve(e, c) = r
    BY <1>1, <1>4, <2>1, ResolveIs, GroupsFacts
  <2> QED BY <2>2, <2>3, <2>4 DEF Known
<1>6. Get(e, c).present = p
  BY <1>5 DEF Get
<1>7. PICK f : f = SetStatus(e, c, "disabled")
  OBVIOUS
<1>8. Writes(e, f, r, p, Decisions)
  BY <1>4, <1>5, <1>6, <1>7, SetStatusWrites, GroupsFacts
<1>9. Writes(db, f, r, p, Decisions)
  BY <1>3, <1>4, <1>8, WritesMore, WritesThenWrites, GroupsFacts
<1> QED BY <1>1, <1>2, <1>7, <1>9

LEMMA LeaveEndsKeeps ==
    ASSUME GroupsInv, NEW t \in tasks, LeaveEnds(t)
    PROVE  GroupsInv'
<1>1. PICK c, p : c = t.id /\ p = FALSE /\ p \in BOOLEAN
  OBVIOUS
<1>2. /\ tasks' = tasks \ {t} /\ UNCHANGED <<group, notices, updates, now, said, told>>
      /\ db' = SetStatus(SetMembership(db, c, p), c, "disabled")
      /\ Known(db, c) /\ c \in Ids
  BY <1>1, GroupsFacts DEF LeaveEnds, Ends, bounds
<1>3. astray' = (astray \/ group.present)
  BY DEF LeaveEnds
<1>4. PICK r \in Ids : r = Resolve(db, c) /\ db.chats[r] # NoRow
  BY <1>2, KnownResolved, GroupsFacts
<1>5. PICK decided : decided = Decisions /\ decided \in {Nothing, Decisions}
  OBVIOUS
<1>6. Writes(db, db', r, p, decided)
  BY <1>1, <1>2, <1>4, <1>5, LeaveWrites
<1>7. TypeOK'
  <2>1. db' \in Tables
    BY <1>6 DEF Writes
  <2>2. astray' \in BOOLEAN
    BY <1>3, GroupsFacts
  <2> QED BY <1>2, <2>1, <2>2, GroupsFacts DEF TypeOK
<1>8. ~astray' => ~astray /\ AnswersTrue(tasks', group) /\ ~group.present
  BY <1>2, <1>3 DEF GroupsInv, AnswersTrue
<1>9. ~astray' => p = group.present
  BY <1>1, <1>8, GroupsFacts
<1>10. Comes(tasks) => Comes(tasks')
  <2>1. t.kind = "leave"
    BY DEF LeaveEnds
  <2> QED BY <1>2, <2>1 DEF Comes
<1>11. \A y \in tasks' : y \in tasks
  BY <1>2
<1> QED BY <1>2, <1>4, <1>5, <1>6, <1>7, <1>8, <1>9, <1>10, <1>11, WriteKeeps

\* A joining was handled: the owner is told of a chat that is not enabled.
LEMMA JoinedEndsKeeps ==
    ASSUME GroupsInv, NEW t \in tasks, JoinedEnds(t)
    PROVE  GroupsInv'
<1>1. PICK c : c = t.id
  OBVIOUS
<1>2. /\ t.kind = "joined" /\ UNCHANGED <<db, group, notices, updates, now, said, told, astray>>
      /\ Known(db, c) /\ c \in Ids
      /\ tasks' = (tasks \ {t}) \cup IF WorthTelling(Get(db, c), TRUE)
                                    THEN {[kind |-> "notify", id |-> Resolve(db, c)]} ELSE {}
  BY <1>1, GroupsFacts DEF JoinedEnds, bounds
<1>3. PICK r \in Ids : r = Resolve(db, c) /\ db.chats[r] # NoRow /\ Known(db, r)
  BY <1>2, KnownResolved, GroupsFacts
<1>4. PICK x : x = [kind |-> "notify", id |-> r]
  OBVIOUS
<1>5. x \in Task /\ x.kind = "notify" /\ x.id = r
  BY <1>4, TaskTypes
<1>6. \A y \in tasks' : y \in tasks \/ y = x
  BY <1>2, <1>3, <1>4
<1>7. TypeOK'
  BY <1>2, <1>5, <1>6, GroupsFacts DEF TypeOK
<1>8. ~astray' => ~astray /\ AnswersTrue(tasks', group)
  BY <1>2, <1>5, <1>6 DEF GroupsInv, AnswersTrue
<1>9. Undecided(db) => Comes(tasks')
  <2>1. ASSUME Undecided(db) PROVE x \in tasks'
    <3>1. Get(db, c).status = "pending"
      BY <1>3, <2>1 DEF Undecided, Get
    <3>2. WorthTelling(Get(db, c), TRUE)
      BY <3>1 DEF WorthTelling
    <3> QED BY <1>2, <1>3, <1>4, <3>2
  <2> QED BY <1>5, <2>1 DEF Comes
<1>10. \A y \in tasks' : y \in tasks \/ Known(db, y.id)
  BY <1>3, <1>5, <1>6
<1>11. PICK p, decided : decided \in {Nothing, Decisions}
  OBVIOUS
<1> QED BY <1>2, <1>3, <1>7, <1>8, <1>9, <1>10, <1>11, WriteKeeps

\* The owner's message was sent, or refused.
LEMMA NotifyEndsKeeps ==
    ASSUME GroupsInv, NEW t \in tasks, NotifyEnds(t)
    PROVE  GroupsInv'
<1>1. /\ tasks' = tasks \ {t} /\ UNCHANGED <<group, notices, updates, now, said, astray>>
      /\ Known(db, t.id) /\ t.id \in Ids
  BY GroupsFacts DEF NotifyEnds, Ends, bounds
<1>2. \/ db' = MarkNotified(db, t.id) /\ told' = IF told = "no" THEN "yes" ELSE told
      \/ told' = "missed" /\ db' = db
  BY DEF NotifyEnds
<1>3. PICK r, p : r \in Ids /\ r = Resolve(db, t.id) /\ db.chats[r] # NoRow
                          /\ p = Get(db, t.id).present /\ p = db.chats[r].present
  BY <1>1, KnownResolved, GroupsFacts
<1>4. PICK decided : decided = Nothing /\ decided \in {Nothing, Decisions}
  OBVIOUS
<1>5. db' = db \/ Writes(db, db', r, p, decided)
  <2>1. Writes(db, MarkNotified(db, t.id), Resolve(db, t.id), Get(db, t.id).present, Nothing)
    BY <1>1, MarkNotifiedWrites, GroupsFacts
  <2> QED BY <1>2, <1>3, <1>4, <2>1
<1>6. TypeOK'
  <2>1. db' \in Tables
    BY <1>5, GroupsFacts DEF Writes
  <2>2. told' \in {"no", "yes", "missed"}
    BY <1>2, GroupsFacts
  <2> QED BY <1>1, <2>1, <2>2, GroupsFacts DEF TypeOK
<1>7. ~astray' => ~astray /\ AnswersTrue(tasks', group)
  BY <1>1 DEF GroupsInv, AnswersTrue
<1>8. told' # "no" /\ (told' # "missed" => told # "missed")
  BY <1>2
<1>9. \A y \in tasks' : y \in tasks
  BY <1>1
<1> QED BY <1>1, <1>3, <1>4, <1>5, <1>6, <1>7, <1>8, <1>9, WriteKeeps

-----------------------------------------------------------------------------
(* The theorem *)

LEMMA GroupsNext ==
    ASSUME GroupsInv, [Next]_vars
    PROVE  GroupsInv'
<1>1. CASE AddBot \/ RemoveBot \/ Promote
  BY <1>1, GroupStepsKeep
<1>2. CASE Upgrade
  BY <1>2, UpgradeKeeps
<1>3. CASE Say \/ OwnerTypes("enable") \/ OwnerTypes("disable")
  BY <1>3, SayKeeps
<1>4. CASE Tick \/ UNCHANGED vars
  BY <1>4, IdleKeeps
<1>5. CASE Dispatch
  BY <1>5, DispatchKeeps
<1>6. CASE DispatchNotice \/ RefusedAsMigrated
  BY <1>6, MigrationsKeep
<1>7. CASE Crash
  BY <1>7, CrashKeeps
<1>8. ASSUME NEW c \in Ids,
             Button(c) \/ PageEnables(c) \/ PageLeaves(c) \/ PageChecks(c) \/ Refresh(c)
      PROVE  GroupsInv'
  BY <1>8, OwnerKeeps
<1>9. ASSUME NEW c \in Ids, PageDisables(c) PROVE GroupsInv'
  BY <1>9, PageDisablesKeeps
<1>10. ASSUME NEW t \in tasks, Answer(t) PROVE GroupsInv'
  BY <1>10, AnswerKeeps
<1>11. ASSUME NEW t \in tasks, CheckEnds(t) PROVE GroupsInv'
  BY <1>11, CheckEndsKeeps
<1>12. ASSUME NEW t \in tasks, LeaveEnds(t) PROVE GroupsInv'
  BY <1>12, LeaveEndsKeeps
<1>13. ASSUME NEW t \in tasks, JoinedEnds(t) PROVE GroupsInv'
  BY <1>13, JoinedEndsKeeps
<1>14. ASSUME NEW t \in tasks, NotifyEnds(t) PROVE GroupsInv'
  BY <1>14, NotifyEndsKeeps
<1> QED BY <1>1, <1>2, <1>3, <1>4, <1>5, <1>6, <1>7, <1>8, <1>9, <1>10, <1>11, <1>12, <1>13, <1>14
        DEF Next

\* At rest one row is left: the current ID's, or the old one's before its
\* upgrade is told of.
LEMMA GroupsAreSound ==
    ASSUME GroupsInv
    PROVE  GroupsSound
<1>1. OneChatPerGroup
  <2>1. ASSUME NEW c \in Ids, db.aliases[c] # None
        PROVE  db.chats[c] = NoRow /\ db.aliases[Resolve(db, c)] = None
    <3>1. c = Old /\ db.aliases[Old] = New
      BY <2>1, IdFacts, GroupsFacts DEF Whole
    <3>2. Resolve(db, c) = New
      BY <3>1, ResolveIs, GroupsFacts
    <3> QED BY <3>1, <3>2, GroupsFacts DEF Whole
  <2> QED BY <2>1, GroupsFacts DEF OneChatPerGroup, Whole
<1>2. ASSUME ~(astray /\ told = "missed"), notices = {}, NEW c \in Ids, c # group.id,
             db.chats[c] # NoRow, db.chats[group.id] # NoRow
      PROVE  FALSE
  <2>1. CASE group.id = Old
    BY <1>2, <2>1, IdFacts, GroupsFacts DEF Aligned
  <2>2. CASE group.id = New
    <3>1. db.aliases[Old] = New
      BY <1>2, <2>2 DEF GroupsInv
    <3> QED BY <1>2, <2>2, <3>1, IdFacts, GroupsFacts DEF Whole
  <2> QED BY <2>1, <2>2, IdFacts, GroupsFacts
<1>3. MembershipIsTrue
  <2>1. ASSUME Quiet, ~astray, NEW c \in Ids, db.chats[c] # NoRow
        PROVE  db.chats[c].present = group.present
    <3>1. RowIsTrue(db, updates, group) /\ updates = << >> /\ notices = {}
      BY <2>1 DEF GroupsInv, Truth, Quiet
    <3>2. NoMember(updates, Ids) /\ NoMember(updates, Leading(db, group))
      BY <3>1 DEF NoMember
    <3>3. CASE db.chats[group.id] # NoRow
      BY <1>2, <2>1, <3>1, <3>2, <3>3 DEF RowIsTrue
    <3>4. CASE db.chats[group.id] = NoRow
      BY <2>1, <3>1, <3>2, <3>4 DEF RowIsTrue
    <3> QED BY <3>3, <3>4
  <2> QED BY <2>1 DEF MembershipIsTrue
<1>4. OwnerIsTold
  <2>1. ASSUME Quiet, told # "missed", NEW c \in Ids, db.chats[c] # NoRow,
               db.chats[c].status = "pending"
        PROVE  told = "yes"
    <3>1. Undecided(db)
      <4>1. ASSUME NEW x \in Ids, db.chats[x] # NoRow PROVE x = c
        <5>1. group.id = Old => db.chats[New] = NoRow
          BY GroupsFacts DEF Aligned
        <5>2. group.id = New => db.chats[Old] = NoRow
          BY <2>1, GroupsFacts DEF GroupsInv, Quiet, Whole
        <5> QED BY <2>1, <4>1, <5>1, <5>2, IdFacts, GroupsFacts
      <4> QED BY <2>1, <4>1 DEF Undecided, NoRows
    <3>2. Telling(db, updates, group, tasks, told) /\ updates = << >> /\ tasks = {}
      BY <2>1 DEF GroupsInv, Quiet
    <3>3. told # "no"
      BY <3>1, <3>2 DEF Telling
    <3> QED BY <2>1, <3>3, GroupsFacts
  <2> QED BY <2>1 DEF OwnerIsTold
<1> QED BY <1>1, <1>3, <1>4 DEF GroupsSound, GroupsInv

\* Whatever order the upgrade's notices, the group's updates and the handlers
\* that wait come in, and wherever the process dies, a group is one chat: with
\* what is true of the bot's membership once nothing is under way, and an
\* owner who was told of it (db/chats.py, tg/access.py, tg/recorder.py).
THEOREM GroupsStaySound == Spec => []GroupsSound
<1>1. Init => GroupsInv
  BY ChatsAssumption, GroupsInit
<1>2. GroupsInv /\ [Next]_vars => GroupsInv'
  BY GroupsNext
<1>3. GroupsInv => GroupsSound
  BY GroupsAreSound
<1> QED BY <1>1, <1>2, <1>3, PTL DEF Spec

-----------------------------------------------------------------------------
(* The owner's word *)

\* What was known of a group is, unless a status is one that was decided
Follows(d, e, decided) ==
    \A c \in Ids : Known(d, c) => RowFollows(Get(d, c), Get(e, c), decided)

\* A chat's standing under the ID it was known by
StandsAs(d, e, c, owners) ==
    LET was == Get(d, c)
        is == Get(e, c)
    IN  /\ was.since # None => is.since # None /\ is.since <= was.since
        /\ was.status = "enabled" \/ was.status = "disabled" =>
              owners \/ is.status = was.status
              \/ (c = Old /\ d.chats[New] # NoRow /\ is.status = d.chats[New].status)

LEMMA FollowsOfWrite ==
    ASSUME NEW d, NEW e, NEW r \in Ids, NEW p, NEW decided, Whole(d), Whole(e),
           Writes(d, e, r, p, decided)
    PROVE  Follows(d, e, decided)
<1>1. ASSUME NEW c \in Ids, Known(d, c) PROVE RowFollows(Get(d, c), Get(e, c), decided)
  <2>1. PICK i \in Ids : i = Resolve(d, c) /\ i = Resolve(e, c)
    <3>1. e.aliases = d.aliases
      BY DEF Writes
    <3> QED BY <3>1, ResolveIs
  <2>2. CASE i = r
    <3>1. d.chats[r] # NoRow
      BY <1>1, <2>1, <2>2 DEF Known
    <3> QED BY <2>1, <2>2, <3>1, WrittenFollows DEF Get
  <2>3. CASE i # r
    <3>1. PICK is \in Chat : e.chats = [d.chats EXCEPT ![r] = is]
      BY DEF Writes
    <3>2. d.chats \in [Ids -> {NoRow} \cup Chat]
      BY TableTypes DEF Whole
    <3>3. e.chats[i] = d.chats[i]
      BY <2>3, <3>1, <3>2
    <3> QED BY <2>1, <3>3 DEF Get, RowFollows
  <2> QED BY <2>2, <2>3
<1> QED BY <1>1 DEF Follows

LEMMA FollowsItself ==
    ASSUME NEW d, NEW decided
    PROVE  Follows(d, d, decided)
BY DEF Follows, RowFollows

LEMMA StandsOfFollows ==
    ASSUME NEW d, NEW e, NEW decided, NEW owners, Whole(d), Follows(d, e, decided),
           owners \/ decided = Nothing, NEW c \in Ids, Known(d, c)
    PROVE  StandsAs(d, e, c, owners)
<1>1. PICK was, is : was \in Chat /\ was = Get(d, c) /\ is = Get(e, c)
  BY KnownChat
<1>2. RowFollows(was, is, decided)
  BY <1>1 DEF Follows
<1>3. was.since \in Nat
  BY <1>1, ChatsAssumption DEF Chat
<1>4. was.since # None => is.since # None /\ is.since <= was.since
  BY <1>2, <1>3 DEF RowFollows
<1>5. owners \/ is.status = was.status
  BY <1>2 DEF RowFollows, Nothing
<1> QED BY <1>1, <1>4, <1>5 DEF StandsAs

LEMMA StandsOfMigration ==
    ASSUME NEW d, NEW owners, Whole(d), NEW c \in Ids, Known(d, c)
    PROVE  StandsAs(d, Migrate(d, Old, New), c, owners)
<1>1. PICK e : e = Migrate(d, Old, New) /\ Whole(e) /\ e.aliases[Old] = New
               /\ e.chats[New] = MergedRow(d.chats[Old], d.chats[New])
  BY MigrateFacts
<1>2. Get(e, c) = MergedRow(d.chats[Old], d.chats[New])
  BY <1>1, ResolveIs DEF Get
<1>3. PICK was, is : was \in Chat /\ was = Get(d, c) /\ is = Get(e, c)
  BY KnownChat
<1>4. was.since \in Nat
  BY <1>3, ChatsAssumption DEF Chat
<1>5. CASE is = was
  <2>1. was.since # None => is.since # None /\ is.since <= was.since
    BY <1>4, <1>5
  <2> QED BY <1>1, <1>3, <1>5, <2>1 DEF StandsAs
<1>6. CASE d.chats[Old] # NoRow /\ d.chats[New] # NoRow
  <2>1. PICK old \in Chat, new \in Chat : old = d.chats[Old] /\ new = d.chats[New]
    BY <1>6, TableTypes, IdFacts DEF Whole
  <2>2. is = Merged(old, new)
    BY <1>2, <1>3, <1>6, <2>1 DEF MergedRow
  <2>3. Resolve(d, c) = c
    BY <1>6, ResolveIs DEF Whole
  <2>4. (c = Old /\ was = old) \/ (c = New /\ was = new)
    BY <1>3, <2>1, <2>3, IdFacts DEF Get
  <2>5. /\ is.status = IF new.status = "pending" THEN old.status ELSE new.status
        /\ is.since = IF new.since = None \/ (old.since # None /\ old.since < new.since)
                      THEN old.since ELSE new.since
    BY <2>2, MergedFacts
  <2>6. old.since \in Nat /\ new.since \in Nat
    BY ChatsAssumption DEF Chat
  <2>7. was.since # None => is.since # None /\ is.since <= was.since
    BY <2>4, <2>5, <2>6 DEF None
  <2>8. was.status = "enabled" \/ was.status = "disabled" =>
           is.status = was.status \/ (c = Old /\ d.chats[New] # NoRow /\ is.status = d.chats[New].status)
    BY <1>6, <2>1, <2>4, <2>5
  <2> QED BY <1>1, <1>3, <2>7, <2>8 DEF StandsAs
<1>7. CASE d.chats[Old] = NoRow \/ d.chats[New] = NoRow
  <2>1. was = d.chats[Resolve(d, c)] /\ d.chats[Resolve(d, c)] # NoRow
    BY <1>3 DEF Get, Known
  <2>2. Resolve(d, c) \in Ids
    BY ResolveIs
  <2>3. is = was
    BY <1>2, <1>3, <1>7, <2>1, <2>2, IdFacts DEF MergedRow
  <2> QED BY <1>5, <2>3
<1> QED BY <1>6, <1>7

LEMMA ActedGrows ==
    ASSUME acted \in Nat, [Next]_vars
    PROVE  acted' \in Nat
<1>1. acted' = acted \/ acted' = acted + 1
  BY DEF Next, vars, bounds, AddBot, RemoveBot, Promote, GroupChanges, Upgrade, Say, Tick, OwnerTypes,
         Dispatch, DispatchNotice, RefusedAsMigrated, Crash, Button, PageEnables, PageDisables,
         PageLeaves, PageChecks, Refresh, OwnerActs, Answer, CheckEnds, LeaveEnds, JoinedEnds, NotifyEnds
<1> QED BY <1>1

\* A step that changes the tables: by the owner, or without a decision
LEMMA StepFollows ==
    ASSUME GroupsInv, acted \in Nat, Next
    PROVE  \/ \E decided : Follows(db, db', decided) /\ (OwnersStep \/ decided = Nothing)
           \/ db' = Migrate(db, Old, New)
<1>1. CASE db' = db
  BY <1>1, FollowsItself
<1>2. ASSUME NEW r \in Ids, NEW p, NEW decided, decided \in {Nothing, Decisions},
             db.chats[r] # NoRow, Writes(db, db', r, p, decided)
      PROVE  Follows(db, db', decided)
  <2>1. db.aliases[Old] = New => r # Old
    BY <1>2, GroupsFacts DEF Whole
  <2>2. Whole(db')
    BY <1>2, <2>1, WritesWhole, GroupsFacts
  <2> QED BY <1>2, <2>2, FollowsOfWrite, GroupsFacts
<1>3. ASSUME NEW c \in Ids, Known(db, c), NEW status \in {"enabled", "disabled"},
             db' = SetStatus(db, c, status)
      PROVE  Follows(db, db', Decisions)
  <2>1. PICK r \in Ids : r = Resolve(db, c) /\ db.chats[r] # NoRow
    BY <1>3, KnownResolved, GroupsFacts
  <2>2. Writes(db, db', r, Get(db, c).present, Decisions)
    BY <1>3, <2>1, SetStatusWrites, GroupsFacts
  <2> QED BY <1>2, <2>1, <2>2
<1>4. ASSUME updates # << >>, db' = Handled(db, Head(updates)).db
      PROVE  \E decided : Follows(db, db', decided) /\ (OwnersStep \/ decided = Nothing)
  <2>1. PICK u : u = Head(updates)
    OBVIOUS
  <2>2. PICK r, decided : r \in Ids /\ r = Resolve(db, u.id) /\ decided = Decides(u)
    BY <1>4, <2>1, FirstHandled
  <2>3. Writes(db, db', r, Tells(db, u), decided) /\ Whole(db')
    BY <1>4, <2>1, <2>2, FirstHandled
  <2>4. Follows(db, db', decided)
    BY <2>2, <2>3, FollowsOfWrite, GroupsFacts
  <2>5. OwnersStep \/ decided = Nothing
    BY <1>4, <2>1, <2>2 DEF OwnersStep, Decides
  <2> QED BY <2>4, <2>5
<1>5. CASE Dispatch
  BY <1>4, <1>5 DEF Dispatch
<1>6. ASSUME NEW kind \in notices
      PROVE  Handled(db, [kind |-> kind]).db = Migrate(db, Old, New)
  BY <1>6, GroupsFacts DEF Handled
<1>7. CASE DispatchNotice \/ RefusedAsMigrated
  BY <1>6, <1>7 DEF DispatchNotice, RefusedAsMigrated
<1>15. CASE Crash
  <2>1. CASE db' = db
    BY <1>1, <2>1
  <2>2. CASE updates # << >> /\ db' = Handled(db, Head(updates)).db
    BY <1>4, <2>2
  <2>3. CASE \E kind \in notices : db' = Handled(db, [kind |-> kind]).db
    BY <1>6, <2>3
  <2> QED BY <1>15, <2>1, <2>2, <2>3 DEF Crash
<1>8. ASSUME NEW c \in Ids,
             Button(c) \/ PageEnables(c) \/ PageDisables(c) \/ PageLeaves(c) \/ PageChecks(c)
      PROVE  \E decided : Follows(db, db', decided) /\ (OwnersStep \/ decided = Nothing)
  <2>1. acted' # acted
    BY <1>8 DEF Button, PageEnables, PageDisables, PageLeaves, PageChecks, OwnerActs
  <2>2. \/ db' = db
        \/ Known(db, c) /\ \E status \in {"enabled", "disabled"} : db' = SetStatus(db, c, status)
    BY <1>8 DEF Button, PageEnables, PageDisables, PageLeaves, PageChecks, EnableChat, LeaveChat
  <2>3. \E decided : Follows(db, db', decided)
    BY <1>3, <2>2, FollowsItself
  <2> QED BY <2>1, <2>3 DEF OwnersStep
<1>9. ASSUME NEW t \in tasks, CheckEnds(t)
      PROVE  Follows(db, db', Nothing)
  <2>1. PICK p \in BOOLEAN : p = (t.answer = "in")
    OBVIOUS
  <2>2. db' = db \/ db' = SetMembership(db, t.id, p)
    BY <1>9, <2>1 DEF CheckEnds
  <2>3. PICK r \in Ids : r = Resolve(db, t.id) /\ db.chats[r] # NoRow
    BY KnownResolved, GroupsFacts
  <2>4. db' = db \/ Writes(db, db', r, p, Nothing)
    BY <2>2, <2>3, SetMembershipWrites, GroupsFacts
  <2> QED BY <1>2, <2>3, <2>4, FollowsItself
<1>10. ASSUME NEW t \in tasks, LeaveEnds(t)
       PROVE  Follows(db, db', Decisions) /\ OwnersStep
  <2>1. PICK p : p = FALSE /\ p \in BOOLEAN
    OBVIOUS
  <2>2. PICK r \in Ids : r = Resolve(db, t.id) /\ db.chats[r] # NoRow
    BY KnownResolved, GroupsFacts
  <2>3. db' = SetStatus(SetMembership(db, t.id, p), t.id, "disabled")
    BY <1>10, <2>1 DEF LeaveEnds
  <2>4. Writes(db, db', r, p, Decisions)
    BY <2>1, <2>2, <2>3, LeaveWrites, GroupsFacts
  <2> QED BY <1>2, <1>10, <2>2, <2>4 DEF OwnersStep
<1>11. ASSUME NEW t \in tasks, NotifyEnds(t)
       PROVE  Follows(db, db', Nothing)
  <2>1. db' = db \/ db' = MarkNotified(db, t.id)
    BY <1>11 DEF NotifyEnds
  <2>2. PICK r, p : r \in Ids /\ r = Resolve(db, t.id) /\ db.chats[r] # NoRow /\ p = Get(db, t.id).present
    BY KnownResolved, GroupsFacts
  <2>3. db' = db \/ Writes(db, db', r, p, Nothing)
    BY <2>1, <2>2, MarkNotifiedWrites, GroupsFacts
  <2> QED BY <1>2, <2>2, <2>3, FollowsItself
<1>12. ASSUME NEW t \in tasks, Answer(t) \/ JoinedEnds(t) PROVE db' = db
  BY <1>12 DEF Answer, JoinedEnds
<1>13. ASSUME NEW c \in Ids, Refresh(c) PROVE db' = db
  BY <1>13 DEF Refresh
<1>14. ASSUME AddBot \/ RemoveBot \/ Promote \/ Upgrade \/ Say \/ Tick
              \/ OwnerTypes("enable") \/ OwnerTypes("disable")
       PROVE  db' = db
  BY <1>14 DEF AddBot, RemoveBot, Promote, GroupChanges, Upgrade, Say, Tick, OwnerTypes
<1> QED BY <1>1, <1>5, <1>7, <1>8, <1>9, <1>10, <1>11, <1>12, <1>13, <1>14, <1>15 DEF Next

\* No step but the owner's takes back what they decided about a group, and
\* none the moment its recording began: a group that was upgraded keeps the
\* earlier of two, and the decision under either ID (db/chats.py migrate,
\* set_status).
THEOREM OwnersWordStands == Spec => StandingKept
<1> DEFINE Counted == GroupsInv /\ acted \in Nat
<1>1. Init => Counted
  <2>1. Init => GroupsInv
    BY ChatsAssumption, GroupsInit
  <2>2. Init => acted \in Nat
    BY DEF Init
  <2> QED BY <2>1, <2>2
<1>2. Counted /\ [Next]_vars => Counted'
  BY GroupsNext, ActedGrows
<1>3. Counted /\ Next =>
         \A c \in Ids : Known(db, c) =>
            LET was == Get(db, c)
                is == Get(db', c)
            IN  /\ was.since # None => is.since # None /\ is.since <= was.since
                /\ was.status = "enabled" \/ was.status = "disabled" =>
                      OwnersStep \/ is.status = was.status
                      \/ (c = Old /\ db.chats[New] # NoRow /\ is.status = db.chats[New].status)
  <2> SUFFICES ASSUME Counted, Next, NEW c \in Ids, Known(db, c)
               PROVE  StandsAs(db, db', c, OwnersStep)
    BY DEF StandsAs
  <2>1. PICK owners \in BOOLEAN : owners = OwnersStep
    BY DEF OwnersStep
  <2>2. StandsAs(db, db', c, owners)
    BY <2>1, StepFollows, StandsOfFollows, StandsOfMigration, GroupsFacts
  <2> QED BY <2>1, <2>2
<1> QED BY <1>1, <1>2, <1>3, PTL DEF Spec, StandingKept

-----------------------------------------------------------------------------
(* The board: the invariant *)

\* The board's messages are numbered as they were sent, there is room for those
\* that are to come, and nothing names one that was not sent.
NamesSent(t) ==
    /\ t.board.message \in 0 .. Sent /\ t.id \in 0 .. Sent
    /\ t.step \in {"edit", "unpin", "clear"} => t.board.message # NoMessage
    /\ t.step \in {"pin", "unpin"} => t.id # NoMessage
MessagesCount ==
    /\ Sent \in Nat /\ messages \in [1 .. Sent -> BoardMessage]
    /\ IsFiniteSet(publishing)
    /\ Sent + Pending <= MaxBoards
    /\ row # NoBoard => row.message \in 0 .. Sent
    /\ \A t \in publishing : NamesSent(t)

\* One publication is under way, of a board that is there.
OneAtATime ==
    /\ \A t, u \in publishing : t = u
    /\ row = NoBoard => publishing = {}

\* What should be pinned: the message the board is kept in, and the one that
\* is about to take its place.
Kept == IF row = NoBoard THEN {} ELSE {row.message} \ {NoMessage}
Successors == {t.id : t \in {u \in publishing : u.step = "unpin"}}
PinsAreKept ==
    /\ row # NoBoard => (row.pinned <=> row.message # NoMessage)
    /\ \A m \in DOMAIN messages :
          messages[m].pinned <=> (m \in Kept \cup Successors /\ ~messages[m].gone)

\* What a publication knows of the board is still so, and what it has sent is
\* the board.
Carries(t) ==
    /\ t.board.message = row.message /\ t.board.pinned = row.pinned
    /\ ~unshown /\ t.step # "clear" => Shown(t.board) = Shown(row)
    /\ t.step \in {"pin", "unpin"} =>
          /\ t.id # row.message
          /\ messages[t.id].shows = Shown(t.board)
          /\ ~unshown => ~messages[t.id].gone
Settled ==
    publishing = {} /\ row # NoBoard /\ ~unshown =>
        /\ row.message # NoMessage
        /\ ~messages[row.message].gone /\ messages[row.message].shows = Shown(row)

Ordered == OneAtATime /\ PinsAreKept /\ Settled /\ \A t \in publishing : Carries(t)

BoardInv ==
    /\ BoardTypeOK /\ TitleFitsPlans /\ MessagesCount
    /\ ~overlapped /\ ~refused => Ordered

-----------------------------------------------------------------------------
(* Rows, messages and counts *)

RowOK(r) == r = NoBoard \/ (r \in Row /\ BoardChars(r.items, r.title) <= MaxChars)

LEMMA NoBoardIsNoRow == NoBoard \notin Row /\ NoBoard \notin Content
<1>1. DOMAIN NoBoard = {}
  BY DEF NoBoard
<1>2. (\A r \in Row : "items" \in DOMAIN r) /\ \A r \in Content : "items" \in DOMAIN r
  BY DEF Row, Content
<1> QED BY <1>1, <1>2

LEMMA GetBoardTypes ==
    ASSUME RowOK(row)
    PROVE  /\ GetBoard \in Row
           /\ row # NoBoard => GetBoard = row /\ row \in Row
           /\ row = NoBoard => /\ GetBoard.message = NoMessage /\ GetBoard.pinned = FALSE
                               /\ GetBoard.items = NoItems /\ GetBoard.title = ""
<1>1. CASE row = NoBoard
  <2>1. GetBoard = [items |-> NoItems, title |-> "", message |-> NoMessage, pinned |-> FALSE]
    BY <1>1 DEF GetBoard
  <2>2. NoItems \in Items /\ "" \in Titles /\ NoMessage \in 0 .. MaxBoards
    BY BoardAssumption DEF NoItems, Items, Titles, NoMessage
  <2> QED BY <1>1, <2>1, <2>2 DEF Row
<1>2. CASE row # NoBoard
  BY <1>2 DEF GetBoard, RowOK
<1> QED BY <1>1, <1>2

LEMMA SetMessageEffect ==
    ASSUME RowOK(row), TitleFitsPlans, NEW id \in 0 .. MaxBoards, NEW pinned \in BOOLEAN,
           SetMessage(id, pinned), titled' = titled
    PROVE  /\ RowOK(row') /\ TitleFitsPlans'
           /\ row = NoBoard => row' = NoBoard
           /\ row # NoBoard => /\ row' # NoBoard /\ row' \in Row
                               /\ row'.items = row.items /\ row'.title = row.title
                               /\ row'.message = id /\ row'.pinned = pinned
<1>1. CASE row = NoBoard
  BY <1>1 DEF SetMessage, TitleFitsPlans, RowOK
<1>2. CASE row # NoBoard
  <2>1. row' = [row EXCEPT !.message = id, !.pinned = pinned] /\ row \in Row
    BY <1>2 DEF SetMessage, RowOK
  <2>2. /\ row' \in Row /\ row'.items = row.items /\ row'.title = row.title
        /\ row'.message = id /\ row'.pinned = pinned
    BY <2>1 DEF Row
  <2>3. RowOK(row')
    BY <1>2, <2>2 DEF RowOK
  <2>4. TitleFitsPlans'
    BY <1>2, <2>2 DEF TitleFitsPlans
  <2> QED BY <1>2, <2>2, <2>3, <2>4, NoBoardIsNoRow
<1> QED BY <1>1, <1>2

LEMMA SetSectionsEffect ==
    ASSUME RowOK(row), TitleFitsPlans, NEW items \in Items, NEW title \in Titles, NEW given \in BOOLEAN,
           SetSections(items, title, given), titled \subseteq Plans
    PROVE  /\ RowOK(row') /\ TitleFitsPlans' /\ titled' \subseteq Plans
           /\ row' # NoBoard /\ row' \in Row
           /\ row' = [GetBoard EXCEPT !.items = items, !.title = TitleFor(items, title, given)]
           /\ row'.items = items /\ row'.title = TitleFor(items, title, given)
           /\ row'.message = GetBoard.message /\ row'.pinned = GetBoard.pinned
<1>1. PICK name : name = TitleFor(items, title, given)
  OBVIOUS
<1>2. GetBoard \in Row /\ GetBoard.title \in Titles
  BY GetBoardTypes DEF Row
<1>3. name \in Titles
  BY <1>1, <1>2 DEF TitleFor, Titles
<1>4. /\ FitsBoard(items, name) /\ row' = [GetBoard EXCEPT !.items = items, !.title = name]
      /\ titled' = IF given THEN items.plans ELSE titled
  BY <1>1 DEF SetSections
<1>5. /\ row' \in Row /\ row'.items = items /\ row'.title = name
      /\ row'.message = GetBoard.message /\ row'.pinned = GetBoard.pinned
  BY <1>2, <1>3, <1>4 DEF Row
<1>6. RowOK(row')
  BY <1>4, <1>5 DEF RowOK, FitsBoard
<1>7. items.plans \subseteq Plans
  BY DEF Items
<1>8. TitleFitsPlans'
  <2> SUFFICES ASSUME name # "" PROVE items.plans = titled'
    BY <1>5 DEF TitleFitsPlans
  <2>1. CASE given
    BY <1>4, <2>1
  <2>2. CASE ~given
    <3>1. items.plans = GetBoard.items.plans /\ name = GetBoard.title
      BY <1>1, <2>2 DEF TitleFor
    <3>2. row # NoBoard /\ GetBoard = row
      BY <3>1, GetBoardTypes
    <3> QED BY <1>4, <2>2, <3>1, <3>2 DEF TitleFitsPlans
  <2> QED BY <2>1, <2>2
<1> QED BY <1>1, <1>4, <1>5, <1>6, <1>7, <1>8, NoBoardIsNoRow

\* The publications that will send, and how their number changes
Sending == {"edit", "send", "html"}
WritingOf(P) == {t \in P : t.step \in Sending}

LEMMA PendingIs ==
    /\ Pending = Cardinality(WritingOf(publishing))
    /\ Pending' = Cardinality(WritingOf(publishing'))
BY DEF Pending, WritingOf, Sending

LEMMA WritingIsFinite ==
    ASSUME NEW P, IsFiniteSet(P)
    PROVE  IsFiniteSet(WritingOf(P)) /\ Cardinality(WritingOf(P)) \in Nat
<1>1. WritingOf(P) \in SUBSET P
  BY DEF WritingOf
<1> QED BY <1>1, FS_Subset, FS_CardinalityType

LEMMA FewerWrite ==
    ASSUME NEW P, NEW Q, IsFiniteSet(P), WritingOf(Q) \subseteq WritingOf(P)
    PROVE  Cardinality(WritingOf(Q)) \in Nat /\ Cardinality(WritingOf(Q)) <= Cardinality(WritingOf(P))
BY WritingIsFinite, FS_Subset, FS_CardinalityType

LEMMA OneWritesLess ==
    ASSUME NEW P, NEW Q, NEW t, IsFiniteSet(P), t \in WritingOf(P),
           WritingOf(Q) \subseteq WritingOf(P) \ {t}
    PROVE  /\ Cardinality(WritingOf(Q)) \in Nat
           /\ Cardinality(WritingOf(Q)) + 1 <= Cardinality(WritingOf(P))
<1>1. PICK W, V : W = WritingOf(P) /\ V = WritingOf(Q)
  OBVIOUS
<1>2. IsFiniteSet(W) /\ Cardinality(W) \in Nat
  BY <1>1, WritingIsFinite
<1>3. IsFiniteSet(W \ {t}) /\ Cardinality(W \ {t}) = Cardinality(W) - 1
  BY <1>1, <1>2, FS_RemoveElement
<1>4. Cardinality(V) \in Nat /\ Cardinality(V) <= Cardinality(W \ {t})
  BY <1>1, <1>3, FS_Subset, FS_CardinalityType
<1> QED BY <1>1, <1>2, <1>3, <1>4

LEMMA OneWritesMore ==
    ASSUME NEW P, NEW Q, NEW t, IsFiniteSet(P), WritingOf(Q) \subseteq WritingOf(P) \cup {t}
    PROVE  /\ Cardinality(WritingOf(Q)) \in Nat
           /\ Cardinality(WritingOf(Q)) <= Cardinality(WritingOf(P)) + 1
<1>1. PICK W, V : W = WritingOf(P) /\ V = WritingOf(Q)
  OBVIOUS
<1>2. IsFiniteSet(W) /\ Cardinality(W) \in Nat
  BY <1>1, WritingIsFinite
<1>3. IsFiniteSet(W \cup {t}) /\ Cardinality(W \cup {t}) <= Cardinality(W) + 1
  BY <1>2, FS_AddElement
<1>4. Cardinality(V) \in Nat /\ Cardinality(V) <= Cardinality(W \cup {t})
  BY <1>1, <1>3, FS_Subset, FS_CardinalityType
<1>5. Cardinality(W \cup {t}) \in Nat
  BY <1>3, FS_CardinalityType
<1> QED BY <1>1, <1>2, <1>3, <1>4, <1>5

LEMMA BoardParts ==
    ASSUME BoardInv
    PROVE  /\ RowOK(row) /\ TitleFitsPlans
           /\ Sent \in Nat /\ messages \in [1 .. Sent -> BoardMessage] /\ DOMAIN messages = 1 .. Sent
           /\ publishing \in SUBSET Publishing /\ IsFiniteSet(publishing)
           /\ Pending \in Nat /\ MaxBoards \in Nat /\ Sent + Pending <= MaxBoards
           /\ row # NoBoard => row.message \in 0 .. Sent
           /\ \A t \in publishing : t \in Publishing /\ t.board \in Row /\ NamesSent(t)
           /\ form = NoBoard \/ form \in Content
           /\ changes \in 0 .. MaxChanges /\ titled \subseteq Plans
           /\ unshown \in BOOLEAN /\ overlapped \in BOOLEAN /\ refused \in BOOLEAN
           /\ ~overlapped /\ ~refused => Ordered
<1>1. RowOK(row)
  BY DEF BoardInv, BoardTypeOK, RowOK
<1>2. Pending \in Nat
  BY WritingIsFinite, PendingIs DEF BoardInv, MessagesCount
<1>3. \A t \in publishing : t \in Publishing /\ t.board \in Row
  BY DEF BoardInv, BoardTypeOK, Publishing
<1>4. MaxBoards \in Nat
  BY BoardAssumption
<1> QED BY <1>1, <1>2, <1>3, <1>4 DEF BoardInv, BoardTypeOK, MessagesCount

\* What has to be shown of a step: types, counts and, while nothing went wrong,
\* order.
LEMMA BoardStep ==
    ASSUME RowOK(row)', TitleFitsPlans', Sent' \in Nat, messages' \in [1 .. Sent' -> BoardMessage],
           publishing' \in SUBSET Publishing, IsFiniteSet(publishing'),
           Sent' + Pending' <= MaxBoards,
           row' # NoBoard => row'.message \in 0 .. Sent',
           \A t \in publishing' : NamesSent(t)',
           form' = NoBoard \/ form' \in Content,
           changes' \in 0 .. MaxChanges, titled' \subseteq Plans,
           unshown' \in BOOLEAN, overlapped' \in BOOLEAN, refused' \in BOOLEAN,
           ~overlapped' /\ ~refused' => Ordered'
    PROVE  BoardInv'
<1>1. BoardTypeOK'
  BY DEF BoardTypeOK, RowOK
<1>2. MessagesCount'
  BY DEF MessagesCount
<1> QED BY <1>1, <1>2 DEF BoardInv

LEMMA MessageWritten ==
    ASSUME Sent \in Nat, messages \in [1 .. Sent -> BoardMessage],
           NEW m \in 1 .. Sent, NEW is \in BoardMessage, messages' = [messages EXCEPT ![m] = is]
    PROVE  /\ Sent' = Sent /\ messages' \in [1 .. Sent -> BoardMessage]
           /\ messages'[m] = is /\ \A k \in 1 .. Sent : k # m => messages'[k] = messages[k]
<1>1. DOMAIN messages' = DOMAIN messages
  OBVIOUS
<1> QED BY <1>1 DEF Sent

LEMMA MessageAppears ==
    ASSUME Sent \in Nat, messages \in [1 .. Sent -> BoardMessage], NEW board \in Row, Appear(board)
    PROVE  /\ Sent' = Sent + 1 /\ messages' \in [1 .. Sent + 1 -> BoardMessage]
           /\ messages'[Sent + 1].shows = Shown(board)
           /\ ~messages'[Sent + 1].pinned /\ ~messages'[Sent + 1].gone
           /\ \A k \in 1 .. Sent : messages'[k] = messages[k]
<1>1. PICK n : n = Sent
  OBVIOUS
<1>2. PICK is : is = [shows |-> Shown(board), pinned |-> FALSE, gone |-> FALSE]
  OBVIOUS
<1>3. is \in BoardMessage
  BY <1>2 DEF BoardMessage, Shown, Content, Row
<1>4. messages' = [m \in 1 .. n + 1 |-> IF m <= n THEN messages[m] ELSE is]
  BY <1>1, <1>2 DEF Appear
<1>5. DOMAIN messages' = 1 .. n + 1 /\ n + 1 \in Nat /\ n \in Nat
  BY <1>1, <1>4
<1>6. Sent' = n + 1
  <2>1. Cardinality(1 .. n + 1) = n + 1
    BY <1>5, FS_Interval
  <2> QED BY <1>5, <2>1 DEF Sent
<1>7. \A k \in 1 .. n : messages'[k] = messages[k]
  BY <1>4, <1>5
<1>8. messages'[n + 1] = is
  BY <1>4, <1>5
<1>9. \A k \in 1 .. n + 1 : messages'[k] \in BoardMessage
  <2>1. \A k \in 1 .. n + 1 : k \in 1 .. n \/ k = n + 1
    BY <1>5
  <2> QED BY <1>1, <1>3, <1>7, <1>8, <2>1
<1>10. messages' \in [1 .. n + 1 -> BoardMessage]
  BY <1>4, <1>5, <1>9
<1> QED BY <1>1, <1>2, <1>6, <1>7, <1>8, <1>10

LEMMA Alone ==
    ASSUME OneAtATime, NEW t \in publishing
    PROVE  /\ publishing = {t} /\ row # NoBoard
           /\ Successors = IF t.step = "unpin" THEN {t.id} ELSE {}
           /\ \A u : (publishing \ {t}) \cup {u} = {u}
           /\ publishing \ {t} = {}
<1>1. publishing = {t} /\ row # NoBoard
  BY DEF OneAtATime
<1> QED BY <1>1 DEF Successors

\* While a publication goes on to another step, it keeps what it knows.
LEMMA GoesTypes ==
    ASSUME NEW t \in Publishing,
           NEW step \in {"edit", "send", "html", "pin", "unpin", "clear"}, NEW id \in 0 .. MaxBoards
    PROVE  /\ [t EXCEPT !.step = step] \in Publishing
           /\ [t EXCEPT !.step = step].step = step /\ [t EXCEPT !.step = step].board = t.board
           /\ [t EXCEPT !.step = step].id = t.id
           /\ [t EXCEPT !.step = step, !.id = id] \in Publishing
           /\ [t EXCEPT !.step = step, !.id = id].step = step
           /\ [t EXCEPT !.step = step, !.id = id].board = t.board
           /\ [t EXCEPT !.step = step, !.id = id].id = id
BY DEF Publishing

LEMMA FiniteChanges ==
    ASSUME NEW P, IsFiniteSet(P), NEW t, NEW u
    PROVE  /\ IsFiniteSet(P \ {t}) /\ IsFiniteSet((P \ {t}) \cup {u}) /\ IsFiniteSet(P \cup {u})
BY FS_RemoveElement, FS_AddElement

-----------------------------------------------------------------------------
(* The steps of a publication *)

\* What a step keeps whose messages and row keep their number.
LEMMA NamesStay ==
    ASSUME NEW t, NamesSent(t), Sent \in Nat, Sent' \in Nat, Sent <= Sent'
    PROVE  NamesSent(t)'
BY DEF NamesSent

LEMMA RoomStays ==
    ASSUME NEW s \in Nat, NEW p \in Nat, NEW q \in Nat, NEW r, NEW max \in Nat,
           s + p <= max, q <= p, r = s
    PROVE  r + q <= max
OBVIOUS

\* A publication that is over takes nobody's place.
LEMMA OverCounts ==
    ASSUME BoardInv, NEW t \in publishing, Over(t), Sent' = Sent
    PROVE  /\ publishing' \in SUBSET Publishing /\ IsFiniteSet(publishing')
           /\ Sent' + Pending' <= MaxBoards
           /\ \A u \in publishing' : NamesSent(u)'
<1>1. publishing' = publishing \ {t}
  BY DEF Over
<1>2. /\ publishing \in SUBSET Publishing /\ IsFiniteSet(publishing) /\ Sent \in Nat /\ Pending \in Nat
      /\ Sent + Pending <= MaxBoards /\ MaxBoards \in Nat
      /\ \A u \in publishing : NamesSent(u)
  BY BoardParts
<1>3. IsFiniteSet(publishing')
  BY <1>1, <1>2, FiniteChanges
<1>4. Pending' \in Nat /\ Pending' <= Pending
  <2>1. WritingOf(publishing') \subseteq WritingOf(publishing)
    BY <1>1 DEF WritingOf
  <2> QED BY <2>1, <1>2, FewerWrite, PendingIs
<1>5. \A u \in publishing' : NamesSent(u)'
  BY <1>1, <1>2, NamesStay
<1>6. publishing' \in SUBSET Publishing
  BY <1>1, <1>2
<1>7. Sent' + Pending' <= MaxBoards
  BY <1>2, <1>4, RoomStays
<1> QED BY <1>3, <1>5, <1>6, <1>7, Zenon

\* One that goes on takes its own.
LEMMA GoesCounts ==
    ASSUME BoardInv, NEW t \in publishing, NEW u \in Publishing,
           publishing' = (publishing \ {t}) \cup {u}, Sent' = Sent, NamesSent(u)',
           u.step \in Sending => t.step \in Sending
    PROVE  /\ publishing' \in SUBSET Publishing /\ IsFiniteSet(publishing')
           /\ Sent' + Pending' <= MaxBoards
           /\ \A x \in publishing' : NamesSent(x)'
<1>2. /\ publishing \in SUBSET Publishing /\ IsFiniteSet(publishing) /\ Sent \in Nat /\ Pending \in Nat
      /\ Sent + Pending <= MaxBoards /\ MaxBoards \in Nat
      /\ \A x \in publishing : NamesSent(x)
  BY BoardParts
<1>3. IsFiniteSet(publishing')
  BY <1>2, FiniteChanges
<1>4. Pending' \in Nat /\ Pending' <= Pending
  <2>1. CASE u.step \notin Sending
    <3>1. WritingOf(publishing') \subseteq WritingOf(publishing)
      BY <2>1 DEF WritingOf
    <3> QED BY <3>1, <1>2, FewerWrite, PendingIs
  <2>2. CASE u.step \in Sending
    <3>1. t \in WritingOf(publishing)
      BY <2>2 DEF WritingOf
    <3>2. /\ WritingOf(publishing \ {t}) \subseteq WritingOf(publishing) \ {t}
          /\ WritingOf(publishing') \subseteq WritingOf(publishing \ {t}) \cup {u}
      BY DEF WritingOf
    <3>3. PICK P, Q, R : P = publishing /\ Q = publishing \ {t} /\ R = publishing'
      OBVIOUS
    <3>4. IsFiniteSet(P) /\ IsFiniteSet(Q)
      BY <1>2, <3>3, FiniteChanges
    <3>5. /\ Cardinality(WritingOf(Q)) \in Nat
          /\ Cardinality(WritingOf(Q)) + 1 <= Cardinality(WritingOf(P))
      BY <3>1, <3>2, <3>3, <3>4, OneWritesLess
    <3>6. /\ Cardinality(WritingOf(R)) \in Nat
          /\ Cardinality(WritingOf(R)) <= Cardinality(WritingOf(Q)) + 1
      BY <3>2, <3>3, <3>4, OneWritesMore
    <3>7. Pending = Cardinality(WritingOf(P)) /\ Pending' = Cardinality(WritingOf(R))
      BY <3>3, PendingIs
    <3> QED BY <1>2, <3>5, <3>6, <3>7
  <2> QED BY <2>1, <2>2
<1>5. \A x \in publishing' : NamesSent(x)'
  BY <1>2, NamesStay
<1>6. publishing' \in SUBSET Publishing
  BY <1>2
<1>7. Sent' + Pending' <= MaxBoards
  BY <1>2, <1>4, RoomStays
<1> QED BY <1>3, <1>5, <1>6, <1>7, Zenon

LEMMA StatusTypes ==
    ASSUME BoardInv, Others
    PROVE  /\ form' = NoBoard \/ form' \in Content
           /\ changes' \in 0 .. MaxChanges /\ titled' \subseteq Plans /\ titled' = titled
           /\ unshown' \in BOOLEAN /\ overlapped' \in BOOLEAN
           /\ unshown' = unshown /\ overlapped' = overlapped
BY BoardParts DEF Others

LEMMA SameMessages ==
    ASSUME BoardInv, UNCHANGED messages
    PROVE  Sent' = Sent /\ Sent' \in Nat /\ messages' \in [1 .. Sent' -> BoardMessage]
<1>1. Sent' = Sent
  BY DEF Sent
<1> QED BY <1>1, BoardParts

\* A step that leaves the row and the messages alone, and goes on or is over
LEMMA SameRow ==
    ASSUME BoardInv, UNCHANGED row, titled' = titled, Sent' = Sent
    PROVE  RowOK(row)' /\ TitleFitsPlans' /\ (row' # NoBoard => row'.message \in 0 .. Sent')
<1>1. RowOK(row')
  BY BoardParts
<1>2. TitleFitsPlans'
  BY BoardParts DEF TitleFitsPlans
<1> QED BY <1>1, <1>2, BoardParts DEF RowOK

LEMMA EditDone ==
    ASSUME BoardInv, NEW t \in publishing, NEW m, m = t.board.message, t.step = "edit",
           ~messages[m].gone, messages' = [messages EXCEPT ![m].shows = Shown(t.board)],
           SetMessage(m, t.board.pinned), Over(t), UNCHANGED refused, Others
    PROVE  BoardInv'
<1>1. /\ t \in Publishing /\ t.board \in Row /\ m \in 1 .. Sent /\ Sent \in Nat
      /\ messages \in [1 .. Sent -> BoardMessage] /\ RowOK(row) /\ TitleFitsPlans
      /\ m \in 0 .. MaxBoards /\ t.board.pinned \in BOOLEAN
  <2>1. /\ t \in Publishing /\ t.board \in Row /\ NamesSent(t) /\ Sent \in Nat
        /\ messages \in [1 .. Sent -> BoardMessage] /\ RowOK(row) /\ TitleFitsPlans
    BY BoardParts
  <2> QED BY <2>1 DEF NamesSent, NoMessage, Row
<1>2. PICK is : is = [messages[m] EXCEPT !.shows = Shown(t.board)]
  OBVIOUS
<1>3. /\ is \in BoardMessage /\ is.shows = Shown(t.board)
      /\ is.pinned = messages[m].pinned /\ is.gone = messages[m].gone
  <2>1. messages[m] \in BoardMessage /\ Shown(t.board) \in Content
    BY <1>1 DEF Shown, Content, Row
  <2> QED BY <1>2, <2>1 DEF BoardMessage
<1>4. messages' = [messages EXCEPT ![m] = is]
  BY <1>1, <1>2
<1>5. /\ Sent' = Sent /\ messages' \in [1 .. Sent -> BoardMessage]
      /\ messages'[m] = is /\ \A k \in 1 .. Sent : k # m => messages'[k] = messages[k]
  BY <1>1, <1>3, <1>4, MessageWritten
<1>6. /\ RowOK(row') /\ TitleFitsPlans'
      /\ row = NoBoard => row' = NoBoard
      /\ row # NoBoard => /\ row' # NoBoard /\ row'.items = row.items /\ row'.title = row.title
                          /\ row'.message = m /\ row'.pinned = t.board.pinned
  BY <1>1, SetMessageEffect DEF Others
<1>7. row' # NoBoard => row'.message \in 0 .. Sent'
  BY <1>1, <1>5, <1>6
<1>8. ASSUME ~overlapped', ~refused' PROVE Ordered'
  <2>1. Ordered
    BY <1>8, BoardParts DEF Others
  <2>2. publishing = {t} /\ row # NoBoard /\ Successors = {} /\ publishing' = {}
    BY <2>1, Alone DEF Ordered, Over
  <2>3. t.board.message = row.message /\ t.board.pinned = row.pinned /\ (~unshown => Shown(t.board) = Shown(row))
    BY <2>1 DEF Ordered, Carries
  <2>4. /\ row' # NoBoard /\ row'.message = row.message /\ row'.pinned = row.pinned
        /\ Shown(row') = Shown(row)
    BY <1>6, <2>2, <2>3 DEF Shown
  <2>5. OneAtATime' /\ \A u \in publishing' : Carries(u)'
    BY <2>2, <2>4 DEF OneAtATime
  <2>6. PinsAreKept'
    <3>1. Kept' = Kept /\ Successors' = {}
      BY <2>2, <2>4 DEF Kept, Successors
    <3>2. \A k \in 1 .. Sent : /\ messages'[k].pinned <=> messages[k].pinned
                               /\ messages'[k].gone <=> messages[k].gone
      BY <1>3, <1>5
    <3>3. DOMAIN messages' = 1 .. Sent /\ DOMAIN messages = 1 .. Sent
      BY <1>1, <1>5
    <3> QED BY <2>1, <2>2, <2>4, <3>1, <3>2, <3>3 DEF Ordered, PinsAreKept
  <2>7. Settled'
    BY <1>1, <1>3, <1>5, <2>3, <2>4 DEF Settled, Others, NoMessage
  <2> QED BY <2>5, <2>6, <2>7 DEF Ordered
<1> QED BY <1>5, <1>6, <1>7, <1>8, OverCounts, StatusTypes, BoardParts, BoardStep

LEMMA EditSame ==
    ASSUME BoardInv, NEW t \in publishing, t.step = "edit",
           ~messages[t.board.message].gone, messages[t.board.message].shows = Shown(t.board),
           Over(t), UNCHANGED <<row, messages, refused>>, Others
    PROVE  BoardInv'
<1>1. UNCHANGED row /\ UNCHANGED messages /\ UNCHANGED refused
  OBVIOUS
<1>2. Sent' = Sent /\ Sent' \in Nat /\ messages' \in [1 .. Sent' -> BoardMessage]
  BY <1>1, SameMessages
<1>3. RowOK(row)' /\ TitleFitsPlans' /\ (row' # NoBoard => row'.message \in 0 .. Sent')
  BY <1>1, <1>2, SameRow DEF Others
<1>4. ASSUME ~overlapped', ~refused' PROVE Ordered'
  <2>1. Ordered
    BY <1>1, <1>4, BoardParts DEF Others
  <2>2. publishing = {t} /\ row # NoBoard /\ Successors = {} /\ publishing' = {}
    BY <2>1, Alone DEF Ordered, Over
  <2>3. t.board.message = row.message /\ (~unshown => Shown(t.board) = Shown(row))
    BY <2>1 DEF Ordered, Carries
  <2>4. NamesSent(t) /\ t.board.message # NoMessage
    BY BoardParts DEF NamesSent
  <2>5. OneAtATime' /\ \A u \in publishing' : Carries(u)'
    BY <1>1, <2>2 DEF OneAtATime
  <2>6. PinsAreKept'
    <3>1. Kept' = Kept /\ Successors' = {}
      BY <1>1, <2>2 DEF Kept, Successors
    <3> QED BY <1>1, <2>1, <2>2, <3>1 DEF Ordered, PinsAreKept
  <2>7. Settled'
    BY <1>1, <2>3, <2>4 DEF Settled, Others
  <2> QED BY <2>5, <2>6, <2>7 DEF Ordered
<1> QED BY <1>2, <1>3, <1>4, OverCounts, StatusTypes, BoardParts, BoardStep

\* Telegram refuses what a publication asks, and it ends there.
LEMMA Fails ==
    ASSUME BoardInv, NEW t \in publishing, refused' = TRUE, Over(t), UNCHANGED <<row, messages>>, Others
    PROVE  BoardInv'
<1>1. UNCHANGED row /\ UNCHANGED messages /\ refused' \in BOOLEAN /\ refused'
  OBVIOUS
<1>2. Sent' = Sent /\ Sent' \in Nat /\ messages' \in [1 .. Sent' -> BoardMessage]
  BY <1>1, SameMessages
<1>3. RowOK(row)' /\ TitleFitsPlans' /\ (row' # NoBoard => row'.message \in 0 .. Sent')
  BY <1>1, <1>2, SameRow DEF Others
<1> QED BY <1>1, <1>2, <1>3, OverCounts, StatusTypes, BoardStep

\* A message is sent instead of edited, or in HTML instead of as a rich one.
LEMMA TriesAnother ==
    ASSUME BoardInv, NEW t \in publishing, t.step \in Sending, NEW step \in {"send", "html"},
           Goes(t, step), UNCHANGED <<row, messages, refused>>, Others
    PROVE  BoardInv'
<1>1. UNCHANGED row /\ UNCHANGED messages /\ UNCHANGED refused
  OBVIOUS
<1>2. Sent' = Sent /\ Sent' \in Nat /\ messages' \in [1 .. Sent' -> BoardMessage]
  BY <1>1, SameMessages
<1>3. RowOK(row)' /\ TitleFitsPlans' /\ (row' # NoBoard => row'.message \in 0 .. Sent')
  BY <1>1, <1>2, SameRow DEF Others
<1>4. t \in Publishing /\ NamesSent(t) /\ t.id \in 0 .. MaxBoards
  BY BoardParts DEF Publishing
<1>5. PICK u : u = [t EXCEPT !.step = step]
  OBVIOUS
<1>6. u \in Publishing /\ u.step = step /\ u.board = t.board /\ u.id = t.id
  BY <1>4, <1>5 DEF Publishing
<1>7. publishing' = (publishing \ {t}) \cup {u}
  BY <1>5 DEF Goes
<1>8. NamesSent(u)'
  BY <1>2, <1>4, <1>6 DEF NamesSent
<1>9. /\ publishing' \in SUBSET Publishing /\ IsFiniteSet(publishing')
      /\ Sent' + Pending' <= MaxBoards
      /\ \A x \in publishing' : NamesSent(x)'
  BY <1>2, <1>6, <1>7, <1>8, GoesCounts
<1>10. ASSUME ~overlapped', ~refused' PROVE Ordered'
  <2>1. Ordered
    BY <1>1, <1>10, BoardParts DEF Others
  <2>2. publishing = {t} /\ row # NoBoard /\ Successors = {} /\ publishing' = {u}
    BY <1>7, <2>1, Alone DEF Ordered, Sending
  <2>3. Carries(u)'
    <3>1. Carries(t)
      BY <2>1 DEF Ordered
    <3>2. Shown(u.board) = Shown(t.board) /\ u.step # "clear" /\ t.step # "clear"
      BY <1>6 DEF Sending
    <3> QED BY <1>1, <1>6, <3>1, <3>2 DEF Carries, Others, Shown
  <2>4. OneAtATime' /\ Settled'
    BY <1>1, <2>2 DEF OneAtATime, Settled
  <2>5. PinsAreKept'
    <3>1. Kept' = Kept /\ Successors' = {}
      BY <1>1, <1>6, <2>2 DEF Kept, Successors
    <3> QED BY <1>1, <2>1, <2>2, <3>1 DEF Ordered, PinsAreKept
  <2> QED BY <2>2, <2>3, <2>4, <2>5 DEF Ordered
<1> QED BY <1>1, <1>2, <1>3, <1>9, <1>10, StatusTypes, BoardParts, BoardStep

\* The row is as it was, and names a message as before.
LEMMA AppearsCounts ==
    ASSUME BoardInv, NEW t \in publishing, t.step \in Sending, NEW u \in Publishing,
           publishing' = (publishing \ {t}) \cup {u}, Sent' = Sent + 1, NamesSent(u)',
           u.step \notin Sending \/ MaySend
    PROVE  /\ publishing' \in SUBSET Publishing /\ IsFiniteSet(publishing')
           /\ Sent' + Pending' <= MaxBoards
           /\ \A x \in publishing' : NamesSent(x)'
<1>1. /\ publishing \in SUBSET Publishing /\ IsFiniteSet(publishing) /\ Sent \in Nat /\ Pending \in Nat
      /\ Sent + Pending <= MaxBoards /\ MaxBoards \in Nat
      /\ \A x \in publishing : NamesSent(x)
  BY BoardParts
<1>2. IsFiniteSet(publishing')
  BY <1>1, FiniteChanges
<1>3. \A x \in publishing' : NamesSent(x)'
  BY <1>1, NamesStay
<1>4. publishing' \in SUBSET Publishing
  BY <1>1
<1>5. Sent' + Pending' <= MaxBoards
  <2>1. t \in WritingOf(publishing)
    BY DEF WritingOf
  <2>2. /\ WritingOf(publishing \ {t}) \subseteq WritingOf(publishing) \ {t}
        /\ WritingOf(publishing') \subseteq WritingOf(publishing \ {t}) \cup {u}
        /\ u.step \notin Sending => WritingOf(publishing') \subseteq WritingOf(publishing) \ {t}
    BY DEF WritingOf
  <2>3. PICK P, Q, R : P = publishing /\ Q = publishing \ {t} /\ R = publishing'
    OBVIOUS
  <2>4. IsFiniteSet(P) /\ IsFiniteSet(Q)
    BY <1>1, <2>3, FiniteChanges
  <2>5. /\ Cardinality(WritingOf(Q)) \in Nat
        /\ Cardinality(WritingOf(Q)) + 1 <= Cardinality(WritingOf(P))
    BY <2>1, <2>2, <2>3, <2>4, OneWritesLess
  <2>6. /\ Cardinality(WritingOf(R)) \in Nat
        /\ Cardinality(WritingOf(R)) <= Cardinality(WritingOf(Q)) + 1
    BY <2>2, <2>3, <2>4, OneWritesMore
  <2>7. Pending = Cardinality(WritingOf(P)) /\ Pending' = Cardinality(WritingOf(R))
    BY <2>3, PendingIs
  <2>8. PICK s, p, r, q : s = Sent /\ p = Pending /\ r = Pending' /\ q = Cardinality(WritingOf(Q))
    OBVIOUS
  <2>9. s \in Nat /\ p \in Nat /\ r \in Nat /\ q \in Nat /\ q + 1 <= p /\ r <= q + 1 /\ s + p <= MaxBoards
    BY <1>1, <2>5, <2>6, <2>7, <2>8
  <2>10. s + 1 + r <= MaxBoards
    <3>1. CASE u.step \notin Sending
      <4>1. Cardinality(WritingOf(R)) + 1 <= Cardinality(WritingOf(P))
        BY <2>1, <2>2, <2>3, <2>4, <3>1, OneWritesLess
      <4> QED BY <1>1, <2>7, <2>8, <2>9, <4>1
    <3>2. CASE MaySend
      <4>1. s + p < MaxBoards
        BY <2>8, <3>2 DEF MaySend
      <4> QED BY <1>1, <2>9, <4>1
    <3> QED BY <3>1, <3>2
  <2>11. Sent' = s + 1 /\ Pending' = r
    BY <2>8
  <2> QED BY <2>10, <2>11
<1> QED BY <1>2, <1>3, <1>4, <1>5, Zenon

LEMMA RowBelow ==
    ASSUME BoardInv, UNCHANGED row, titled' = titled, Sent' = Sent + 1
    PROVE  RowOK(row)' /\ TitleFitsPlans' /\ (row' # NoBoard => row'.message \in 0 .. Sent')
<1>1. RowOK(row')
  BY BoardParts
<1>2. TitleFitsPlans'
  BY BoardParts DEF TitleFitsPlans
<1>3. row' # NoBoard => row'.message \in 0 .. Sent'
  <2>1. PICK s : s = Sent
    OBVIOUS
  <2>2. s \in Nat /\ (row # NoBoard => row.message \in 0 .. s)
    BY <2>1, BoardParts
  <2>3. Sent' = s + 1
    BY <2>1
  <2> QED BY <2>2, <2>3
<1> QED BY <1>1, <1>2, <1>3 DEF RowOK

\* A message has been sent: it is not pinned yet, and the row does not name it.
LEMMA RoomForOne ==
    ASSUME BoardInv, NEW t \in publishing, t.step \in Sending
    PROVE  Sent + 1 \in 0 .. MaxBoards
<1>1. /\ IsFiniteSet(publishing) /\ Sent \in Nat /\ Pending \in Nat /\ MaxBoards \in Nat
      /\ Sent + Pending <= MaxBoards
  BY BoardParts
<1>2. t \in WritingOf(publishing)
  BY DEF WritingOf
<1>3. Cardinality(WritingOf({})) \in Nat /\ Cardinality(WritingOf({})) + 1 <= Cardinality(WritingOf(publishing))
  <2>1. WritingOf({}) \subseteq WritingOf(publishing) \ {t}
    BY DEF WritingOf
  <2> QED BY <1>1, <1>2, <2>1, OneWritesLess
<1>4. PICK s, p, q : s = Sent /\ p = Pending /\ q = Cardinality(WritingOf({}))
  OBVIOUS
<1>5. s \in Nat /\ p \in Nat /\ q \in Nat /\ q + 1 <= p /\ s + p <= MaxBoards
  BY <1>1, <1>3, <1>4, PendingIs
<1>6. s + 1 \in 0 .. MaxBoards
  BY <1>1, <1>5
<1> QED BY <1>4, <1>6

LEMMA SendDone ==
    ASSUME BoardInv, NEW t \in publishing, t.step \in Sending,
           Appear(t.board), Follow(t), UNCHANGED refused, UNCHANGED row, Others
    PROVE  BoardInv'
<1>1. /\ t \in Publishing /\ t.board \in Row /\ NamesSent(t) /\ Sent \in Nat
      /\ messages \in [1 .. Sent -> BoardMessage] /\ DOMAIN messages = 1 .. Sent
      /\ (row # NoBoard => row.message \in 0 .. Sent)
  BY BoardParts
<1>2. /\ Sent' = Sent + 1 /\ messages' \in [1 .. Sent + 1 -> BoardMessage]
      /\ messages'[Sent + 1].shows = Shown(t.board)
      /\ ~messages'[Sent + 1].pinned /\ ~messages'[Sent + 1].gone
      /\ \A k \in 1 .. Sent : messages'[k] = messages[k]
  BY <1>1, MessageAppears
<1>3. RowOK(row)' /\ TitleFitsPlans' /\ (row' # NoBoard => row'.message \in 0 .. Sent')
  BY <1>2, RowBelow DEF Others
<1>4. PICK n : n = Sent + 1
  OBVIOUS
<1>5. n \in 0 .. MaxBoards /\ n \in Nat /\ n # NoMessage /\ n \notin 0 .. Sent /\ n \in 0 .. n
      /\ \A k \in 0 .. Sent : k \in 0 .. n
  BY <1>1, <1>4, RoomForOne DEF NoMessage
<1>6. PICK u : u = [t EXCEPT !.step = "pin", !.id = n]
  OBVIOUS
<1>7. u \in Publishing /\ u.step = "pin" /\ u.board = t.board /\ u.id = n
  BY <1>1, <1>5, <1>6 DEF Publishing
<1>8. publishing' = (publishing \ {t}) \cup {u}
  BY <1>4, <1>6 DEF Follow
<1>9. Sent' = n
  BY <1>2, <1>4
<1>10. NamesSent(u)'
  BY <1>1, <1>5, <1>7, <1>9 DEF NamesSent
<1>11. /\ publishing' \in SUBSET Publishing /\ IsFiniteSet(publishing')
       /\ Sent' + Pending' <= MaxBoards
       /\ \A x \in publishing' : NamesSent(x)'
  <2>1. u.step \notin Sending
    BY <1>7 DEF Sending
  <2> QED BY <1>2, <1>7, <1>8, <1>10, <2>1, AppearsCounts
<1>12. ASSUME ~overlapped', ~refused' PROVE Ordered'
  <2>1. Ordered
    BY <1>12, BoardParts DEF Others
  <2>2. publishing = {t} /\ row # NoBoard /\ Successors = {} /\ publishing' = {u}
    BY <1>8, <2>1, Alone DEF Ordered, Sending
  <2>3. Carries(u)'
    <3>1. /\ t.board.message = row.message /\ t.board.pinned = row.pinned
          /\ ~unshown => Shown(t.board) = Shown(row)
      BY <2>1 DEF Ordered, Carries, Sending
    <3>2. /\ messages'[u.id].shows = Shown(t.board) /\ ~messages'[u.id].gone
          /\ u.id # row.message
      BY <1>1, <1>2, <1>4, <1>5, <1>7, <2>2
    <3> QED BY <1>7, <3>1, <3>2 DEF Carries, Others, Shown
  <2>4. OneAtATime' /\ Settled'
    BY <2>2 DEF OneAtATime, Settled
  <2>5. PinsAreKept'
    <3>1. Kept' = Kept /\ Successors' = {} /\ Kept \subseteq 0 .. Sent
      BY <1>1, <1>7, <2>2 DEF Kept, Successors
    <3>2. DOMAIN messages' = 1 .. n
      BY <1>2, <1>4
    <3>3. ~messages'[n].pinned /\ n \notin Kept
      BY <1>2, <1>4, <1>5, <3>1
    <3>4. \A k \in 1 .. n : k = n \/ k \in 1 .. Sent
      BY <1>1, <1>4
    <3>5. \A k \in 1 .. Sent : messages'[k].pinned <=> (k \in Kept /\ ~messages'[k].gone)
      BY <1>1, <1>2, <2>1, <2>2 DEF Ordered, PinsAreKept
    <3>6. row' # NoBoard => (row'.pinned <=> row'.message # NoMessage)
      BY <2>1 DEF Ordered, PinsAreKept
    <3> QED BY <3>1, <3>2, <3>3, <3>4, <3>5, <3>6 DEF PinsAreKept
  <2> QED BY <2>2, <2>3, <2>4, <2>5 DEF Ordered
<1>13. Sent' \in Nat /\ messages' \in [1 .. Sent' -> BoardMessage]
  BY <1>2, <1>4, <1>5, <1>9
<1> QED BY <1>3, <1>11, <1>12, <1>13, StatusTypes, BoardParts, BoardStep

LEMMA SendUnclear ==
    ASSUME BoardInv, NEW t \in publishing, t.step = "send", MaySend,
           Appear(t.board), Goes(t, "html"), refused' = TRUE, UNCHANGED row, Others
    PROVE  BoardInv'
<1>1. /\ t \in Publishing /\ t.board \in Row /\ NamesSent(t) /\ Sent \in Nat
      /\ messages \in [1 .. Sent -> BoardMessage]
  BY BoardParts
<1>2. Sent' = Sent + 1 /\ messages' \in [1 .. Sent + 1 -> BoardMessage]
  BY <1>1, MessageAppears
<1>3. RowOK(row)' /\ TitleFitsPlans' /\ (row' # NoBoard => row'.message \in 0 .. Sent')
  BY <1>2, RowBelow DEF Others
<1>4. PICK n : n = Sent + 1
  OBVIOUS
<1>5. n \in Nat /\ \A k \in 0 .. Sent : k \in 0 .. n
  BY <1>1, <1>4
<1>6. PICK u : u = [t EXCEPT !.step = "html"]
  OBVIOUS
<1>7. u \in Publishing /\ u.step = "html" /\ u.board = t.board /\ u.id = t.id
  BY <1>1, <1>6 DEF Publishing
<1>8. publishing' = (publishing \ {t}) \cup {u}
  BY <1>6 DEF Goes
<1>9. Sent' = n
  BY <1>2, <1>4
<1>10. NamesSent(u)'
  BY <1>1, <1>5, <1>7, <1>9 DEF NamesSent
<1>11. /\ publishing' \in SUBSET Publishing /\ IsFiniteSet(publishing')
       /\ Sent' + Pending' <= MaxBoards
       /\ \A x \in publishing' : NamesSent(x)'
  BY <1>2, <1>7, <1>8, <1>10, AppearsCounts DEF Sending
<1>12. Sent' \in Nat /\ messages' \in [1 .. Sent' -> BoardMessage]
  BY <1>2, <1>4, <1>5, <1>9
<1>13. refused' \in BOOLEAN /\ refused'
  OBVIOUS
<1> QED BY <1>3, <1>11, <1>12, <1>13, StatusTypes, BoardStep

LEMMA PinChanges ==
    ASSUME Sent \in Nat, messages \in [1 .. Sent -> BoardMessage],
           NEW m \in 1 .. Sent, NEW b \in BOOLEAN, messages' = [messages EXCEPT ![m].pinned = b]
    PROVE  /\ Sent' = Sent /\ messages' \in [1 .. Sent -> BoardMessage]
           /\ messages'[m].pinned = b
           /\ \A k \in 1 .. Sent : /\ messages'[k].shows = messages[k].shows
                                   /\ messages'[k].gone = messages[k].gone
                                   /\ k # m => messages'[k].pinned = messages[k].pinned
<1>1. PICK is : is = [messages[m] EXCEPT !.pinned = b]
  OBVIOUS
<1>2. is \in BoardMessage /\ is.shows = messages[m].shows /\ is.pinned = b /\ is.gone = messages[m].gone
  BY <1>1 DEF BoardMessage
<1>3. messages' = [messages EXCEPT ![m] = is]
  BY <1>1
<1> QED BY <1>2, <1>3, MessageWritten

LEMMA PinGoes ==
    ASSUME BoardInv, NEW t \in publishing, t.step = "pin", ~messages[t.id].gone,
           messages' = [messages EXCEPT ![t.id].pinned = TRUE],
           t.board.message # NoMessage, Goes(t, "unpin"), UNCHANGED row, UNCHANGED refused, Others
    PROVE  BoardInv'
<1>1. /\ t \in Publishing /\ NamesSent(t) /\ Sent \in Nat /\ t.id \in 1 .. Sent
      /\ messages \in [1 .. Sent -> BoardMessage] /\ DOMAIN messages = 1 .. Sent
  <2>1. /\ t \in Publishing /\ NamesSent(t) /\ Sent \in Nat
        /\ messages \in [1 .. Sent -> BoardMessage] /\ DOMAIN messages = 1 .. Sent
    BY BoardParts
  <2> QED BY <2>1 DEF NamesSent, NoMessage
<1>2. /\ Sent' = Sent /\ messages' \in [1 .. Sent -> BoardMessage]
      /\ messages'[t.id].pinned = TRUE
      /\ \A k \in 1 .. Sent : /\ messages'[k].shows = messages[k].shows
                              /\ messages'[k].gone = messages[k].gone
                              /\ k # t.id => messages'[k].pinned = messages[k].pinned
  BY <1>1, PinChanges
<1>3. RowOK(row)' /\ TitleFitsPlans' /\ (row' # NoBoard => row'.message \in 0 .. Sent')
  BY <1>2, SameRow DEF Others
<1>4. PICK u : u = [t EXCEPT !.step = "unpin"]
  OBVIOUS
<1>5. u \in Publishing /\ u.step = "unpin" /\ u.board = t.board /\ u.id = t.id
  BY <1>1, <1>4 DEF Publishing
<1>6. publishing' = (publishing \ {t}) \cup {u}
  BY <1>4 DEF Goes
<1>7. NamesSent(u)'
  BY <1>1, <1>2, <1>5 DEF NamesSent
<1>8. /\ publishing' \in SUBSET Publishing /\ IsFiniteSet(publishing')
      /\ Sent' + Pending' <= MaxBoards
      /\ \A x \in publishing' : NamesSent(x)'
  BY <1>2, <1>5, <1>6, <1>7, GoesCounts DEF Sending
<1>9. ASSUME ~overlapped', ~refused' PROVE Ordered'
  <2>1. Ordered
    BY <1>9, BoardParts DEF Others
  <2>2. publishing = {t} /\ row # NoBoard /\ Successors = {} /\ publishing' = {u}
    BY <1>6, <2>1, Alone DEF Ordered
  <2>3. Carries(u)'
    <3>1. Carries(t)
      BY <2>1 DEF Ordered
    <3>2. /\ t.board.message = row.message /\ t.board.pinned = row.pinned
          /\ ~unshown => Shown(t.board) = Shown(row)
          /\ t.id # row.message /\ messages[t.id].shows = Shown(t.board)
          /\ ~unshown => ~messages[t.id].gone
      BY <3>1 DEF Carries
    <3>3. messages'[u.id].shows = messages[t.id].shows /\ messages'[u.id].gone = messages[t.id].gone
      BY <1>1, <1>2, <1>5
    <3> QED BY <1>5, <3>2, <3>3 DEF Carries, Others, Shown
  <2>4. OneAtATime' /\ Settled'
    BY <2>2 DEF OneAtATime, Settled
  <2>5. PinsAreKept'
    <3>1. Kept' = Kept /\ Successors' = {t.id}
      BY <1>5, <2>2 DEF Kept, Successors
    <3>2. DOMAIN messages' = 1 .. Sent
      BY <1>2
    <3>3. ~messages'[t.id].gone
      BY <1>1, <1>2
    <3>4. \A k \in 1 .. Sent : messages[k].pinned <=> (k \in Kept /\ ~messages[k].gone)
      BY <1>1, <2>1, <2>2 DEF Ordered, PinsAreKept
    <3>5. \A k \in 1 .. Sent : messages'[k].pinned <=> (k \in Kept \cup {t.id} /\ ~messages'[k].gone)
      BY <1>2, <3>3, <3>4
    <3>6. row' # NoBoard => (row'.pinned <=> row'.message # NoMessage)
      BY <2>1 DEF Ordered, PinsAreKept
    <3> QED BY <3>1, <3>2, <3>5, <3>6 DEF PinsAreKept
  <2> QED BY <2>2, <2>3, <2>4, <2>5 DEF Ordered
<1>10. Sent' \in Nat /\ messages' \in [1 .. Sent' -> BoardMessage]
  BY <1>1, <1>2
<1> QED BY <1>3, <1>8, <1>9, <1>10, StatusTypes, BoardParts, BoardStep

\* A publication that is over has the row name its message.
LEMMA NamesItsMessage ==
    ASSUME BoardInv, NEW t \in publishing, NEW pinned \in BOOLEAN, SetMessage(t.id, pinned),
           Sent' = Sent, titled' = titled
    PROVE  /\ RowOK(row)' /\ TitleFitsPlans' /\ (row' # NoBoard => row'.message \in 0 .. Sent')
           /\ row # NoBoard => /\ row' # NoBoard /\ Shown(row') = Shown(row)
                               /\ row'.message = t.id /\ row'.pinned = pinned
<1>1. /\ t \in Publishing /\ NamesSent(t) /\ RowOK(row) /\ TitleFitsPlans
  BY BoardParts
<1>2. t.id \in 0 .. MaxBoards /\ t.id \in 0 .. Sent
  BY <1>1 DEF Publishing, NamesSent
<1>3. /\ RowOK(row') /\ TitleFitsPlans'
      /\ row = NoBoard => row' = NoBoard
      /\ row # NoBoard => /\ row' # NoBoard /\ row'.items = row.items /\ row'.title = row.title
                          /\ row'.message = t.id /\ row'.pinned = pinned
  BY <1>1, <1>2, SetMessageEffect
<1>4. row' # NoBoard => row'.message \in 0 .. Sent'
  BY <1>2, <1>3
<1> QED BY <1>3, <1>4 DEF Shown, RowOK

LEMMA PinEnds ==
    ASSUME BoardInv, NEW t \in publishing, t.step = "pin", ~messages[t.id].gone,
           messages' = [messages EXCEPT ![t.id].pinned = TRUE],
           ~(t.board.message # NoMessage /\ t.board.pinned),
           Over(t), SetMessage(t.id, TRUE), UNCHANGED refused, Others
    PROVE  BoardInv'
<1>1. /\ t \in Publishing /\ NamesSent(t) /\ Sent \in Nat /\ t.id \in 1 .. Sent /\ t.id # NoMessage
      /\ messages \in [1 .. Sent -> BoardMessage] /\ DOMAIN messages = 1 .. Sent
  <2>1. /\ t \in Publishing /\ NamesSent(t) /\ Sent \in Nat
        /\ messages \in [1 .. Sent -> BoardMessage] /\ DOMAIN messages = 1 .. Sent
    BY BoardParts
  <2> QED BY <2>1 DEF NamesSent, NoMessage
<1>2. /\ Sent' = Sent /\ messages' \in [1 .. Sent -> BoardMessage]
      /\ messages'[t.id].pinned = TRUE
      /\ \A k \in 1 .. Sent : /\ messages'[k].shows = messages[k].shows
                              /\ messages'[k].gone = messages[k].gone
                              /\ k # t.id => messages'[k].pinned = messages[k].pinned
  BY <1>1, PinChanges
<1>3. /\ RowOK(row)' /\ TitleFitsPlans' /\ (row' # NoBoard => row'.message \in 0 .. Sent')
      /\ row # NoBoard => /\ row' # NoBoard /\ Shown(row') = Shown(row)
                          /\ row'.message = t.id /\ row'.pinned = TRUE
  BY <1>2, NamesItsMessage DEF Others
<1>4. ASSUME ~overlapped', ~refused' PROVE Ordered'
  <2>1. Ordered
    BY <1>4, BoardParts DEF Others
  <2>2. publishing = {t} /\ row # NoBoard /\ Successors = {} /\ publishing' = {}
    BY <2>1, Alone DEF Ordered, Over
  <2>3. /\ t.board.message = row.message /\ t.board.pinned = row.pinned
        /\ ~unshown => Shown(t.board) = Shown(row)
        /\ messages[t.id].shows = Shown(t.board)
        /\ ~unshown => ~messages[t.id].gone
        /\ row.pinned <=> row.message # NoMessage
    BY <2>1, <2>2 DEF Ordered, Carries, PinsAreKept
  <2>4. row.message = NoMessage /\ Kept = {} /\ Kept' = {t.id} /\ Successors' = {}
    BY <1>1, <1>3, <2>2, <2>3 DEF Kept, Successors
  <2>5. OneAtATime' /\ \A u \in publishing' : Carries(u)'
    BY <1>3, <2>2 DEF OneAtATime
  <2>6. PinsAreKept'
    <3>1. \A k \in 1 .. Sent : ~messages[k].pinned
      BY <1>1, <2>1, <2>2, <2>4 DEF Ordered, PinsAreKept
    <3>2. DOMAIN messages' = 1 .. Sent /\ ~messages'[t.id].gone
      BY <1>1, <1>2
    <3>3. \A k \in 1 .. Sent : messages'[k].pinned <=> (k \in {t.id} /\ ~messages'[k].gone)
      BY <1>2, <3>1, <3>2
    <3>4. row'.pinned <=> row'.message # NoMessage
      BY <1>1, <1>3, <2>2
    <3> QED BY <2>4, <3>2, <3>3, <3>4 DEF PinsAreKept
  <2>7. Settled'
    <3>1. messages'[t.id].shows = messages[t.id].shows /\ messages'[t.id].gone = messages[t.id].gone
      BY <1>1, <1>2
    <3>2. row' # NoBoard /\ Shown(row') = Shown(row) /\ row'.message = t.id
      BY <1>3, <2>2
    <3>3. Shown(row)' = Shown(row) /\ unshown' = unshown
      BY <3>2 DEF Shown, Others
    <3> QED BY <1>1, <2>3, <3>1, <3>2, <3>3 DEF Settled
  <2> QED BY <2>5, <2>6, <2>7 DEF Ordered
<1>5. Sent' \in Nat /\ messages' \in [1 .. Sent' -> BoardMessage]
  BY <1>1, <1>2
<1>6. RowOK(row)' /\ TitleFitsPlans' /\ (row' # NoBoard => row'.message \in 0 .. Sent')
  BY <1>3, Zenon
<1> QED BY <1>2, <1>4, <1>5, <1>6, OverCounts, StatusTypes, BoardParts, BoardStep

LEMMA PinRefused ==
    ASSUME BoardInv, NEW t \in publishing, refused' = TRUE, Over(t), SetMessage(t.id, FALSE),
           UNCHANGED messages, Others
    PROVE  BoardInv'
<1>1. Sent' = Sent /\ Sent' \in Nat /\ messages' \in [1 .. Sent' -> BoardMessage]
  BY SameMessages
<1>2. RowOK(row)' /\ TitleFitsPlans' /\ (row' # NoBoard => row'.message \in 0 .. Sent')
  BY <1>1, NamesItsMessage DEF Others
<1>3. refused' \in BOOLEAN /\ refused'
  OBVIOUS
<1> QED BY <1>1, <1>2, <1>3, OverCounts, StatusTypes, BoardStep

LEMMA UnpinEnds ==
    ASSUME BoardInv, NEW t \in publishing, Unpin(t)
    PROVE  BoardInv'
<1>1. t.step = "unpin" /\ Over(t) /\ SetMessage(t.id, TRUE) /\ Others
  BY DEF Unpin
<1>2. PICK b, ok : /\ ok \in BOOLEAN /\ b = (messages[t.board.message].pinned /\ ~ok)
                   /\ messages' = [messages EXCEPT ![t.board.message].pinned = b]
                   /\ refused' = (refused \/ ~ok)
  BY DEF Unpin
<1>3. PICK m : m = t.board.message
  OBVIOUS
<1>4. /\ t \in Publishing /\ NamesSent(t) /\ Sent \in Nat /\ m \in 1 .. Sent /\ t.id \in 1 .. Sent
      /\ t.id # NoMessage /\ m # NoMessage
      /\ messages \in [1 .. Sent -> BoardMessage] /\ DOMAIN messages = 1 .. Sent
      /\ refused \in BOOLEAN
  <2>1. /\ t \in Publishing /\ NamesSent(t) /\ Sent \in Nat /\ refused \in BOOLEAN
        /\ messages \in [1 .. Sent -> BoardMessage] /\ DOMAIN messages = 1 .. Sent
    BY BoardParts
  <2> QED BY <1>1, <1>3, <2>1 DEF NamesSent, NoMessage
<1>5. b \in BOOLEAN /\ (ok => ~b) /\ refused' \in BOOLEAN /\ (~refused' => ok)
  <2>1. messages[m].pinned \in BOOLEAN
    BY <1>4 DEF BoardMessage
  <2> QED BY <1>2, <1>3, <1>4, <2>1
<1>6. /\ Sent' = Sent /\ messages' \in [1 .. Sent -> BoardMessage]
      /\ messages'[m].pinned = b
      /\ \A k \in 1 .. Sent : /\ messages'[k].shows = messages[k].shows
                              /\ messages'[k].gone = messages[k].gone
                              /\ k # m => messages'[k].pinned = messages[k].pinned
  BY <1>2, <1>3, <1>4, <1>5, PinChanges
<1>7. /\ RowOK(row)' /\ TitleFitsPlans' /\ (row' # NoBoard => row'.message \in 0 .. Sent')
      /\ row # NoBoard => /\ row' # NoBoard /\ Shown(row') = Shown(row)
                          /\ row'.message = t.id /\ row'.pinned = TRUE
  BY <1>1, <1>6, NamesItsMessage DEF Others
<1>8. ASSUME ~overlapped', ~refused' PROVE Ordered'
  <2>0. ok /\ ~b /\ ~refused
    BY <1>2, <1>4, <1>5, <1>8
  <2>1. Ordered
    BY <1>1, <1>8, <2>0, BoardParts DEF Others
  <2>2. publishing = {t} /\ row # NoBoard /\ Successors = {t.id} /\ publishing' = {}
    BY <1>1, <2>1, Alone DEF Ordered, Over
  <2>3. /\ m = row.message /\ t.id # row.message
        /\ ~unshown => Shown(t.board) = Shown(row)
        /\ messages[t.id].shows = Shown(t.board)
        /\ ~unshown => ~messages[t.id].gone
    BY <1>1, <1>3, <2>1 DEF Ordered, Carries
  <2>4. Kept = {m} /\ Kept' = {t.id} /\ Successors' = {}
    BY <1>4, <1>7, <2>2, <2>3 DEF Kept, Successors
  <2>5. OneAtATime' /\ \A u \in publishing' : Carries(u)'
    BY <1>7, <2>2 DEF OneAtATime
  <2>6. PinsAreKept'
    <3>1. \A k \in 1 .. Sent : messages[k].pinned <=> (k \in {m, t.id} /\ ~messages[k].gone)
      BY <1>4, <2>1, <2>2, <2>4 DEF Ordered, PinsAreKept
    <3>2. DOMAIN messages' = 1 .. Sent
      BY <1>6
    <3>3. \A k \in 1 .. Sent : messages'[k].pinned <=> (k \in {t.id} /\ ~messages'[k].gone)
      BY <1>6, <2>0, <2>3, <3>1
    <3>4. row'.pinned <=> row'.message # NoMessage
      BY <1>4, <1>7, <2>2
    <3> QED BY <2>4, <3>2, <3>3, <3>4 DEF PinsAreKept
  <2>7. Settled'
    <3>1. messages'[t.id].shows = messages[t.id].shows /\ messages'[t.id].gone = messages[t.id].gone
      BY <1>4, <1>6
    <3>2. row' # NoBoard /\ Shown(row') = Shown(row) /\ row'.message = t.id
      BY <1>7, <2>2
    <3>3. Shown(row)' = Shown(row) /\ unshown' = unshown
      BY <1>1, <3>2 DEF Shown, Others
    <3> QED BY <1>4, <2>3, <3>1, <3>2, <3>3 DEF Settled
  <2> QED BY <2>5, <2>6, <2>7 DEF Ordered
<1>9. Sent' \in Nat /\ messages' \in [1 .. Sent' -> BoardMessage]
  BY <1>4, <1>6
<1>10. RowOK(row)' /\ TitleFitsPlans' /\ (row' # NoBoard => row'.message \in 0 .. Sent')
  BY <1>7, Zenon
<1> QED BY <1>1, <1>5, <1>6, <1>8, <1>9, <1>10, OverCounts, StatusTypes, BoardStep

LEMMA ClearIsOver ==
    ASSUME BoardInv, NEW t \in publishing, ClearEnds(t)
    PROVE  BoardInv'
<1>1. t.step = "clear" /\ Over(t) /\ row' = NoBoard /\ Others
  BY DEF ClearEnds
<1>2. PICK b, ok : /\ ok \in BOOLEAN /\ b = (messages[t.board.message].pinned /\ ~ok)
                   /\ messages' = [messages EXCEPT ![t.board.message].pinned = b]
                   /\ refused' = (refused \/ ~ok)
  BY DEF ClearEnds
<1>3. PICK m : m = t.board.message
  OBVIOUS
<1>4. /\ NamesSent(t) /\ Sent \in Nat /\ m \in 1 .. Sent
      /\ messages \in [1 .. Sent -> BoardMessage] /\ DOMAIN messages = 1 .. Sent
      /\ refused \in BOOLEAN
  <2>1. /\ NamesSent(t) /\ Sent \in Nat /\ refused \in BOOLEAN
        /\ messages \in [1 .. Sent -> BoardMessage] /\ DOMAIN messages = 1 .. Sent
    BY BoardParts
  <2> QED BY <1>1, <1>3, <2>1 DEF NamesSent, NoMessage
<1>5. b \in BOOLEAN /\ (ok => ~b) /\ refused' \in BOOLEAN /\ (~refused' => ok)
  <2>1. messages[m].pinned \in BOOLEAN
    BY <1>4 DEF BoardMessage
  <2> QED BY <1>2, <1>3, <1>4, <2>1
<1>6. /\ Sent' = Sent /\ messages' \in [1 .. Sent -> BoardMessage]
      /\ messages'[m].pinned = b
      /\ \A k \in 1 .. Sent : /\ messages'[k].shows = messages[k].shows
                              /\ messages'[k].gone = messages[k].gone
                              /\ k # m => messages'[k].pinned = messages[k].pinned
  BY <1>2, <1>3, <1>4, <1>5, PinChanges
<1>7. RowOK(row)' /\ TitleFitsPlans' /\ (row' # NoBoard => row'.message \in 0 .. Sent')
  BY <1>1 DEF RowOK, TitleFitsPlans
<1>8. ASSUME ~overlapped', ~refused' PROVE Ordered'
  <2>0. ok /\ ~b /\ ~refused
    BY <1>2, <1>4, <1>5, <1>8
  <2>1. Ordered
    BY <1>1, <1>8, <2>0, BoardParts DEF Others
  <2>2. publishing = {t} /\ row # NoBoard /\ Successors = {} /\ publishing' = {}
    BY <1>1, <2>1, Alone DEF Ordered, Over
  <2>3. m = row.message
    BY <1>3, <2>1 DEF Ordered, Carries
  <2>4. Kept \subseteq {m} /\ Kept' = {} /\ Successors' = {}
    BY <1>1, <2>2, <2>3 DEF Kept, Successors
  <2>5. OneAtATime' /\ (\A u \in publishing' : Carries(u)') /\ Settled'
    BY <1>1, <2>2 DEF OneAtATime, Settled
  <2>6. PinsAreKept'
    <3>1. \A k \in 1 .. Sent : k # m => ~messages[k].pinned
      BY <1>4, <2>1, <2>2, <2>4 DEF Ordered, PinsAreKept
    <3>2. DOMAIN messages' = 1 .. Sent
      BY <1>6
    <3>3. \A k \in 1 .. Sent : ~messages'[k].pinned
      BY <1>6, <2>0, <3>1
    <3> QED BY <1>1, <2>4, <3>2, <3>3 DEF PinsAreKept
  <2> QED BY <2>5, <2>6 DEF Ordered
<1>9. Sent' \in Nat /\ messages' \in [1 .. Sent' -> BoardMessage]
  BY <1>4, <1>6
<1> QED BY <1>1, <1>5, <1>6, <1>7, <1>8, <1>9, OverCounts, StatusTypes, BoardStep

-----------------------------------------------------------------------------
(* The changes of the board *)

LEMMA ChangesCount ==
    ASSUME BoardInv, Changes
    PROVE  changes' \in 0 .. MaxChanges
<1>1. changes \in 0 .. MaxChanges /\ changes < MaxChanges /\ changes' = changes + 1
  BY BoardParts DEF Changes
<1>2. MaxChanges \in Nat
  BY BoardAssumption
<1> QED BY <1>1, <1>2

LEMMA GetBoardNames ==
    ASSUME BoardInv
    PROVE  GetBoard.message \in 0 .. Sent
<1>1. RowOK(row) /\ Sent \in Nat /\ (row # NoBoard => row.message \in 0 .. Sent)
  BY BoardParts
<1>2. CASE row = NoBoard
  <2>1. GetBoard.message = 0
    BY <1>1, <1>2, GetBoardTypes DEF NoMessage
  <2>2. 0 \in 0 .. Sent
    BY <1>1
  <2> QED BY <2>1, <2>2
<1>3. CASE row # NoBoard
  BY <1>1, <1>3, GetBoardTypes
<1> QED BY <1>2, <1>3

\* A publication that begins has a message to come.
LEMMA BeginsCounts ==
    ASSUME BoardInv, NEW t \in Publishing, Begins(t), Sent' = Sent, NamesSent(t)'
    PROVE  /\ publishing' \in SUBSET Publishing /\ IsFiniteSet(publishing')
           /\ Sent' + Pending' <= MaxBoards
           /\ \A x \in publishing' : NamesSent(x)'
<1>1. /\ publishing \in SUBSET Publishing /\ IsFiniteSet(publishing) /\ Sent \in Nat /\ Pending \in Nat
      /\ MaxBoards \in Nat
      /\ \A x \in publishing : NamesSent(x)
  BY BoardParts
<1>2. publishing' = publishing \cup {t} /\ Sent + Pending < MaxBoards
  BY DEF Begins, MaySend
<1>3. IsFiniteSet(publishing')
  BY <1>1, <1>2, FiniteChanges
<1>4. \A x \in publishing' : NamesSent(x)'
  BY <1>1, <1>2, NamesStay
<1>5. publishing' \in SUBSET Publishing
  BY <1>1, <1>2
<1>6. Pending' \in Nat /\ Pending' <= Pending + 1
  <2>1. WritingOf(publishing') \subseteq WritingOf(publishing) \cup {t}
    BY <1>2 DEF WritingOf
  <2> QED BY <1>1, <2>1, OneWritesMore, PendingIs
<1>7. Sent' + Pending' <= MaxBoards
  <2>1. PICK s, p, q : s = Sent /\ p = Pending /\ q = Pending'
    OBVIOUS
  <2>2. s \in Nat /\ p \in Nat /\ MaxBoards \in Nat /\ s + p < MaxBoards
    BY <1>1, <1>2, <2>1
  <2>3. q \in Nat /\ q <= p + 1
    BY <1>6, <2>1
  <2>4. s + q <= MaxBoards
    BY <2>2, <2>3
  <2> QED BY <2>1, <2>4
<1> QED BY <1>3, <1>4, <1>5, <1>7, Zenon

\* It shows the board as it is saved by now, under the message it had.
LEMMA PublicationBegins ==
    ASSUME BoardInv, NEW board \in Row, NEW fresh \in BOOLEAN, Begins(Publication(board, fresh)),
           UNCHANGED messages, UNCHANGED refused, row' = board, RowOK(row)', TitleFitsPlans',
           board.message = GetBoard.message, board.pinned = GetBoard.pinned,
           form' = NoBoard \/ form' \in Content,
           changes' \in 0 .. MaxChanges, titled' \subseteq Plans, unshown' = FALSE
    PROVE  BoardInv'
<1>1. Sent' = Sent /\ Sent' \in Nat /\ messages' \in [1 .. Sent' -> BoardMessage]
  BY SameMessages
<1>2. PICK u : u = Publication(board, fresh)
  OBVIOUS
<1>3. /\ Sent \in Nat /\ MaxBoards \in Nat /\ GetBoard.message \in 0 .. Sent
      /\ overlapped \in BOOLEAN /\ refused \in BOOLEAN
      /\ messages \in [1 .. Sent -> BoardMessage] /\ DOMAIN messages = 1 .. Sent
  BY BoardParts, GetBoardNames
<1>4. /\ u \in Publishing /\ u.board = board /\ u.id = NoMessage
      /\ u.step \in {"edit", "send"} /\ (u.step = "edit" => board.message # NoMessage)
  BY <1>2, <1>3 DEF Publication, Publishing, NoMessage
<1>5. NamesSent(u)'
  BY <1>1, <1>3, <1>4 DEF NamesSent, NoMessage
<1>6. /\ publishing' \in SUBSET Publishing /\ IsFiniteSet(publishing')
      /\ Sent' + Pending' <= MaxBoards
      /\ \A x \in publishing' : NamesSent(x)'
  BY <1>1, <1>2, <1>4, <1>5, BeginsCounts
<1>7. publishing' = publishing \cup {u} /\ overlapped' = (overlapped \/ publishing # {})
  BY <1>2 DEF Begins
<1>8. row' # NoBoard /\ row'.message \in 0 .. Sent'
  BY <1>1, <1>3, NoBoardIsNoRow
<1>9. ASSUME ~overlapped', ~refused' PROVE Ordered'
  <2>1. Ordered /\ publishing = {} /\ publishing' = {u}
    BY <1>3, <1>7, <1>9, BoardParts
  <2>2. OneAtATime' /\ Settled'
    BY <1>8, <2>1 DEF OneAtATime, Settled
  <2>3. Carries(u)'
    BY <1>4 DEF Carries
  <2>4. PinsAreKept'
    <3>1. RowOK(row)
      BY BoardParts
    <3>2. CASE row = NoBoard
      <4>1. board.message = NoMessage /\ board.pinned = FALSE
        BY <3>1, <3>2, GetBoardTypes
      <4>2. Kept = {} /\ Kept' = {} /\ Successors = {} /\ Successors' = {}
        BY <1>4, <1>8, <2>1, <3>2, <4>1 DEF Kept, Successors
      <4> QED BY <1>8, <2>1, <4>1, <4>2 DEF Ordered, PinsAreKept
    <3>3. CASE row # NoBoard
      <4>1. board.message = row.message /\ board.pinned = row.pinned
        BY <3>1, <3>3, GetBoardTypes
      <4>2. Kept' = Kept /\ Successors = {} /\ Successors' = {}
        BY <1>4, <1>8, <2>1, <3>3, <4>1 DEF Kept, Successors
      <4> QED BY <1>8, <2>1, <3>3, <4>1, <4>2 DEF Ordered, PinsAreKept
    <3> QED BY <3>2, <3>3
  <2> QED BY <2>1, <2>2, <2>3, <2>4 DEF Ordered
<1>10. unshown' \in BOOLEAN /\ overlapped' \in BOOLEAN /\ refused' \in BOOLEAN
  BY <1>3, <1>7
<1> QED BY <1>1, <1>6, <1>8, <1>9, <1>10, BoardStep

LEMMA SectionTypes ==
    ASSUME NEW old \in Items, NEW section, NEW names,
           (section = "plans" /\ names \in SUBSET Plans) \/ (section = "questions" /\ names \in SUBSET Questions)
    PROVE  [old EXCEPT ![section] = names] \in Items
<1>1. CASE section = "plans" /\ names \in SUBSET Plans
  BY <1>1 DEF Items
<1>2. CASE section = "questions" /\ names \in SUBSET Questions
  BY <1>2 DEF Items
<1> QED BY <1>1, <1>2

LEMMA BotUpdatesKeep ==
    ASSUME BoardInv, NEW section, NEW names, NEW title \in Titles,
           (section = "plans" /\ names \in SUBSET Plans) \/ (section = "questions" /\ names \in SUBSET Questions),
           BotUpdates(section, names, title)
    PROVE  BoardInv'
<1>1. PICK items : items = [GetBoard.items EXCEPT ![section] = names]
  OBVIOUS
<1>2. /\ RowOK(row) /\ TitleFitsPlans /\ titled \subseteq Plans /\ GetBoard \in Row
      /\ form = NoBoard \/ form \in Content
  BY BoardParts, GetBoardTypes
<1>3. items \in Items
  <2>1. GetBoard.items \in Items
    BY <1>2 DEF Row
  <2> QED BY <1>1, <2>1, SectionTypes
<1>4. PICK given, name : given = (title # "") /\ name = TitleFor(items, title, given)
  OBVIOUS
<1>5. PICK board : board = [GetBoard EXCEPT !.items = items, !.title = name]
  OBVIOUS
<1>6. /\ Changes /\ SetSections(items, title, given) /\ Begins(Publication(board, FALSE))
      /\ unshown' = FALSE /\ UNCHANGED <<messages, form, refused>>
  BY <1>1, <1>4, <1>5 DEF BotUpdates
<1>7. /\ RowOK(row') /\ TitleFitsPlans' /\ titled' \subseteq Plans /\ row' \in Row
      /\ row' = [GetBoard EXCEPT !.items = items, !.title = TitleFor(items, title, given)]
      /\ row'.message = GetBoard.message /\ row'.pinned = GetBoard.pinned
  <2>1. given \in BOOLEAN
    BY <1>4
  <2> QED BY <1>2, <1>3, <1>6, <2>1, SetSectionsEffect
<1>8. row' = board
  BY <1>4, <1>5, <1>7
<1>9. changes' \in 0 .. MaxChanges
  BY <1>6, ChangesCount
<1>10. RowOK(row)'
  BY <1>7 DEF RowOK
<1>11. board \in Row /\ board.message = GetBoard.message /\ board.pinned = GetBoard.pinned
  BY <1>7, <1>8
<1>12. form' = NoBoard \/ form' \in Content
  BY <1>2, <1>6
<1> QED BY <1>6, <1>7, <1>8, <1>9, <1>10, <1>11, <1>12, PublicationBegins

LEMMA OwnerSavesKeep ==
    ASSUME BoardInv, NEW section, NEW names, NEW title \in Titles, NEW publish \in BOOLEAN,
           (section = "plans" /\ names \in SUBSET Plans) \/ (section = "questions" /\ names \in SUBSET Questions),
           OwnerSaves(section, names, title, publish)
    PROVE  BoardInv'
<1>1. PICK items : items = [form.items EXCEPT ![section] = names]
  OBVIOUS
<1>2. /\ RowOK(row) /\ TitleFitsPlans /\ titled \subseteq Plans /\ GetBoard \in Row
      /\ form \in Content /\ (row # NoBoard => GetBoard = row)
  BY BoardParts, GetBoardTypes DEF OwnerSaves
<1>3. items \in Items
  <2>1. form.items \in Items
    BY <1>2 DEF Content
  <2> QED BY <1>1, <2>1, SectionTypes
<1>4. /\ Changes /\ SetSections(items, title, TRUE) /\ form' = NoBoard /\ unshown' = ~publish
      /\ UNCHANGED messages /\ UNCHANGED refused
  BY <1>1 DEF OwnerSaves
<1>5. /\ RowOK(row') /\ TitleFitsPlans' /\ titled' \subseteq Plans /\ row' # NoBoard /\ row' \in Row
      /\ row' = [GetBoard EXCEPT !.items = items, !.title = TitleFor(items, title, TRUE)]
      /\ row'.message = GetBoard.message /\ row'.pinned = GetBoard.pinned
  BY <1>2, <1>3, <1>4, SetSectionsEffect
<1>6. changes' \in 0 .. MaxChanges
  BY <1>4, ChangesCount
<1>7. RowOK(row)' /\ (form' = NoBoard \/ form' \in Content)
  BY <1>4, <1>5 DEF RowOK
<1>8. CASE publish
  <2>1. PICK board : board = [GetBoard EXCEPT !.items = items, !.title = title]
    OBVIOUS
  <2>2. Begins(Publication(board, FALSE))
    BY <1>1, <1>8, <2>1 DEF OwnerSaves
  <2>3. row' = board
    BY <1>5, <2>1 DEF TitleFor
  <2>4. board \in Row /\ board.message = GetBoard.message /\ board.pinned = GetBoard.pinned
    BY <1>5, <2>3
  <2>5. unshown' = FALSE
    BY <1>4, <1>8
  <2> QED BY <1>4, <1>5, <1>6, <1>7, <2>2, <2>3, <2>4, <2>5, PublicationBegins
<1>9. CASE ~publish
  <2>1. UNCHANGED publishing /\ UNCHANGED overlapped /\ unshown' = TRUE
    BY <1>4, <1>9 DEF OwnerSaves
  <2>2. Sent' = Sent /\ Sent' \in Nat /\ messages' \in [1 .. Sent' -> BoardMessage]
    BY <1>4, SameMessages
  <2>3. /\ publishing \in SUBSET Publishing /\ IsFiniteSet(publishing) /\ Sent \in Nat
        /\ Sent + Pending <= MaxBoards /\ (row # NoBoard => row.message \in 0 .. Sent)
        /\ (\A t \in publishing : NamesSent(t)) /\ overlapped \in BOOLEAN /\ refused \in BOOLEAN
    BY BoardParts
  <2>4. Sent' + Pending' <= MaxBoards
    <3>1. Pending' = Pending
      BY <2>1, PendingIs
    <3> QED BY <2>2, <2>3, <3>1
  <2>5. \A t \in publishing' : NamesSent(t)'
    BY <2>1, <2>2, <2>3, NamesStay
  <2>6. GetBoard.message \in 0 .. Sent
    BY GetBoardNames
  <2>7. row'.message \in 0 .. Sent'
    BY <1>5, <2>2, <2>6
  <2>8. ASSUME ~overlapped', ~refused' PROVE Ordered'
    <3>1. Ordered
      BY <1>4, <2>1, <2>8, BoardParts
    <3>2. Successors' = Successors /\ Settled'
      BY <2>1 DEF Successors, Settled
    <3>3. OneAtATime'
      BY <1>5, <2>1, <3>1 DEF Ordered, OneAtATime
    <3>4. CASE row = NoBoard
      <4>1. row'.message = NoMessage /\ row'.pinned = FALSE
        BY <1>2, <1>5, <3>4, GetBoardTypes
      <4>2. Kept = {} /\ Kept' = {} /\ publishing' = {}
        BY <1>5, <2>1, <3>1, <3>4, <4>1 DEF Kept, Ordered, OneAtATime
      <4>3. PinsAreKept'
        BY <1>4, <3>1, <3>2, <4>1, <4>2 DEF Ordered, PinsAreKept
      <4> QED BY <3>2, <3>3, <4>2, <4>3 DEF Ordered
    <3>5. CASE row # NoBoard
      <4>1. row'.message = row.message /\ row'.pinned = row.pinned
        BY <1>2, <1>5, <3>5
      <4>2. Kept' = Kept
        BY <1>5, <3>5, <4>1 DEF Kept
      <4>3. PinsAreKept'
        BY <1>4, <3>1, <3>2, <3>5, <4>1, <4>2 DEF Ordered, PinsAreKept
      <4>4. \A t \in publishing' : Carries(t)'
        BY <1>4, <2>1, <3>1, <4>1 DEF Ordered, Carries
      <4> QED BY <3>2, <3>3, <4>3, <4>4 DEF Ordered
    <3> QED BY <3>4, <3>5
  <2>9. unshown' \in BOOLEAN /\ overlapped' \in BOOLEAN /\ refused' \in BOOLEAN
    BY <1>4, <2>1, <2>3
  <2>10. publishing' \in SUBSET Publishing /\ IsFiniteSet(publishing')
    BY <2>1, <2>3
  <2> QED BY <1>5, <1>6, <1>7, <2>2, <2>4, <2>5, <2>7, <2>8, <2>9, <2>10, BoardStep
<1> QED BY <1>8, <1>9

LEMMA PublishesKeep ==
    ASSUME BoardInv, NEW fresh \in BOOLEAN, Publishes(fresh)
    PROVE  BoardInv'
<1>1. /\ RowOK(row) /\ TitleFitsPlans /\ titled \subseteq Plans
      /\ form = NoBoard \/ form \in Content
  BY BoardParts
<1>2. row # NoBoard /\ GetBoard = row /\ row \in Row
  BY <1>1, GetBoardTypes DEF Publishes
<1>3. /\ Changes /\ Begins(Publication(row, fresh)) /\ unshown' = FALSE
      /\ row' = row /\ UNCHANGED messages /\ UNCHANGED form /\ UNCHANGED titled /\ UNCHANGED refused
  BY <1>2 DEF Publishes
<1>4. changes' \in 0 .. MaxChanges
  BY <1>3, ChangesCount
<1>5. RowOK(row)' /\ TitleFitsPlans' /\ titled' \subseteq Plans /\ (form' = NoBoard \/ form' \in Content)
  BY <1>1, <1>3 DEF RowOK, TitleFitsPlans
<1>6. row.message = GetBoard.message /\ row.pinned = GetBoard.pinned
  BY <1>2
<1> QED BY <1>2, <1>3, <1>4, <1>5, <1>6, PublicationBegins

\* The owner's page holds the board as it was.
LEMMA OnlyTheForm ==
    ASSUME BoardInv, form' = NoBoard \/ form' \in Content,
           UNCHANGED <<row, messages, publishing, changes, titled, unshown, overlapped, refused>>
    PROVE  BoardInv'
<1>1. BoardTypeOK'
  BY DEF BoardInv, BoardTypeOK
<1>2. TitleFitsPlans'
  BY DEF BoardInv, TitleFitsPlans
<1>3. MessagesCount'
  <2>1. Sent' = Sent /\ Pending' = Pending /\ \A t \in publishing' : NamesSent(t)' <=> NamesSent(t)
    BY DEF Sent, Pending, NamesSent
  <2> QED BY <2>1 DEF BoardInv, MessagesCount
<1>4. Ordered => Ordered'
  <2>1. OneAtATime' <=> OneAtATime
    BY DEF OneAtATime
  <2>2. PinsAreKept' <=> PinsAreKept
    BY DEF PinsAreKept, Kept, Successors
  <2>3. Settled' <=> Settled
    BY DEF Settled, Shown
  <2>4. \A t \in publishing' : Carries(t)' <=> Carries(t)
    BY DEF Carries, Shown
  <2> QED BY <2>1, <2>2, <2>3, <2>4 DEF Ordered
<1> QED BY <1>1, <1>2, <1>3, <1>4 DEF BoardInv

LEMMA FormLoadsKeep ==
    ASSUME BoardInv, FormLoads
    PROVE  BoardInv'
<1>1. GetBoard \in Row
  BY BoardParts, GetBoardTypes
<1>2. form' \in Content
  BY <1>1 DEF FormLoads, Shown, Content, Row
<1> QED BY <1>2, OnlyTheForm DEF FormLoads

LEMMA ClearBeginsKeep ==
    ASSUME BoardInv, ClearBegins
    PROVE  BoardInv'
<1>1. /\ RowOK(row) /\ TitleFitsPlans /\ titled \subseteq Plans /\ row # NoBoard /\ row \in Row
      /\ form = NoBoard \/ form \in Content
      /\ row.message \in 0 .. Sent /\ Sent \in Nat /\ MaxBoards \in Nat
      /\ publishing \in SUBSET Publishing /\ IsFiniteSet(publishing)
      /\ Sent + Pending <= MaxBoards /\ \A t \in publishing : NamesSent(t)
      /\ unshown \in BOOLEAN /\ overlapped \in BOOLEAN /\ refused \in BOOLEAN
      /\ DOMAIN messages = 1 .. Sent
  BY BoardParts DEF RowOK, ClearBegins
<1>2. /\ Changes /\ overlapped' = (overlapped \/ publishing # {})
      /\ UNCHANGED messages /\ UNCHANGED form /\ UNCHANGED titled /\ UNCHANGED unshown /\ UNCHANGED refused
  BY DEF ClearBegins
<1>3. changes' \in 0 .. MaxChanges
  BY <1>2, ChangesCount
<1>4. Sent' = Sent /\ Sent' \in Nat /\ messages' \in [1 .. Sent' -> BoardMessage]
  BY <1>2, SameMessages
<1>5. /\ form' = NoBoard \/ form' \in Content
      /\ titled' \subseteq Plans
      /\ unshown' \in BOOLEAN /\ overlapped' \in BOOLEAN /\ refused' \in BOOLEAN
  BY <1>1, <1>2
<1>6. CASE row.message # NoMessage /\ row.pinned
  <2>1. PICK u : u = [step |-> "clear", board |-> row, id |-> NoMessage]
    OBVIOUS
  <2>2. /\ u \in Publishing /\ u.step = "clear" /\ u.board = row /\ u.id = NoMessage
    BY <1>1, <2>1 DEF Publishing, NoMessage
  <2>3. publishing' = publishing \cup {u} /\ UNCHANGED row
    BY <1>6, <2>1 DEF ClearBegins
  <2>4. NamesSent(u)'
    BY <1>1, <1>4, <1>6, <2>2 DEF NamesSent, NoMessage
  <2>5. \A t \in publishing' : NamesSent(t)'
    BY <1>1, <1>4, <2>3, <2>4, NamesStay
  <2>6. publishing' \in SUBSET Publishing /\ IsFiniteSet(publishing')
    BY <1>1, <2>2, <2>3, FiniteChanges
  <2>7. Sent' + Pending' <= MaxBoards
    <3>1. WritingOf(publishing') = WritingOf(publishing)
      BY <2>2, <2>3 DEF WritingOf, Sending
    <3>2. Pending' = Pending
      BY <3>1, PendingIs
    <3> QED BY <1>1, <1>4, <3>2
  <2>8. RowOK(row)' /\ TitleFitsPlans' /\ (row' # NoBoard => row'.message \in 0 .. Sent')
    BY <1>2, <1>4, <2>3, SameRow
  <2>9. ASSUME ~overlapped', ~refused' PROVE Ordered'
    <3>1. Ordered /\ publishing = {} /\ publishing' = {u}
      BY <1>1, <1>2, <2>3, <2>9, BoardParts
    <3>2. OneAtATime' /\ Settled'
      BY <1>1, <2>3, <3>1 DEF OneAtATime, Settled
    <3>3. Carries(u)'
      BY <2>2, <2>3 DEF Carries
    <3>4. PinsAreKept'
      <4>1. Kept' = Kept /\ Successors = {} /\ Successors' = {}
        BY <2>2, <2>3, <3>1 DEF Kept, Successors
      <4> QED BY <1>2, <2>3, <3>1, <4>1 DEF Ordered, PinsAreKept
    <3> QED BY <3>1, <3>2, <3>3, <3>4 DEF Ordered
  <2> QED BY <1>3, <1>4, <1>5, <2>5, <2>6, <2>7, <2>8, <2>9, BoardStep
<1>7. CASE ~(row.message # NoMessage /\ row.pinned)
  <2>1. UNCHANGED publishing /\ row' = NoBoard
    BY <1>7 DEF ClearBegins
  <2>2. \A t \in publishing' : NamesSent(t)'
    BY <1>1, <1>4, <2>1, NamesStay
  <2>3. publishing' \in SUBSET Publishing /\ IsFiniteSet(publishing')
    BY <1>1, <2>1
  <2>4. Sent' + Pending' <= MaxBoards
    <3>1. Pending' = Pending
      BY <2>1, PendingIs
    <3> QED BY <1>1, <1>4, <3>1
  <2>5. RowOK(row)' /\ TitleFitsPlans' /\ (row' # NoBoard => row'.message \in 0 .. Sent')
    BY <2>1 DEF RowOK, TitleFitsPlans
  <2>6. ASSUME ~overlapped', ~refused' PROVE Ordered'
    <3>1. Ordered /\ publishing = {} /\ publishing' = {}
      BY <1>1, <1>2, <2>1, <2>6, BoardParts
    <3>2. OneAtATime' /\ Settled' /\ \A t \in publishing' : Carries(t)'
      BY <2>1, <3>1 DEF OneAtATime, Settled
    <3>3. PinsAreKept'
      <4>1. row.pinned <=> row.message # NoMessage
        BY <1>1, <3>1 DEF Ordered, PinsAreKept
      <4>2. Kept = {} /\ Kept' = {} /\ Successors = {} /\ Successors' = {}
        BY <1>7, <2>1, <3>1, <4>1 DEF Kept, Successors
      <4> QED BY <1>2, <2>1, <3>1, <4>2 DEF Ordered, PinsAreKept
    <3> QED BY <3>2, <3>3 DEF Ordered
  <2> QED BY <1>3, <1>4, <1>5, <2>2, <2>3, <2>4, <2>5, <2>6, BoardStep
<1> QED BY <1>6, <1>7

LEMMA MemberDeletesKeep ==
    ASSUME BoardInv, NEW m, MemberDeletes(m)
    PROVE  BoardInv'
<1>1. /\ Sent \in Nat /\ messages \in [1 .. Sent -> BoardMessage] /\ DOMAIN messages = 1 .. Sent
      /\ m \in 1 .. Sent
      /\ publishing \in SUBSET Publishing /\ IsFiniteSet(publishing)
      /\ Sent + Pending <= MaxBoards /\ \A t \in publishing : NamesSent(t)
      /\ form = NoBoard \/ form \in Content
      /\ titled \subseteq Plans /\ overlapped \in BOOLEAN /\ refused \in BOOLEAN
  BY BoardParts DEF MemberDeletes
<1>2. /\ Changes /\ unshown' = TRUE
      /\ UNCHANGED row /\ UNCHANGED publishing /\ UNCHANGED form /\ UNCHANGED titled
      /\ UNCHANGED overlapped /\ UNCHANGED refused
  BY DEF MemberDeletes
<1>3. changes' \in 0 .. MaxChanges
  BY <1>2, ChangesCount
<1>4. PICK is : is = [messages[m] EXCEPT !.gone = TRUE, !.pinned = FALSE]
  OBVIOUS
<1>5. is \in BoardMessage /\ is.gone = TRUE /\ is.pinned = FALSE /\ is.shows = messages[m].shows
  BY <1>1, <1>4 DEF BoardMessage
<1>6. messages' = [messages EXCEPT ![m] = is]
  BY <1>1, <1>4 DEF MemberDeletes
<1>7. /\ Sent' = Sent /\ messages' \in [1 .. Sent -> BoardMessage]
      /\ messages'[m] = is /\ \A k \in 1 .. Sent : k # m => messages'[k] = messages[k]
  BY <1>1, <1>5, <1>6, MessageWritten
<1>8. Sent' \in Nat /\ messages' \in [1 .. Sent' -> BoardMessage]
  BY <1>1, <1>7
<1>9. RowOK(row)' /\ TitleFitsPlans' /\ (row' # NoBoard => row'.message \in 0 .. Sent')
  BY <1>2, <1>7, SameRow
<1>10. \A t \in publishing' : NamesSent(t)'
  BY <1>1, <1>2, <1>7, <1>8, NamesStay
<1>11. Sent' + Pending' <= MaxBoards
  <2>1. Pending' = Pending
    BY <1>2, PendingIs
  <2> QED BY <1>1, <1>7, <2>1
<1>12. ASSUME ~overlapped', ~refused' PROVE Ordered'
  <2>1. Ordered
    BY <1>2, <1>12, BoardParts
  <2>2. Kept' = Kept /\ Successors' = Successors
    BY <1>2 DEF Kept, Successors
  <2>3. OneAtATime' /\ Settled'
    BY <1>2, <2>1 DEF Ordered, OneAtATime, Settled
  <2>4. PinsAreKept'
    <3>1. \A k \in 1 .. Sent : messages[k].pinned <=> (k \in Kept \cup Successors /\ ~messages[k].gone)
      BY <1>1, <2>1 DEF Ordered, PinsAreKept
    <3>2. \A k \in 1 .. Sent : messages'[k].pinned <=> (k \in Kept \cup Successors /\ ~messages'[k].gone)
      BY <1>5, <1>7, <3>1
    <3>3. DOMAIN messages' = 1 .. Sent
      BY <1>7
    <3> QED BY <1>2, <2>1, <2>2, <3>2, <3>3 DEF Ordered, PinsAreKept
  <2>5. ASSUME NEW t \in publishing' PROVE Carries(t)'
    <3>1. Carries(t) /\ NamesSent(t)
      BY <1>1, <1>2, <2>1, <2>5 DEF Ordered
    <3>2. CASE t.step \in {"pin", "unpin"}
      <4>1. t.id \in 1 .. Sent
        BY <1>1, <3>1, <3>2 DEF NamesSent, NoMessage
      <4>2. messages'[t.id].shows = messages[t.id].shows
        BY <1>5, <1>7, <4>1
      <4>3. /\ t.board.message = row'.message /\ t.board.pinned = row'.pinned
            /\ t.id # row'.message /\ messages'[t.id].shows = Shown(t.board) /\ unshown'
        BY <1>2, <3>1, <3>2, <4>2 DEF Carries
      <4> QED BY <4>3 DEF Carries, Shown
    <3>3. CASE t.step \notin {"pin", "unpin"}
      BY <1>2, <3>1, <3>3 DEF Carries
    <3> QED BY <3>2, <3>3
  <2> QED BY <2>3, <2>4, <2>5 DEF Ordered
<1>13. unshown' \in BOOLEAN /\ overlapped' \in BOOLEAN /\ refused' \in BOOLEAN
  BY <1>1, <1>2
<1>14. publishing' \in SUBSET Publishing /\ IsFiniteSet(publishing')
       /\ titled' \subseteq Plans /\ (form' = NoBoard \/ form' \in Content)
  BY <1>1, <1>2
<1> QED BY <1>3, <1>8, <1>9, <1>10, <1>11, <1>12, <1>13, <1>14, BoardStep

-----------------------------------------------------------------------------
(* The board: the theorem *)

LEMMA BoardEditKeeps ==
    ASSUME BoardInv, NEW t \in publishing, Edit(t)
    PROVE  BoardInv'
<1>1. t.step = "edit" /\ Others
  BY DEF Edit
<1>2. CASE /\ ~messages[t.board.message].gone
           /\ messages' = [messages EXCEPT ![t.board.message].shows = Shown(t.board)]
           /\ SetMessage(t.board.message, t.board.pinned) /\ Over(t) /\ UNCHANGED refused
  <2>1. PICK m : m = t.board.message
    OBVIOUS
  <2> QED BY <1>1, <1>2, <2>1, EditDone
<1>3. CASE /\ ~messages[t.board.message].gone /\ messages[t.board.message].shows = Shown(t.board)
           /\ Over(t) /\ UNCHANGED <<row, messages, refused>>
  BY <1>1, <1>3, EditSame
<1>4. CASE Goes(t, "send") /\ UNCHANGED <<row, messages, refused>>
  BY <1>1, <1>4, TriesAnother DEF Sending
<1>5. CASE refused' = TRUE /\ Over(t) /\ UNCHANGED <<row, messages>>
  BY <1>1, <1>5, Fails
<1> QED BY <1>2, <1>3, <1>4, <1>5 DEF Edit

LEMMA BoardSendKeeps ==
    ASSUME BoardInv, NEW t \in publishing, Send(t)
    PROVE  BoardInv'
<1>1. t.step \in Sending /\ UNCHANGED row /\ Others
  BY DEF Send, Sending
<1>2. CASE Appear(t.board) /\ Follow(t) /\ UNCHANGED refused
  BY <1>1, <1>2, SendDone
<1>3. CASE Goes(t, "html") /\ UNCHANGED <<messages, refused>>
  BY <1>1, <1>3, TriesAnother
<1>4. CASE t.step = "send" /\ MaySend /\ Appear(t.board) /\ Goes(t, "html") /\ refused' = TRUE
  BY <1>1, <1>4, SendUnclear
<1>5. CASE Over(t) /\ refused' = TRUE /\ UNCHANGED messages
  BY <1>1, <1>5, Fails
<1> QED BY <1>2, <1>3, <1>4, <1>5 DEF Send

LEMMA BoardPinKeeps ==
    ASSUME BoardInv, NEW t \in publishing, Pin(t)
    PROVE  BoardInv'
<1>1. t.step = "pin" /\ Others
  BY DEF Pin
<1>2. CASE /\ ~messages[t.id].gone /\ messages' = [messages EXCEPT ![t.id].pinned = TRUE]
           /\ UNCHANGED refused
           /\ t.board.message # NoMessage /\ t.board.pinned
           /\ Goes(t, "unpin") /\ UNCHANGED row
  BY <1>1, <1>2, PinGoes
<1>3. CASE /\ ~messages[t.id].gone /\ messages' = [messages EXCEPT ![t.id].pinned = TRUE]
           /\ UNCHANGED refused
           /\ ~(t.board.message # NoMessage /\ t.board.pinned)
           /\ Over(t) /\ SetMessage(t.id, TRUE)
  BY <1>1, <1>3, PinEnds
<1>4. CASE refused' = TRUE /\ Over(t) /\ SetMessage(t.id, FALSE) /\ UNCHANGED messages
  BY <1>1, <1>4, PinRefused
<1> QED BY <1>2, <1>3, <1>4 DEF Pin

LEMMA BoardStarts ==
    ASSUME BoardInit
    PROVE  BoardInv
<1>1. /\ row = NoBoard /\ messages = << >> /\ publishing = {} /\ form = NoBoard /\ changes = 0
      /\ titled = {} /\ unshown = FALSE /\ overlapped = FALSE /\ refused = FALSE
  BY DEF BoardInit
<1>2. DOMAIN messages = {} /\ Sent = 0
  <2>1. DOMAIN messages = {}
    BY <1>1
  <2> QED BY <2>1, FS_EmptySet DEF Sent
<1>3. Pending = 0
  <2>1. WritingOf(publishing) = {}
    BY <1>1 DEF WritingOf
  <2> QED BY <2>1, PendingIs, FS_EmptySet
<1>4. MaxBoards \in Nat /\ MaxChanges \in Nat
  BY BoardAssumption
<1>5. BoardTypeOK /\ TitleFitsPlans
  <2>1. changes \in 0 .. MaxChanges
    BY <1>1, <1>4
  <2>2. \A m \in DOMAIN messages : messages[m] \in BoardMessage
    BY <1>2
  <2>3. publishing \subseteq Publishing /\ titled \subseteq Plans
    BY <1>1
  <2> QED BY <1>1, <2>1, <2>2, <2>3 DEF BoardTypeOK, TitleFitsPlans
<1>6. MessagesCount
  <2>1. 1 .. 0 = {} /\ messages \in [1 .. 0 -> BoardMessage]
    BY <1>1, <1>2
  <2>2. IsFiniteSet({})
    BY FS_EmptySet
  <2> QED BY <1>1, <1>2, <1>3, <1>4, <2>1, <2>2 DEF MessagesCount
<1>7. Ordered
  BY <1>1, <1>2 DEF Ordered, OneAtATime, PinsAreKept, Settled, Kept, Successors
<1> QED BY <1>5, <1>6, <1>7 DEF BoardInv

\* While nothing was refused and nothing overlapped, the order holds, and once
\* nothing is under way it says what the group sees.
LEMMA InvGivesTrueBoard == BoardInv => BoardIsTrue
<1> SUFFICES ASSUME BoardInv PROVE BoardIsTrue
  OBVIOUS
<1>1. BoardTypeOK /\ TitleFitsPlans
  BY DEF BoardInv
<1>2. ASSUME publishing = {}, row # NoBoard, ~unshown, ~overlapped, ~refused
      PROVE  /\ row.message # NoMessage /\ Pinned = {row.message}
             /\ messages[row.message].shows = Shown(row)
  <2>1. Ordered /\ DOMAIN messages = 1 .. Sent /\ row.message \in 0 .. Sent /\ Sent \in Nat
    BY <1>2, BoardParts
  <2>2. /\ row.message # NoMessage /\ ~messages[row.message].gone
        /\ messages[row.message].shows = Shown(row)
    BY <1>2, <2>1 DEF Ordered, Settled
  <2>3. row.message \in 1 .. Sent
    BY <2>1, <2>2 DEF NoMessage
  <2>4. Kept = {row.message} /\ Successors = {}
    BY <1>2, <2>2 DEF Kept, Successors
  <2>5. \A m \in 1 .. Sent : messages[m].pinned <=> (m = row.message /\ ~messages[m].gone)
    BY <2>1, <2>4 DEF Ordered, PinsAreKept
  <2>6. Pinned = {row.message}
    BY <2>1, <2>2, <2>3, <2>5 DEF Pinned
  <2> QED BY <2>2, <2>6
<1> QED BY <1>1, <1>2 DEF BoardIsTrue, OneTrueBoard

LEMMA BoardNextKeeps ==
    ASSUME BoardInv, [BoardNext]_boardVars
    PROVE  BoardInv'
<1>1. CASE \E names \in SUBSET Plans, title \in Titles : BotUpdates("plans", names, title)
  BY <1>1, BotUpdatesKeep
<1>2. CASE \E names \in SUBSET Plans, title \in Titles, publish \in BOOLEAN :
             OwnerSaves("plans", names, title, publish)
  BY <1>2, OwnerSavesKeep
<1>3. CASE \E names \in SUBSET Questions : BotUpdates("questions", names, "")
  <2>1. "" \in Titles
    BY DEF Titles
  <2> QED BY <1>3, <2>1, BotUpdatesKeep
<1>4. CASE FormLoads \/ ClearBegins
  BY <1>4, FormLoadsKeep, ClearBeginsKeep
<1>5. CASE \E fresh \in BOOLEAN : Publishes(fresh)
  BY <1>5, PublishesKeep
<1>6. CASE \E m \in 1 .. MaxBoards : MemberDeletes(m)
  BY <1>6, MemberDeletesKeep
<1>7. CASE \E t \in publishing : Step(t)
  BY <1>7, BoardEditKeeps, BoardSendKeeps, BoardPinKeeps, UnpinEnds, ClearIsOver DEF Step
<1>8. CASE UNCHANGED boardVars
  <2>1. form = NoBoard \/ form \in Content
    BY BoardParts
  <2> QED BY <1>8, <2>1, OnlyTheForm DEF boardVars
<1> QED BY <1>1, <1>2, <1>3, <1>4, <1>5, <1>6, <1>7, <1>8 DEF BoardNext

\* What is pinned in the group is what is saved: once nothing is under way,
\* whatever was changed, cleared, sent again or deleted before, unless a
\* change was not published, Telegram refused something, or two publications
\* ran at once (naruto/tg/board.py, naruto/db/board.py).
THEOREM TheBoardIsTrue == BoardSpec => []BoardIsTrue
<1>1. BoardInit => BoardInv
  BY BoardStarts
<1>2. BoardInv /\ [BoardNext]_boardVars => BoardInv'
  BY BoardNextKeeps
<1> QED BY <1>1, <1>2, InvGivesTrueBoard, PTL DEF BoardSpec
=============================================================================
