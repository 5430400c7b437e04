------------------------------ MODULE Transcript ------------------------------
(***************************************************************************)
(* The stored messages of one group (naruto/db/messages.py) and what the   *)
(* model reads of them (agent/context.py).  Live messages are stored as    *)
(* they come; a thread stores those of an export (importer/service.py);    *)
(* the owner deletes stored messages, and the bot deletes its own in       *)
(* Telegram (tg/own_messages.py), which leaves their rows.                 *)
(***************************************************************************)
EXTENDS Integers, FiniteSets, FiniteSetsExt, SequencesExt, Functions

CONSTANTS Live, Exported,  \* the group's messages, and those of its exports
          Imports,         \* imports of these exports
          Date, ReplyTo,   \* per message: its date, and what it replies to or Nothing
          DatesOf,         \* per import: the dates it was asked for
          Own, Pinned,     \* of Live: those the bot sent, and its board
          RecentWindow, WindowStep, \* settings
          MaxScope,        \* MAX_SCOPE_MESSAGES
          MaxStarts        \* bound: how often a raw stage starts

Messages == Live \cup Exported
Nothing == 0
FromTelegram == 0  \* the source of a live message

ASSUME TranscriptAssumption ==
    /\ Messages \cup Imports \subseteq Nat \ {0} /\ Live \cap Exported = {}
    /\ IsFiniteSet(Exported)
    /\ Date \in [Messages -> Nat] /\ DatesOf \in [Imports -> SUBSET Nat]
    /\ ReplyTo \in [Messages -> Messages \cup {Nothing}]
    /\ Own \cup Pinned \subseteq Live
    /\ {RecentWindow, WindowStep, MaxScope} \subseteq Nat \ {0} /\ MaxStarts \in Nat

VARIABLES
    rows,      \* the table, by row ID
    arrived,   \* the live messages so far
    stage,     \* per import: its raw stage
    left,      \* what the raw stage under way has yet to store
    starts,
    deleting,  \* the rows the bot is deleting, as they were read
    gone,      \* the messages it deleted in Telegram
    freed      \* the rows the owner deleted while the bot was deleting them

thread == <<stage, left, starts>>
deletion == <<deleting, gone, freed>>
transcriptVars == <<rows, arrived, thread, deletion>>

RawStages == {"waiting", "storing", "resolved", "done"}
Row == [source : {FromTelegram} \cup Imports, message : Messages, reply : Nat,
        snippet : BOOLEAN, deleted : BOOLEAN]
Sources == {{FromTelegram}, Imports, {FromTelegram} \cup Imports}

Running(i) == stage[i] \in {"storing", "resolved"}
Stored(r) == r \in DOMAIN rows

TranscriptTypeOK ==
    /\ IsFiniteSet(DOMAIN rows) /\ \A r \in DOMAIN rows : r \in Nat \ {0} /\ rows[r] \in Row
    /\ arrived \subseteq Live /\ stage \in [Imports -> RawStages]
    /\ left \in Seq(Exported) /\ starts \in 0 .. MaxStarts
    /\ \A k \in DOMAIN deleting : deleting[k].id \in Nat /\ deleting[k].row \in Row
    /\ gone \subseteq Live /\ freed \subseteq Nat

TranscriptInit ==
    /\ rows = << >> /\ arrived = {}
    /\ stage = [i \in Imports |-> "waiting"] /\ left = << >> /\ starts = 0
    /\ deleting = << >> /\ gone = {} /\ freed = {}

-----------------------------------------------------------------------------
(* The table *)

\* A set in the order of a relation: as many of its members come before the
\* k-th as its place says.
InOrder(S, R) ==
    [k \in 1 .. Cardinality(S) |->
        CHOOSE x \in S : Cardinality({y \in S : <<y, x>> \in R}) = k - 1]
ByNumber(S) == {p \in S \X S : p[1] < p[2]}

RowOf(source, m) == {r \in DOMAIN rows : rows[r].source = source /\ rows[r].message = m}
Found(S) == IF S = {} THEN Nothing ELSE Max(S)

\* INTEGER PRIMARY KEY: one more than the largest, so that the last row's ID
\* is given again once it is deleted.
NewId == Found(DOMAIN rows) + 1
Added(row) == [r \in DOMAIN rows \cup {NewId} |-> IF r = NewId THEN row ELSE rows[r]]

\* The rows S go, and links to them where `within` says so.
Without(S, within) ==
    [r \in DOMAIN rows \ S |-> IF rows[r].source \in within /\ rows[r].reply \in S
                               THEN [rows[r] EXCEPT !.reply = Nothing] ELSE rows[r]]

\* insert_live(): a target that is stored is linked to, another is quoted.
InsertLive(m) ==
    /\ m \notin arrived /\ arrived' = arrived \cup {m}
    /\ LET target == IF ReplyTo[m] = Nothing THEN Nothing
                     ELSE Found(RowOf(FromTelegram, ReplyTo[m]))
       IN  rows' = Added([source |-> FromTelegram, message |-> m, reply |-> target,
                          snippet |-> ReplyTo[m] # Nothing /\ target = Nothing,
                          deleted |-> FALSE])
    /\ UNCHANGED <<thread, deletion>>

-----------------------------------------------------------------------------
(* The raw stage of an import, in its thread *)

RawStarts(i) ==
    /\ \A j \in Imports : ~Running(j)
    /\ stage[i] = "waiting" /\ starts < MaxStarts /\ starts' = starts + 1
    /\ stage' = [stage EXCEPT ![i] = "storing"]
    /\ LET asked == {m \in Exported : Date[m] \in DatesOf[i]}
       IN  left' = InOrder(asked, ByNumber(asked))
    /\ UNCHANGED <<rows, arrived, deletion>>

InsertImported(i) ==
    /\ stage[i] = "storing" /\ left # << >> /\ left' = Tail(left)
    /\ rows' = Added([source |-> i, message |-> Head(left), reply |-> Nothing,
                      snippet |-> FALSE, deleted |-> FALSE])
    /\ UNCHANGED <<arrived, stage, starts, deletion>>

ResolveImportReplies(i) ==
    /\ stage[i] = "storing" /\ left = << >>
    /\ stage' = [stage EXCEPT ![i] = "resolved"]
    /\ rows' = [r \in DOMAIN rows |->
                   IF rows[r].source # i \/ ReplyTo[rows[r].message] = Nothing THEN rows[r]
                   ELSE [rows[r] EXCEPT !.reply = Found(RowOf(i, ReplyTo[rows[r].message]))]]
    /\ UNCHANGED <<arrived, left, starts, deletion>>

\* The rows that an import's messages replace, if it has any
Replaced(i) ==
    IF \A r \in DOMAIN rows : rows[r].source # i THEN {}
    ELSE {r \in DOMAIN rows : rows[r].source \in Imports \ {i}
                              /\ Date[rows[r].message] \in DatesOf[i]}

\* delete_imported_range(), and the stage is done, in one transaction
MakeVisible(i) ==
    /\ stage[i] = "resolved"
    /\ stage' = [stage EXCEPT ![i] = "done"]
    /\ rows' = Without(Replaced(i), Imports)
    /\ UNCHANGED <<arrived, left, starts, deletion>>

\* delete_import(): after a stop or an error
RollBack(i) ==
    /\ Running(i)
    /\ stage' = [stage EXCEPT ![i] = "waiting"] /\ left' = << >>
    /\ rows' = Without({r \in DOMAIN rows : rows[r].source = i}, {})
    /\ UNCHANGED <<arrived, starts, deletion>>

\* The process dies, and recover() drops what the thread had stored.
DiesAndRecovers ==
    /\ rows' = Without({r \in DOMAIN rows : \E i \in Imports : Running(i) /\ rows[r].source = i}, {})
    /\ stage' = [i \in Imports |-> IF Running(i) THEN "waiting" ELSE stage[i]]
    /\ left' = << >> /\ deleting' = << >>
    /\ UNCHANGED <<arrived, starts, gone, freed>>

-----------------------------------------------------------------------------
(* Deleting *)

\* delete_for_chat(), from the web admin, while nothing is being imported
\* Mutant: replies keep their links to the rows that go.
OwnerDeletesOnly(before, sources) ==
    LET S == {r \in DOMAIN rows : Date[rows[r].message] < before /\ rows[r].source \in sources}
    IN  /\ \A i \in Imports : ~Running(i)
        /\ S # {} /\ rows' = Without(S, {})
        /\ freed' = freed \cup {r \in S : \E k \in DOMAIN deleting : deleting[k].id = r}
        /\ UNCHANGED <<arrived, thread, deleting, gone>>
OwnerDeletes(before, sources) ==
    LET S == {r \in DOMAIN rows : Date[rows[r].message] < before /\ rows[r].source \in sources}
    IN  /\ \A i \in Imports : ~Running(i)
        /\ S # {} /\ rows' = Without(S, Imports \cup {FromTelegram})
        /\ freed' = freed \cup {r \in S : \E k \in DOMAIN deleting : deleting[k].id = r}
        /\ UNCHANGED <<arrived, thread, deleting, gone>>

\* _refusal(): not in this chat, not ours, or the board.
Refused(r) == ~Stored(r) \/ rows[r].source # FromTelegram \/ rows[r].message \notin Own \ Pinned

\* delete_rows(): all are looked at first, and none is deleted if one is refused.
DeletionBegins(ids) ==
    /\ deleting = << >> /\ ids # {} /\ \A r \in ids : ~Refused(r)
    /\ deleting' = [k \in 1 .. Cardinality(ids) |->
                       LET r == InOrder(ids, ByNumber(ids))[k] IN [id |-> r, row |-> rows[r]]]
    /\ UNCHANGED <<rows, arrived, thread, gone, freed>>

\* mark_deleted(): whatever the row is by now
MarkDeleted(r) ==
    rows' = IF Stored(r) THEN [rows EXCEPT ![r].deleted = TRUE] ELSE rows

\* The next of them: it is known to be gone, Telegram deletes it, or refuses to.
DeletionGoesOn ==
    /\ deleting # << >> /\ deleting' = Tail(deleting)
    /\ \/ /\ ~Head(deleting).row.deleted
          /\ gone' = gone \cup {Head(deleting).row.message}
          /\ MarkDeleted(Head(deleting).id)
       \/ UNCHANGED <<rows, gone>>
    /\ UNCHANGED <<arrived, thread, freed>>

TranscriptNext ==
    \/ \E m \in Live : InsertLive(m)
    \/ \E i \in Imports : \/ RawStarts(i) \/ InsertImported(i) \/ ResolveImportReplies(i)
                          \/ MakeVisible(i) \/ RollBack(i)
    \/ DiesAndRecovers
    \/ \E m \in Messages, sources \in Sources : OwnerDeletes(Date[m] + 1, sources)
    \/ \E ids \in SUBSET DOMAIN rows : DeletionBegins(ids)
    \/ DeletionGoesOn

TranscriptSpec == TranscriptInit /\ [][TranscriptNext]_transcriptVars

-----------------------------------------------------------------------------
(* What the model reads *)

Hidden(r) == rows[r].source \in Imports /\ Running(rows[r].source)
Shown(r) == ~Hidden(r) /\ ~rows[r].deleted

IsBefore(q, r) ==
    LET d == Date[rows[q].message] e == Date[rows[r].message]
    IN  d < e \/ (d = e /\ q < r)
EarlierRows(t) == {r \in DOMAIN rows : Shown(r) /\ IsBefore(r, t)}
ByDate(S) == {p \in S \X S : IsBefore(p[1], p[2])}
Earlier(t) == InOrder(EarlierRows(t), ByDate(EarlierRows(t)))

\* recent_window(): its start moves in whole steps
RecentWindowOf(t) ==
    LET total == Len(Earlier(t))
        start == IF total <= RecentWindow THEN 0
                 ELSE ((total - RecentWindow) \div WindowStep) * WindowStep
    IN  SubSeq(Earlier(t), start + 1, total)

\* between(): the newest of those since a date
Since(t, date) ==
    LET S == {r \in EarlierRows(t) : Date[rows[r].message] >= date}
        found == InOrder(S, ByDate(S))
    IN  SubSeq(found, Max({0, Len(found) - MaxScope}) + 1, Len(found))

Windows(t) == {RecentWindowOf(t)} \cup {Since(t, Date[m]) : m \in Messages}

\* _fit_budget() drops as many of the oldest as the budget asks for.
Kept(window, dropped) == SubSeq(window, dropped + 1, Len(window))

\* _reply_link(): not a link to the line above or to one that is there
Quoted(kept) ==
    LET quotes(k) == LET target == rows[kept[k]].reply
                     IN  /\ target \notin {Nothing} \cup Range(kept) /\ Stored(target)
                         /\ (k = 1 \/ kept[k - 1] # target)
    IN  {rows[kept[k]].reply : k \in {n \in DOMAIN kept : quotes(n)}}

\* _current_request(): the target of the request itself, by the window as it
\* was before anything was dropped
RequestQuotes(t, window) ==
    {rows[t].reply} \cap (DOMAIN rows \ Range(window))

Read(t, window, dropped) ==
    {t} \cup Range(Kept(window, dropped)) \cup Quoted(Kept(window, dropped))
        \cup RequestQuotes(t, window)

Requests == {r \in DOMAIN rows : rows[r].source = FromTelegram}

-----------------------------------------------------------------------------
(* Properties *)

\* A link leads to the message that was replied to, of the same import: what
\* is deleted leaves no link that another row could take over.
LinksAreTrue ==
    \A r \in DOMAIN rows : rows[r].reply # Nothing =>
        /\ Stored(rows[r].reply)
        /\ rows[rows[r].reply].message = ReplyTo[rows[r].message]
        /\ rows[rows[r].reply].source = rows[r].source

\* No prompt has a word of an import that is being stored, not even as a
\* quote, and a message is not there twice.
ReadsWholeImports ==
    \A t \in Requests : \A window \in Windows(t) : \A dropped \in 0 .. Len(window) :
        LET read == Read(t, window, dropped)
        IN  /\ \A r \in read : ~Hidden(r)
            /\ \A q, r \in read : rows[q].message = rows[r].message => q = r

\* What is marked as deleted was deleted by the bot, and only its own
\* messages were: but for a row the owner deleted meanwhile, whose ID a new
\* message may have.
DeletionsAreTrue ==
    /\ gone \subseteq Own \ Pinned
    /\ \A r \in DOMAIN rows \ freed : rows[r].deleted => rows[r].message \in gone

\* One message later, the recent window begins with the same message or a
\* whole step later, and it is never shorter than asked for.
PrefixMovesInSteps ==
    \A t, u \in Requests :
        LET longer == Append(RecentWindowOf(t), t)
        IN  /\ Len(RecentWindowOf(t)) < RecentWindow + WindowStep
            /\ Len(RecentWindowOf(t)) < RecentWindow => RecentWindowOf(t) = Earlier(t)
            /\ Earlier(u) = Append(Earlier(t), t) =>
                   RecentWindowOf(u) \in {longer, SubSeq(longer, WindowStep + 1, Len(longer))}

TranscriptIsTrue ==
    TranscriptTypeOK /\ LinksAreTrue /\ ReadsWholeImports /\ DeletionsAreTrue /\ PrefixMovesInSteps

\* The message that a request replies to is read with it, whether or not it is
\* among the recent ones (tests/test_context.py, "outside window is quoted").
RequestShowsItsTarget ==
    \A t \in Requests : rows[t].reply # Nothing =>
        \A window \in Windows(t) : \A dropped \in 0 .. Len(window) :
            rows[t].reply \in Read(t, window, dropped)
=============================================================================
