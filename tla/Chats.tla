-------------------------------- MODULE Chats --------------------------------
(***************************************************************************)
(* What the bot knows of a group (naruto/db/chats.py, tg/access.py,        *)
(* tg/recorder.py, web/chats.py): its approval, the bot's membership,      *)
(* its live messages and members, and its two chat IDs when the basic      *)
(* group becomes a supergroup.  What the bot may do there (set_rights) is  *)
(* asked for in the same calls and left out, as it decides nothing here.   *)
(*                                                                         *)
(* Updates are handed over in order and their handlers run concurrently:   *)
(* an action is a handler's code up to its next wait for Telegram, a task  *)
(* is a handler that waits.  The database is one record, so that a handler *)
(* is a composition of the repositories' operations.                       *)
(***************************************************************************)
EXTENDS Integers, FiniteSets, Sequences

CONSTANTS MaxTime,      \* bound: the clock
          MaxMessages,  \* bound: messages members send
          MaxEvents,    \* bound: changes of the group at Telegram
          MaxOwner,     \* bound: what the owner does
          MaxUpdates,   \* bound: updates waiting at Telegram
          MaxTasks      \* concurrent_updates(16)

ASSUME ChatsAssumption ==
    /\ {MaxMessages, MaxEvents, MaxOwner} \subseteq Nat
    /\ {MaxTime, MaxUpdates, MaxTasks} \subseteq Nat \ {0}

Old == 1   \* the basic group's ID
New == 2   \* the supergroup's
Ids == {Old, New}
None == 0  \* NULL
NoRow == << >>

VARIABLES
    db,           \* the tables chats, chat_id_aliases, messages and members
    group,        \* at Telegram: the current ID, whether the bot is in it and may pin
    notices,      \* the upgrade's two service messages still to be handed over
    updates,      \* what else is
    tasks,        \* the handlers that wait for Telegram
    now, said, events, acted,
    told,         \* whether the owner got a message about the bot's latest
                  \* joining, or one failed or was lost in a crash
    astray        \* Telegram's answer was overtaken, a leave failed, or an
                  \* update was lost in a crash

bounds == <<now, said, events, acted>>
vars == <<db, group, notices, updates, tasks, bounds, told, astray>>

Statuses == {"pending", "enabled", "disabled"}
NoTask == [kind |-> "none"]

\* A row of the table chats.
Chat == [status : Statuses, present : BOOLEAN, notified : BOOLEAN, since : 0 .. MaxTime]
Message == [chat : Ids, origin : Ids, n : 1 .. MaxMessages]
Update == [kind : {"join", "gone", "rights", "enable", "disable"}, id : Ids]
     \cup [kind : {"say"}, id : Ids, n : 1 .. MaxMessages]
Task == [kind : {"notify", "joined"}, id : Ids]
   \cup [kind : {"check", "leave"}, id : Ids, answer : {"none", "error", "out", "in"}]

Tables == [chats : [Ids -> {NoRow} \cup Chat], aliases : [Ids -> Ids \cup {None}],
           messages : SUBSET Message, members : SUBSET Ids]

TypeOK ==
    /\ db \in Tables
    /\ group \in [id : Ids, present : BOOLEAN]
    /\ notices \subseteq {"to", "from"}
    /\ updates \in Seq(Update)
    /\ tasks \subseteq Task
    /\ now \in 1 .. MaxTime /\ said \in 0 .. MaxMessages
    /\ told \in {"no", "yes", "missed"} /\ astray \in BOOLEAN

-----------------------------------------------------------------------------
(* The repositories *)

\* resolve(): an alias leads to the current ID; chains are as long as there
\* are IDs.
Resolve(d, c) ==
    LET step(i) == IF d.aliases[i] = None THEN i ELSE d.aliases[i]
    IN  step(step(c))

Known(d, c) == d.chats[Resolve(d, c)] # NoRow

\* get()
Get(d, c) == d.chats[Resolve(d, c)]

\* _update() of a chat that may not exist
Changed(d, c, row) ==
    IF Known(d, c) THEN [d EXCEPT !.chats[Resolve(d, c)] = row] ELSE d

\* upsert_seen(): a new chat is pending.
UpsertSeen(d, c) ==
    IF Known(d, c) THEN d
    ELSE [d EXCEPT !.chats[Resolve(d, c)] =
             [status |-> "pending", present |-> TRUE,
              notified |-> FALSE, since |-> None]]

\* set_status(): the first time a chat is enabled starts its recording.
SetStatus(d, c, status) ==
    LET chat == Get(d, c)
    IN  Changed(d, c, [chat EXCEPT
            !.status = status,
            !.since = IF status = "enabled" /\ chat.since = None THEN now ELSE chat.since])

SetMembership(d, c, present) == Changed(d, c, [Get(d, c) EXCEPT !.present = present])
MarkNotified(d, c) == Changed(d, c, [Get(d, c) EXCEPT !.notified = TRUE])

\* insert_live(): the same message a second time changes nothing.
InsertLive(d, c, u) ==
    IF \E m \in d.messages : m.origin = u.id /\ m.n = u.n THEN d
    ELSE [d EXCEPT !.messages = d.messages \cup {[chat |-> c, origin |-> u.id, n |-> u.n]}]

\* upsert_live() of the one member
UpsertMember(d, c) == [d EXCEPT !.members = d.members \cup {c}]

\* Mutant: the new chat's status and start stay.
MergedAsNew(old, new) == new

\* migrate() with both IDs known: the old approval wins over a pending new
\* chat, and recording began with the earlier start.
Merged(old, new) ==
    [new EXCEPT
        !.status = IF new.status = "pending" THEN old.status ELSE new.status,
        !.since = IF new.since = None \/ (old.since # None /\ old.since < new.since)
                  THEN old.since ELSE new.since]

\* Rows under one ID come under another.
Under(c, from, to) == IF c = from THEN to ELSE c
MovedRows(messages, from, to) == {[m EXCEPT !.chat = Under(m.chat, from, to)] : m \in messages}

\* Mutant: the members stay under the old ID.
MovedMessagesOnly(d, from, to) == [d EXCEPT !.messages = MovedRows(d.messages, from, to)]

\* CHAT_SCOPED_TABLES: rows move to the new ID, or are dropped if it has them.
Moved(d, from, to) ==
    [d EXCEPT !.messages = MovedRows(d.messages, from, to),
              !.members = {Under(c, from, to) : c \in d.members}]

\* Aliases that led to the old ID lead to the new one, too.
AddAlias(d, from, to) ==
    [d EXCEPT !.aliases = [c \in Ids |-> IF c = from \/ d.aliases[c] = from THEN to
                                         ELSE d.aliases[c]]]

\* migrate()
Migrate(d, from, to) ==
    IF d.chats[from] = NoRow THEN [d EXCEPT !.aliases[from] = to]
    ELSE LET row == IF d.chats[to] = NoRow THEN d.chats[from]
                    ELSE Merged(d.chats[from], d.chats[to])
         IN  AddAlias(Moved([d EXCEPT !.chats[to] = row, !.chats[from] = NoRow], from, to),
                      from, to)

-----------------------------------------------------------------------------
\* A handler waits; the bound leaves out two that wait for the same.
Start(task) == Cardinality(tasks) < MaxTasks /\ task \notin tasks /\ tasks' = tasks \cup {task}
Check(c) == [kind |-> "check", id |-> c, answer |-> "none"]
Answered == \E t \in tasks : t.kind = "check" /\ t.answer # "none"

\* notify_pending(): whether the owner is sent a message about the chat
WorthTelling(chat, force) == chat.status # "enabled" /\ (force \/ ~chat.notified)

Init ==
    /\ db = [chats |-> [c \in Ids |-> NoRow], aliases |-> [c \in Ids |-> None],
             messages |-> {}, members |-> {}]
    /\ group = [id |-> Old, present |-> FALSE]
    /\ notices = {} /\ updates = << >> /\ tasks = {}
    /\ now = 1 /\ said = 0 /\ events = 0 /\ acted = 0
    /\ told = "no" /\ astray = FALSE

-----------------------------------------------------------------------------
(* Telegram and the group's members *)

Sends(u) == Len(updates) < MaxUpdates /\ updates' = Append(updates, u)

GroupChanges(g, kind) ==
    /\ events < MaxEvents /\ events' = events + 1
    /\ group' = g
    /\ Sends([kind |-> kind, id |-> g.id])
    /\ astray' = (astray \/ Answered)
    /\ UNCHANGED <<db, notices, tasks, now, said, acted, told>>

AddBot == ~group.present /\ GroupChanges([group EXCEPT !.present = TRUE], "join")
RemoveBot == group.present /\ GroupChanges([group EXCEPT !.present = FALSE], "gone")
Promote == group.present /\ GroupChanges(group, "rights")

Upgrade ==
    /\ group.id = Old /\ group.present
    /\ group' = [group EXCEPT !.id = New]
    /\ notices' = {"to", "from"}
    /\ UNCHANGED <<db, updates, tasks, bounds, told, astray>>

Say ==
    /\ group.present /\ said < MaxMessages /\ said' = said + 1
    /\ Sends([kind |-> "say", id |-> group.id, n |-> said'])
    /\ UNCHANGED <<db, group, notices, tasks, now, events, acted, told, astray>>

\* The owner's /enable or /disable in the group.
OwnerTypes(kind) ==
    /\ group.present /\ acted < MaxOwner /\ acted' = acted + 1
    /\ Sends([kind |-> kind, id |-> group.id])
    /\ UNCHANGED <<db, group, notices, tasks, now, said, events, told, astray>>

Tick ==
    /\ now < MaxTime /\ now' = now + 1
    /\ UNCHANGED <<db, group, notices, updates, tasks, said, events, acted,
                   told, astray>>

-----------------------------------------------------------------------------
(* Handlers, up to their first wait *)

\* on_my_chat_member(): the rights of the bot as a plain member are asked for.
\* Only a join is news for the owner.
OnMember(d, u) ==
    [db |-> SetMembership(UpsertSeen(d, u.id), u.id, u.kind # "gone"),
     task |-> IF u.kind = "join" THEN [kind |-> "joined", id |-> Resolve(d, u.id)] ELSE NoTask]

\* Recorder.on_message(): an unknown group's first message makes it pending;
\* only an enabled group's messages are stored, with their sender.
OnMessage(d, u) ==
    LET seen == UpsertSeen(d, u.id)
        c == Resolve(d, u.id)
    IN  [db |-> IF Get(seen, c).status # "enabled" THEN seen
                ELSE UpsertMember(InsertLive(seen, c, u), c),
         task |-> IF ~Known(d, c) /\ WorthTelling(Get(seen, c), FALSE)
                  THEN [kind |-> "notify", id |-> c] ELSE NoTask]

\* _toggle_command(), and enable() up to the rights check
OnCommand(d, u) ==
    LET on == u.kind = "enable"
    IN  [db |-> SetStatus(UpsertSeen(d, u.id), u.id, IF on THEN "enabled" ELSE "disabled"),
         task |-> IF on THEN Check(Resolve(d, u.id)) ELSE NoTask]

\* What the handlers of an update leave, and the one that waits if one does
Handled(d, u) ==
    CASE u.kind \in {"join", "gone", "rights"} -> OnMember(d, u)
      [] u.kind = "say" -> OnMessage(d, u)
      [] u.kind \in {"enable", "disable"} -> OnCommand(d, u)
      [] u.kind = "to" -> [db |-> Migrate(d, Old, New), task |-> NoTask]
      [] u.kind = "from" -> [db |-> Migrate(d, Old, New), task |-> NoTask]

Dispatch ==
    /\ updates # << >>
    /\ LET u == Head(updates)
           handled == Handled(db, u)
       IN  /\ db' = handled.db
           /\ IF handled.task = NoTask THEN UNCHANGED tasks ELSE Start(handled.task)
           /\ updates' = Tail(updates)
           /\ told' = IF u.kind = "join" /\ told = "yes" THEN "no" ELSE told
    /\ UNCHANGED <<group, notices, bounds, astray>>

\* The upgrade's service messages belong to two chats: they come in any order
\* and between the group's other updates.
DispatchNotice ==
    \E kind \in notices :
       /\ db' = Handled(db, [kind |-> kind]).db
       /\ notices' = notices \ {kind}
       /\ UNCHANGED <<group, updates, tasks, bounds, told, astray>>

\* send_text() and its like learn of the upgrade from Telegram's refusal.
RefusedAsMigrated ==
    /\ group.id = New /\ db.chats[Old] # NoRow
    /\ db' = Migrate(db, Old, New)
    /\ UNCHANGED <<group, notices, updates, tasks, bounds, told, astray>>

-----------------------------------------------------------------------------
(* The web admin and the buttons of the owner's messages, with either ID *)

OwnerActs == acted < MaxOwner /\ acted' = acted + 1
Rest == UNCHANGED <<group, notices, updates, now, said, events, told, astray>>

\* enable(), up to the rights check
EnableChat(c) ==
    /\ Known(db, c)
    /\ db' = SetStatus(db, c, "enabled")
    /\ Start(Check(Resolve(db, c)))

\* leave(), up to Telegram's answer
LeaveChat(c) ==
    /\ Known(db, c)
    /\ Start([kind |-> "leave", id |-> Resolve(db, c), answer |-> "none"])
    /\ UNCHANGED db

\* on_callback(): Approve or Leave, under a message that may be old
Button(c) == OwnerActs /\ (EnableChat(c) \/ LeaveChat(c)) /\ Rest

PageEnables(c) ==
    OwnerActs /\ Known(db, c) /\ Get(db, c).status # "enabled" /\ EnableChat(c) /\ Rest

PageDisables(c) ==
    /\ OwnerActs /\ Known(db, c) /\ Get(db, c).status # "disabled"
    /\ db' = SetStatus(db, c, "disabled")
    /\ UNCHANGED tasks /\ Rest

PageLeaves(c) == OwnerActs /\ LeaveChat(c) /\ Rest

PageChecks(c) ==
    /\ OwnerActs /\ Known(db, c)
    /\ Start(Check(Resolve(db, c)))
    /\ UNCHANGED db /\ Rest

\* refresh_rights(): the enabled chats that are not marked as left
Refresh(c) ==
    /\ db.chats[c] # NoRow /\ db.chats[c].status = "enabled" /\ db.chats[c].present
    /\ Start(Check(c))
    /\ UNCHANGED <<db, acted>> /\ Rest

-----------------------------------------------------------------------------
(* Telegram answers, and the handlers go on *)

\* get_chat_member() and leave_chat(): the answer is on its way.
Answer(t) ==
    /\ t.kind \in {"check", "leave"} /\ t.answer = "none"
    /\ LET answer == IF t.id # group.id THEN "error"
                     ELSE IF group.present THEN "in" ELSE "out"
       IN  \E a \in {answer, "error"} :
              /\ tasks' = (tasks \ {t}) \cup {[t EXCEPT !.answer = a]}
              /\ IF t.kind = "leave" /\ a = "in"
                 THEN /\ group' = [group EXCEPT !.present = FALSE]
                      /\ Sends([kind |-> "gone", id |-> group.id])
                      /\ astray' = (astray \/ Answered)
                 ELSE UNCHANGED <<group, updates, astray>>
    /\ UNCHANGED <<db, notices, bounds, told>>

Ends(t) == tasks' = tasks \ {t}

\* check_rights(): an error changes nothing.
CheckEnds(t) ==
    /\ t.kind = "check" /\ t.answer # "none"
    /\ db' = IF t.answer = "error" THEN db ELSE SetMembership(db, t.id, t.answer = "in")
    /\ Ends(t)
    /\ UNCHANGED <<group, notices, updates, bounds, told, astray>>

\* leave(): whatever Telegram answered, the chat is marked as left and disabled.
LeaveEnds(t) ==
    /\ t.kind = "leave" /\ t.answer # "none"
    /\ db' = SetStatus(SetMembership(db, t.id, FALSE), t.id, "disabled")
    /\ astray' = (astray \/ group.present)
    /\ Ends(t)
    /\ UNCHANGED <<group, notices, updates, bounds, told>>

\* on_my_chat_member() has the rights of a plain member, or an error, and
\* reads the chat again.
JoinedEnds(t) ==
    /\ t.kind = "joined"
    /\ tasks' = (tasks \ {t}) \cup
          IF WorthTelling(Get(db, t.id), TRUE)
          THEN {[kind |-> "notify", id |-> Resolve(db, t.id)]} ELSE {}
    /\ UNCHANGED <<db, group, notices, updates, bounds, told, astray>>

\* The owner's message was sent, or refused: they never wrote to the bot.
NotifyEnds(t) ==
    /\ t.kind = "notify"
    /\ \/ /\ db' = MarkNotified(db, t.id)
          /\ told' = IF told = "no" THEN "yes" ELSE told
       \/ told' = "missed" /\ UNCHANGED db
    /\ Ends(t)
    /\ UNCHANGED <<group, notices, updates, bounds, astray>>

\* The process dies and starts again, perhaps while it handles an update:
\* handlers break off, and of the updates the first, or a notice of the
\* upgrade, may have been fetched and is lost, or comes again though handled.
Crash ==
    /\ tasks' = {}
    /\ \/ tasks # {} /\ UNCHANGED <<db, updates, notices>>
       \/ updates # << >> /\ updates' = Tail(updates) /\ UNCHANGED <<db, notices>>
       \/ updates # << >> /\ db' = Handled(db, Head(updates)).db /\ UNCHANGED <<updates, notices>>
       \/ \E kind \in notices : notices' = notices \ {kind} /\ UNCHANGED <<db, updates>>
       \/ \E kind \in notices :
             db' = Handled(db, [kind |-> kind]).db /\ UNCHANGED <<updates, notices>>
    /\ LET lost == updates' # updates \/ notices' # notices
       IN  /\ told' = IF lost \/ \E t \in tasks : t.kind \in {"notify", "joined"}
                      THEN "missed" ELSE told
           /\ astray' = (astray \/ lost \/ \E t \in tasks : t.kind = "leave")
    /\ UNCHANGED <<group, bounds>>

Next ==
    \/ AddBot \/ RemoveBot \/ Promote \/ Upgrade \/ Say \/ Tick
    \/ OwnerTypes("enable") \/ OwnerTypes("disable")
    \/ Dispatch \/ DispatchNotice \/ RefusedAsMigrated \/ Crash
    \/ \E c \in Ids : Button(c) \/ PageEnables(c) \/ PageDisables(c) \/ PageLeaves(c)
                    \/ PageChecks(c) \/ Refresh(c)
    \/ \E t \in tasks : Answer(t) \/ CheckEnds(t) \/ LeaveEnds(t) \/ JoinedEnds(t) \/ NotifyEnds(t)

Spec == Init /\ [][Next]_vars

-----------------------------------------------------------------------------
(* Correctness *)

Quiet == tasks = {} /\ updates = << >> /\ notices = {}

\* Whatever order the upgrade's messages, the group's and the handlers that
\* still hold its old ID come in, the group is one chat: an ID that leads to
\* another has no row of its own, and every message and member is under an ID
\* that has one.
OneChatPerGroup ==
    /\ \A c \in Ids : db.aliases[c] # None =>
          db.chats[c] = NoRow /\ db.aliases[Resolve(db, c)] = None
    /\ \A m \in db.messages : db.chats[m.chat] # NoRow
    /\ \A c \in db.members : db.chats[c] # NoRow

\* The owner's word: a step that is not theirs never takes a decision about
\* the group back, nor the moment its recording began, which stops imports; a
\* later one would have the messages since counted twice.
OwnersStep ==
    \/ acted' # acted
    \/ \E t \in tasks : LeaveEnds(t)
    \/ updates # << >> /\ Head(updates).kind \in {"enable", "disable"}
StandingKept ==
    [][ \A c \in Ids : Known(db, c) =>
          LET was == Get(db, c)
              is == Get(db', c)
          IN  /\ was.since # None => is.since # None /\ is.since <= was.since
              /\ was.status = "enabled" \/ was.status = "disabled" =>
                    OwnersStep \/ is.status = was.status
                    \/ (c = Old /\ db.chats[New] # NoRow /\ is.status = db.chats[New].status)
      ]_vars

\* Every joining of a pending group is news the owner got, unless Telegram
\* refused the message or a crash took it, or news of the group with it.
OwnerIsTold ==
    Quiet /\ told # "missed" => \A c \in Ids :
        db.chats[c] # NoRow /\ db.chats[c].status = "pending" /\ db.chats[c].present =>
            told = "yes"

\* What is known of the bot's membership is true, unless an answer was
\* overtaken by a change, a leave failed or a crash took an update: then
\* nothing asks again.
MembershipIsTrue ==
    Quiet /\ ~astray => \A c \in Ids :
        db.chats[c] # NoRow => db.chats[c].present = group.present

\* A group is one chat, with its messages, its members and what is true of the
\* bot in it, whatever is announced late or twice; and the owner is told of it.
GroupsSound == TypeOK /\ OneChatPerGroup /\ MembershipIsTrue /\ OwnerIsTold
=============================================================================
