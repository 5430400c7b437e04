---------------------------- MODULE DigestKeeper ----------------------------
(***************************************************************************)
(* The rolling digest of one chat (naruto/memory/keeper.py and             *)
(* naruto/db/digests.py): the keeper reads the messages the digest has not *)
(* read, asks the model for a new text and saves it, while messages come   *)
(* and go, the owner saves and clears the digest and the group is upgraded.*)
(*                                                                         *)
(* A digest is abstracted to what it was made from: the owner's change its *)
(* text builds on and the messages it has read.  The other chats of a pass *)
(* of the keeper are only seen as a wait before this chat's turn.  Notes   *)
(* and the record of the run, written after the digest, are left out.      *)
(***************************************************************************)
EXTENDS Integers, FiniteSets

CONSTANTS MessageCount,  \* bound: how many messages come
          Date,          \* the date of each: any, in the order they are stored
          Every,         \* memory.digest_every_messages
          QuietMin,      \* QUIET_MIN_MESSAGES
          MaxChanges,    \* bound: how often the owner saves or clears
          Upgrades       \* the group may become a supergroup

Messages == 1 .. MessageCount

ASSUME DigestAssumption ==
    /\ MessageCount \in Nat
    /\ Date \in [Messages -> Nat]
    /\ Every \in Nat \ {0}
    /\ QuietMin \in Nat \ {0}
    /\ MaxChanges \in Nat
    /\ Upgrades \in BOOLEAN

VARIABLES
    chat,       \* the chat's ID: "old", or "new" once upgraded
    enabled,    \* its status
    arrived,    \* how many messages were stored so far
    kept,       \* those the owner has not deleted
    row,        \* the digests table
    requested,  \* _requested
    keeper,     \* "asleep", "listed" in a pass under way, or "asking"
    asked,      \* what the update under way has read
    changes,    \* the owner's changes so far
    cleared,    \* the last of them that deleted the digest
    late        \* the messages stored out of order (see OutOfOrder)

table == <<chat, enabled, row>>
messages == <<arrived, kept, late>>
update == <<keeper, asked>>
edits == <<changes, cleared>>
vars == <<table, messages, requested, update, edits>>

ChatIds == {"old", "new"}

(* builtOn: the owner's last change when the text was begun; read: the     *)
(* messages it was made from; cursor: last_message_date and last_row_id,   *)
(* as the message they name (0: NULL); failed: within RETRY_AFTER_SECONDS  *)
(* of failed_at.  A row without a text only has an error; no row has the   *)
(* revision NoRow, the expected_revision None of an update.                *)
NoRevision == -1

Digest == [text : BOOLEAN, builtOn : 0 .. MaxChanges, read : SUBSET Messages,
           cursor : 0 .. MessageCount, revision : Nat \cup {NoRevision},
           failed : BOOLEAN]

Absent == [text |-> FALSE, builtOn |-> 0, read |-> {}, cursor |-> 0,
           revision |-> NoRevision, failed |-> FALSE]

Update == [chat : ChatIds, revision : Nat \cup {NoRevision}, builtOn : 0 .. MaxChanges,
           read : SUBSET Messages, last : 0 .. MessageCount]

\* Nothing read yet, of the chat c.
Nothing(c) == [chat |-> c, revision |-> NoRevision, builtOn |-> 0, read |-> {}, last |-> 0]

TypeOK ==
    /\ chat \in ChatIds
    /\ enabled \in BOOLEAN
    /\ arrived \in 0 .. MessageCount
    /\ kept \subseteq 1 .. arrived
    /\ row \in [ChatIds -> Digest]
    /\ \A c \in ChatIds : row[c] = Absent \/ row[c].revision # NoRevision
    /\ requested \subseteq ChatIds
    /\ keeper \in {"asleep", "listed", "asking"}
    /\ asked \in Update
    /\ changes \in 0 .. MaxChanges
    /\ cleared \in 0 .. changes
    /\ late \subseteq 1 .. arrived

-----------------------------------------------------------------------------
(* The digests table *)

\* m comes before n in the order of _unread_where; 0 is before all.
Before(m, n) ==
    \/ m = 0
    \/ Date[m] < Date[n]
    \/ Date[m] = Date[n] /\ m < n

\* What the digest has not read of the chat c.  Messages are moved with their
\* chat: the ID left behind has none.
Unread(c) ==
    IF c = chat THEN {m \in kept : Before(row[c].cursor, m)} ELSE {}

Requested(c) == c \in requested

Failed(c) == row[c].failed

\* A new row has revision 1.
NextRevision(d) == IF d = Absent THEN 1 ELSE d.revision + 1

\* save() by the owner: any revision, and the cursor stays.
Written(d) ==
    [text |-> TRUE, builtOn |-> changes', read |-> d.read, cursor |-> d.cursor,
     revision |-> NextRevision(d), failed |-> FALSE]

\* Mutant: no revision is expected.
AnyRevision(d) == TRUE

\* save() by an update: the row must be as the update read it.
Expected(d) == d.revision = asked.revision

\* Mutant: the cursor moves to the newest message.
UpdatedToNewest(d) ==
    [text |-> TRUE, builtOn |-> asked.builtOn, read |-> asked.read,
     cursor |-> arrived, revision |-> NextRevision(d), failed |-> FALSE]

Updated(d) ==
    [text |-> TRUE, builtOn |-> asked.builtOn, read |-> asked.read,
     cursor |-> asked.last, revision |-> NextRevision(d), failed |-> FALSE]

\* The row with another failed_at and perhaps another revision.
Marked(d, revision, failed) ==
    [text |-> d.text, builtOn |-> d.builtOn, read |-> d.read, cursor |-> d.cursor,
     revision |-> revision, failed |-> failed]

\* set_error(): a new row has the column's default, revision 0.
WithError(d) == Marked(d, IF d = Absent THEN 0 ELSE d.revision, TRUE)

Init ==
    /\ chat = "old"
    /\ enabled = TRUE
    /\ arrived = 0
    /\ kept = {}
    /\ row = [c \in ChatIds |-> Absent]
    /\ requested = {}
    /\ keeper = "asleep"
    /\ asked = Nothing("old")
    /\ changes = 0
    /\ cleared = 0
    /\ late = {}

-----------------------------------------------------------------------------
(* The keeper *)

Sleeps ==
    /\ keeper' = "asleep"
    /\ asked' = Nothing("old")

\* The oldest unread messages, as many as fit.
Batch(c, last) == {m \in Unread(c) : m = last \/ Before(m, last)}

\* _update from its start to the call of the model, for the chat's ID as the
\* pass listed it.
Begin(c) ==
    /\ requested' = requested \ {c}
    /\ \/ /\ Unread(c) = {}
          /\ Sleeps
          /\ UNCHANGED row
       \/ \E last \in Unread(c) :
             /\ keeper' = "asking"
             /\ asked' =
                    [chat |-> c, revision |-> row[c].revision, builtOn |-> changes,
                     read |-> row[c].read \cup Batch(c, last), last |-> last]
             /\ UNCHANGED row
       \/ \* message_budget(): the instructions leave no room for messages
          /\ row' = [row EXCEPT ![c] = WithError(@)]
          /\ Sleeps

\* Mutant: a request does not make the chat due.
DueByCount ==
    Cardinality(Unread(chat)) >= Every /\ ~Failed(chat)

Due ==
    /\ Unread(chat) # {}
    /\ \/ Requested(chat)
       \/ Cardinality(Unread(chat)) >= Every /\ ~Failed(chat)

\* Quiet for so long that fewer messages are enough.
DueWhenQuiet ==
    Cardinality(Unread(chat)) >= QuietMin /\ ~Failed(chat)

\* A pass lists the chat: its turn comes at once or after other chats.
Listed ==
    \/ Begin(chat)
    \/ /\ keeper' = "listed"
       /\ asked' = Nothing(chat)
       /\ UNCHANGED <<row, requested>>

\* due_chats() and the first update of run_due().
Check ==
    /\ keeper = "asleep"
    /\ enabled
    /\ Due
    /\ Listed
    /\ UNCHANGED <<chat, enabled, messages, edits>>

CheckWhenQuiet ==
    /\ keeper = "asleep"
    /\ enabled
    /\ DueWhenQuiet
    /\ Listed
    /\ UNCHANGED <<chat, enabled, messages, edits>>

\* A pass that finds nothing to read drops the request for it.
CheckNothing ==
    /\ keeper = "asleep"
    /\ enabled
    /\ Unread(chat) = {}
    /\ Requested(chat)
    /\ requested' = requested \ {chat}
    /\ UNCHANGED <<table, messages, update, edits>>

\* The other chats before it are done.  The chat is not looked at again.
Turn ==
    /\ keeper = "listed"
    /\ Begin(asked.chat)
    /\ UNCHANGED <<chat, enabled, messages, edits>>

\* The update of a chat before it raised: the pass ends (run_forever).
PassBreaksOff ==
    /\ keeper = "listed"
    /\ Sleeps
    /\ UNCHANGED <<table, messages, requested, edits>>

\* Mutant: the request is dropped when the update is over.
SaveAndDropRequest ==
    /\ keeper = "asking"
    /\ IF Expected(row[asked.chat])
       THEN /\ row' = [row EXCEPT ![asked.chat] = Updated(@)]
            /\ requested' = requested \ {asked.chat}
       ELSE /\ requested' = requested \cup {asked.chat}
            /\ UNCHANGED row
    /\ Sleeps
    /\ UNCHANGED <<chat, enabled, messages, edits>>

\* _update after a usable answer: saved, or discarded and asked for again.
Save ==
    /\ keeper = "asking"
    /\ IF Expected(row[asked.chat])
       THEN /\ row' = [row EXCEPT ![asked.chat] = Updated(@)]
            /\ UNCHANGED requested
       ELSE /\ requested' = requested \cup {asked.chat}
            /\ UNCHANGED row
    /\ Sleeps
    /\ UNCHANGED <<chat, enabled, messages, edits>>

\* _update after an error, or an answer that is no digest.
Fail ==
    /\ keeper = "asking"
    /\ row' = [row EXCEPT ![asked.chat] = WithError(@)]
    /\ Sleeps
    /\ UNCHANGED <<chat, enabled, messages, requested, edits>>

\* RETRY_AFTER_SECONDS have passed.
RetryTimeComes ==
    \E c \in ChatIds :
        /\ Failed(c)
        /\ row' = [row EXCEPT ![c] = Marked(@, @.revision, FALSE)]
        /\ UNCHANGED <<chat, enabled, messages, requested, update, edits>>

-----------------------------------------------------------------------------
(* Its surroundings *)

\* A message that is not after what the digest, or the update under way, has
\* read: nothing makes the bot store messages in the order of their dates.
OutOfOrder(m) ==
    \/ ~Before(row[chat].cursor, m)
    \/ keeper = "asking" /\ ~Before(asked.last, m)

\* The recorder and the bot store what is said while the chat is enabled.
Store ==
    /\ enabled
    /\ arrived < MessageCount
    /\ arrived' = arrived + 1
    /\ kept' = kept \cup {arrived + 1}
    /\ late' = late \cup {m \in {arrived + 1} : OutOfOrder(m)}
    /\ UNCHANGED <<table, requested, update, edits>>

\* The owner deletes the messages before a date, or all.
DeleteMessages ==
    \E before \in Messages :
        /\ kept' = {m \in kept : Date[m] > Date[before]}
        /\ kept' # kept
        /\ UNCHANGED <<arrived, late, table, requested, update, edits>>

\* request_update(): the owner's button, or the end of a /summary, which may
\* have begun before the upgrade.
Request ==
    /\ \E c \in {"old", chat} : requested' = requested \cup {c}
    /\ UNCHANGED <<table, messages, update, edits>>

\* The owner changes the digest; counted for the bounds.
OwnerChanges ==
    /\ changes < MaxChanges
    /\ changes' = changes + 1

\* save_digest() of the web admin.
OwnerSaves ==
    /\ OwnerChanges
    /\ row' = [row EXCEPT ![chat] = Written(@)]
    /\ UNCHANGED cleared
    /\ UNCHANGED <<chat, enabled, messages, requested, update>>

\* clear_digest().
OwnerClears ==
    /\ row[chat] # Absent
    /\ OwnerChanges
    /\ row' = [row EXCEPT ![chat] = Absent]
    /\ cleared' = changes'
    /\ UNCHANGED <<chat, enabled, messages, requested, update>>

ChangeStatus ==
    /\ enabled' = ~enabled
    /\ UNCHANGED <<chat, row, messages, requested, update, edits>>

\* ChatRepository.migrate(): all rows move to the new ID, unless it has one.
Upgrade ==
    /\ Upgrades
    /\ chat = "old"
    /\ chat' = "new"
    /\ row' = [row EXCEPT !["new"] = row["old"], !["old"] = Absent]
    /\ UNCHANGED <<enabled, messages, requested, update, edits>>

\* The process is restarted; requests and the pass are only in memory.
Crash ==
    /\ requested' = {}
    /\ Sleeps
    /\ UNCHANGED <<table, messages, edits>>

Next ==
    \/ Check \/ CheckWhenQuiet \/ CheckNothing \/ Turn \/ PassBreaksOff
    \/ Save \/ Fail \/ RetryTimeComes
    \/ Store \/ DeleteMessages \/ Request
    \/ OwnerSaves \/ OwnerClears \/ ChangeStatus \/ Upgrade \/ Crash

Spec == Init /\ [][Next]_vars

\* The keeper's loop goes on, and the model answers or fails.
Fairness ==
    /\ WF_vars(Check)
    /\ WF_vars(CheckNothing)
    /\ WF_vars(Turn)
    /\ WF_vars(Save \/ Fail)
    /\ WF_vars(RetryTimeComes)

FairSpec == Spec /\ Fairness

-----------------------------------------------------------------------------
(* Correctness *)

\* "Their version wins" (keeper.py:232): a text begun before the owner's last
\* change of the digest, a deletion included, does not replace it, however long
\* the model took.  That it may, though the code claims it never does, takes
\* both a deletion and a text of the owner's since the update began: the
\* revisions start over with a new row, and the one expected is met again.
OwnersVersionWins ==
    row[chat].text /\ row[chat].builtOn < changes =>
        row[chat].builtOn < cleared /\ row[chat].builtOn + 2 <= changes

\* The digest has read the messages up to its cursor, and no other: none is
\* read a second time, through discarded updates, the owner's own texts,
\* deleted messages and an upgrade, and the only ones it may skip are those
\* that were stored out of order (digests.py:111 looks at dates alone).
ReadsEachOnce ==
    /\ TypeOK
    /\ \A m \in kept :
          IF Before(row[chat].cursor, m) THEN m \notin row[chat].read
          ELSE m \in row[chat].read \cup late

\* A request is only dropped by an update that begins after it (or that fails
\* at its start), for want of messages, or with the process: never by an
\* update that was under way when it was made.
RequestsAreNotLost ==
    [][\A c \in requested \ requested' :
           \/ keeper # "asking" /\ keeper' = "asking"
           \/ row'[c].failed
           \/ Unread(c) = {}
           \/ Crash]_vars

\* What is due is updated: a request within any time since a failure, enough
\* messages unless the last update failed a moment ago.
DueIsUpdated ==
    /\ \A c \in ChatIds :
           c = chat /\ c \in requested ~> c # chat \/ c \notin requested \/ ~enabled
    /\ Cardinality(Unread(chat)) >= Every /\ ~Failed(chat) ~>
           \/ keeper = "asking"
           \/ Cardinality(Unread(chat)) < Every
           \/ Failed(chat)
           \/ ~enabled

\* No pass ends before this chat's turn from some time on.  The code does not
\* see to it: run_due() takes the chats in one order, and an update of an
\* earlier one that raises each time, or a process that dies each time, keeps
\* those after it from their turn for ever.
PassesReachTheChat ==
    <>[][keeper = "listed" /\ keeper' = "asleep" => Turn]_vars
=============================================================================
