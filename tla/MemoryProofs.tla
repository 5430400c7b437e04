----------------------------- MODULE MemoryProofs -----------------------------
(***************************************************************************)
(* Proofs about what the bot keeps besides the history, for any            *)
(* parameters.  The digest, the reminders and the database share no state  *)
(* and are composed in MCDigestKeeper.                                     *)
(*                                                                         *)
(* DigestKeeper: its type invariant, that the digest reads a message at    *)
(* most once and skips none but those stored out of order, that the        *)
(* owner's version wins but over a clearing and a text of one update, and  *)
(* that no request is lost.                                                *)
(*                                                                         *)
(* Reminders: RemindedOnce.  It is not inductive: that a reminder is sent  *)
(* once needs that a list has it once (PassIsSound), and a count of what   *)
(* was sent beside what failed, crashed and is closed (Counted).           *)
(*                                                                         *)
(* Database: the types of its state, and DatabaseIsSound.  Shape says      *)
(* where the threads are: one at most is in a block, it has the lock, and  *)
(* a transaction is open for it alone.  It is inductive by itself.         *)
(* Content says what the transaction has beyond the disk, and that its     *)
(* rows are new: with Shape it is inductive too.                           *)
(*                                                                         *)
(* PeopleNotes: MemoryIsSound and LockedNotesStay.  The operators of People*)
(* are functions of a database record, so most of the work is lemmas about *)
(* them: an operator either follows a record (Follows: it adds people and  *)
(* changes accounts without taking one from anybody), merges two people, or*)
(* changes notes only.                                                     *)
(***************************************************************************)
EXTENDS DigestKeeper, Reminders, Database, PeopleNotes, FiniteSetTheorems,
        WellFoundedInduction, TLAPS

-----------------------------------------------------------------------------
(* Digests *)

LEMMA MarkedFields ==
    ASSUME NEW d, NEW r, NEW f
    PROVE  /\ Marked(d, r, f).text = d.text
           /\ Marked(d, r, f).builtOn = d.builtOn
           /\ Marked(d, r, f).read = d.read
           /\ Marked(d, r, f).cursor = d.cursor
           /\ Marked(d, r, f).revision = r
           /\ Marked(d, r, f).failed = f
BY DEF Marked

LEMMA UpdatedFields ==
    ASSUME NEW d
    PROVE  /\ Updated(d).text = TRUE
           /\ Updated(d).builtOn = asked.builtOn
           /\ Updated(d).read = asked.read
           /\ Updated(d).cursor = asked.last
           /\ Updated(d).revision = NextRevision(d)
           /\ Updated(d).failed = FALSE
BY DEF Updated

LEMMA WrittenFields ==
    ASSUME NEW d
    PROVE  /\ Written(d).text = TRUE
           /\ Written(d).builtOn = changes'
           /\ Written(d).read = d.read
           /\ Written(d).cursor = d.cursor
           /\ Written(d).revision = NextRevision(d)
           /\ Written(d).failed = FALSE
BY DEF Written

LEMMA AbsentFields ==
    /\ Absent.text = FALSE
    /\ Absent.builtOn = 0
    /\ Absent.read = {}
    /\ Absent.cursor = 0
    /\ Absent.revision = NoRevision
    /\ Absent.failed = FALSE
BY DEF Absent

\* A digest in the table, and one that has a row.
Good(d) == d \in Digest /\ (d = Absent \/ d.revision # NoRevision)

LEMMA DigestFields ==
    ASSUME NEW d \in Digest
    PROVE  /\ d.text \in BOOLEAN
           /\ d.builtOn \in 0 .. MaxChanges
           /\ d.read \in SUBSET Messages
           /\ d.cursor \in 0 .. MessageCount
           /\ d.revision \in Nat \cup {NoRevision}
           /\ d.failed \in BOOLEAN
BY DEF Digest

LEMMA AbsentGood == Good(Absent)
BY DigestAssumption DEF Good, Absent, Digest, NoRevision

LEMMA NextRevisionType ==
    ASSUME NEW d, Good(d)
    PROVE  /\ NextRevision(d) \in Nat
           /\ d.revision \in Int
           /\ NextRevision(d) > d.revision
BY DigestFields, AbsentFields DEF Good, NextRevision, NoRevision

LEMMA MarkedGood ==
    ASSUME NEW d, Good(d), NEW r \in Nat, NEW f \in BOOLEAN
    PROVE  Good(Marked(d, r, f))
<1>1. Marked(d, r, f) \in Digest
  BY DigestFields DEF Good, Marked, Digest
<1>2. r # NoRevision
  BY DEF NoRevision
<1> QED BY <1>1, <1>2, MarkedFields DEF Good

LEMMA WithErrorGood ==
    ASSUME NEW d, Good(d)
    PROVE  Good(WithError(d))
<1>1. (IF d = Absent THEN 0 ELSE d.revision) \in Nat
  BY DigestFields DEF Good
<1> QED BY <1>1, MarkedGood DEF WithError

LEMMA UpdatedGood ==
    ASSUME NEW d, Good(d), asked \in Update
    PROVE  Good(Updated(d))
<1>1. NextRevision(d) \in Nat /\ NextRevision(d) # NoRevision
  BY NextRevisionType DEF NoRevision
<1>2. /\ asked.builtOn \in 0 .. MaxChanges
      /\ asked.read \in SUBSET Messages
      /\ asked.last \in 0 .. MessageCount
  BY DEF Update
<1>3. Updated(d) \in Digest
  BY <1>1, <1>2 DEF Updated, Digest
<1> QED BY <1>1, <1>3, UpdatedFields DEF Good

LEMMA WrittenGood ==
    ASSUME NEW d, Good(d), changes' \in 0 .. MaxChanges
    PROVE  Good(Written(d))
<1>1. NextRevision(d) \in Nat /\ NextRevision(d) # NoRevision
  BY NextRevisionType DEF NoRevision
<1>2. Written(d) \in Digest
  BY <1>1, DigestFields DEF Good, Written, Digest
<1> QED BY <1>1, <1>2, WrittenFields DEF Good
-----------------------------------------------------------------------------
(* Types *)

RowsGood == row \in [ChatIds -> Digest] /\ \A c \in ChatIds : Good(row[c])

\* All of TypeOK but the table.
RestTyped ==
    /\ chat \in ChatIds
    /\ enabled \in BOOLEAN
    /\ arrived \in 0 .. MessageCount
    /\ kept \subseteq 1 .. arrived
    /\ requested \subseteq ChatIds
    /\ keeper \in {"asleep", "listed", "asking"}
    /\ asked \in Update
    /\ changes \in 0 .. MaxChanges
    /\ cleared \in 0 .. changes
    /\ late \subseteq 1 .. arrived

LEMMA TypeParts == TypeOK <=> RowsGood /\ RestTyped
BY DEF TypeOK, RowsGood, RestTyped, Good

LEMMA TypePartsNext == RowsGood' /\ RestTyped' => TypeOK'
BY TypeParts, PTL

LEMMA RowStep ==
    ASSUME RowsGood, NEW c \in ChatIds, NEW d, Good(d),
           row' = [row EXCEPT ![c] = d]
    PROVE  RowsGood'
BY DEF RowsGood, Good

LEMMA NothingType == \A c \in ChatIds : Nothing(c) \in Update
BY DigestAssumption DEF Nothing, Update, NoRevision

LEMMA SleepsType ==
    ASSUME Sleeps
    PROVE  /\ keeper' \in {"asleep", "listed", "asking"}
           /\ asked' \in Update
BY NothingType, DigestAssumption DEF Sleeps, ChatIds

LEMMA UnreadType ==
    ASSUME RestTyped, NEW c
    PROVE  Unread(c) \subseteq kept /\ Unread(c) \subseteq Messages
<1>1. Unread(c) \subseteq kept
  BY DEF Unread
<1>2. kept \subseteq Messages
  BY DigestAssumption DEF RestTyped, Messages
<1> QED BY <1>1, <1>2

\* What a step of the keeper leaves alone.
KeeperStep == UNCHANGED <<chat, enabled, messages, edits>>

LEMMA BeginType ==
    ASSUME TypeOK, NEW c \in ChatIds, Begin(c), KeeperStep
    PROVE  TypeOK'
<1>1. RowsGood /\ RestTyped
  BY TypeParts
<1>2. CASE Unread(c) = {} /\ Sleeps /\ UNCHANGED row
  BY <1>1, <1>2, SleepsType, TypePartsNext
     DEF Begin, KeeperStep, messages, edits, RowsGood, RestTyped, Good
<1>3. CASE row' = [row EXCEPT ![c] = WithError(@)] /\ Sleeps
  <2>1. RowsGood'
    BY <1>1, <1>3, RowStep, WithErrorGood DEF RowsGood
  <2> QED BY <1>1, <1>3, <2>1, SleepsType, TypePartsNext
             DEF Begin, KeeperStep, messages, edits, RestTyped
<1>4. ASSUME NEW last \in Unread(c),
             keeper' = "asking",
             asked' = [chat |-> c, revision |-> row[c].revision, builtOn |-> changes,
                       read |-> row[c].read \cup Batch(c, last), last |-> last],
             UNCHANGED row
      PROVE  TypeOK'
  <2>1. Unread(c) \subseteq Messages
    BY <1>1, UnreadType
  <2>2. row[c].read \cup Batch(c, last) \in SUBSET Messages
    BY <1>1, <2>1, DigestFields DEF Batch, RowsGood
  <2>3. asked' \in Update
    BY <1>1, <1>4, <2>1, <2>2, DigestFields DEF Update, RowsGood, RestTyped, Messages
  <2> QED BY <1>1, <1>4, <2>3, TypePartsNext, DigestAssumption
             DEF Begin, KeeperStep, messages, edits, RowsGood, RestTyped, Good
<1> QED BY <1>2, <1>3, <1>4 DEF Begin

LEMMA ListedType ==
    ASSUME TypeOK, Listed, KeeperStep
    PROVE  TypeOK'
<1>1. RowsGood /\ RestTyped
  BY TypeParts
<1>2. CASE Begin(chat)
  BY <1>1, <1>2, BeginType DEF RestTyped
<1>3. CASE /\ keeper' = "listed"
           /\ asked' = Nothing(chat)
           /\ UNCHANGED <<row, requested>>
  BY <1>1, <1>3, NothingType, TypePartsNext
     DEF KeeperStep, messages, edits, RowsGood, RestTyped, Good
<1> QED BY <1>2, <1>3 DEF Listed

LEMMA SaveType ==
    ASSUME TypeOK, Save
    PROVE  TypeOK'
<1>1. RowsGood /\ RestTyped
  BY TypeParts
<1>2. asked.chat \in ChatIds
  BY <1>1 DEF RestTyped, Update
<1>3. RowsGood'
  <2>1. CASE Expected(row[asked.chat])
    BY <1>1, <1>2, <2>1, RowStep, UpdatedGood DEF Save, RowsGood, RestTyped
  <2>2. CASE ~Expected(row[asked.chat])
    BY <1>1, <2>2 DEF Save, RowsGood, Good
  <2> QED BY <2>1, <2>2
<1>4. requested' \subseteq ChatIds
  BY <1>1, <1>2 DEF Save, RestTyped
<1> QED BY <1>1, <1>3, <1>4, SleepsType, TypePartsNext DEF Save, messages, edits, RestTyped

LEMMA FailType ==
    ASSUME TypeOK, Fail
    PROVE  TypeOK'
<1>1. RowsGood /\ RestTyped
  BY TypeParts
<1>2. asked.chat \in ChatIds
  BY <1>1 DEF RestTyped, Update
<1>3. RowsGood'
  BY <1>1, <1>2, RowStep, WithErrorGood DEF Fail, RowsGood
<1> QED BY <1>1, <1>3, SleepsType, TypePartsNext DEF Fail, messages, edits, RestTyped

LEMMA RetryTimeType ==
    ASSUME TypeOK, RetryTimeComes
    PROVE  TypeOK'
<1>1. RowsGood /\ RestTyped
  BY TypeParts
<1>2. PICK c \in ChatIds : /\ Failed(c)
                       /\ row' = [row EXCEPT ![c] = Marked(@, @.revision, FALSE)]
                       /\ UNCHANGED <<chat, enabled, messages, requested, update,
                                      edits>>
  BY DEF RetryTimeComes
<1>3. row[c].revision \in Nat
  BY <1>1, <1>2, DigestFields, AbsentFields DEF Failed, RowsGood, Good
<1>4. RowsGood'
  BY <1>1, <1>2, <1>3, RowStep, MarkedGood DEF RowsGood
<1> QED BY <1>1, <1>2, <1>4, TypePartsNext DEF messages, update, edits, RestTyped

LEMMA OwnerType ==
    ASSUME TypeOK, OwnerSaves \/ OwnerClears
    PROVE  TypeOK'
<1>1. RowsGood /\ RestTyped
  BY TypeParts
<1>2. changes' \in 0 .. MaxChanges /\ cleared' \in 0 .. changes'
  BY <1>1, DigestAssumption DEF OwnerSaves, OwnerClears, OwnerChanges, RestTyped
<1>3. RowsGood'
  <2>1. CASE OwnerSaves
    BY <1>1, <1>2, <2>1, RowStep, WrittenGood DEF OwnerSaves, RowsGood, RestTyped
  <2>2. CASE OwnerClears
    BY <1>1, <2>2, RowStep, AbsentGood DEF OwnerClears, RestTyped
  <2> QED BY <2>1, <2>2
<1> QED BY <1>1, <1>2, <1>3, TypePartsNext
           DEF OwnerSaves, OwnerClears, messages, update, RestTyped

LEMMA UpgradeType ==
    ASSUME TypeOK, Upgrade
    PROVE  TypeOK'
<1>1. RowsGood /\ RestTyped
  BY TypeParts
<1>2. RowsGood'
  BY <1>1, AbsentGood DEF Upgrade, RowsGood, Good, ChatIds
<1> QED BY <1>1, <1>2, TypePartsNext DEF Upgrade, messages, update, edits, RestTyped, ChatIds

\* The steps that leave the table alone.
LEMMA OtherType ==
    ASSUME TypeOK,
           \/ CheckNothing \/ PassBreaksOff \/ Store \/ DeleteMessages
           \/ Request \/ ChangeStatus \/ Crash \/ UNCHANGED vars
    PROVE  TypeOK'
<1>1. RowsGood /\ RestTyped
  BY TypeParts
<1>2. row' = row
  BY DEF CheckNothing, PassBreaksOff, Store, DeleteMessages, Request,
         ChangeStatus, Crash, vars, table
<1>3. RowsGood'
  BY <1>1, <1>2 DEF RowsGood, Good
<1>4. RestTyped'
  <2>1. CASE CheckNothing
    BY <1>1, <2>1 DEF CheckNothing, RestTyped, table, messages, update, edits
  <2>2. CASE PassBreaksOff
    BY <1>1, <2>2, SleepsType DEF PassBreaksOff, RestTyped, table, messages, edits
  <2>3. CASE Store
    <3>1. arrived \in Nat /\ arrived' = arrived + 1 /\ arrived' \in 0 .. MessageCount
      BY <1>1, <2>3, DigestAssumption DEF Store, RestTyped
    <3>2. late' \subseteq 1 .. arrived'
      <4>1. late \subseteq 1 .. arrived /\ late' \subseteq late \cup {arrived + 1}
        BY <1>1, <2>3 DEF Store, RestTyped
      <4> QED BY <3>1, <4>1
    <3>3. kept' \subseteq 1 .. arrived'
      BY <1>1, <2>3, <3>1 DEF Store, RestTyped
    <3> QED BY <1>1, <2>3, <3>1, <3>2, <3>3 DEF Store, RestTyped, table, update, edits
  <2>4. CASE DeleteMessages
    BY <1>1, <2>4 DEF DeleteMessages, RestTyped, table, update, edits
  <2>5. CASE Request
    BY <1>1, <2>5 DEF Request, RestTyped, table, messages, update, edits, ChatIds
  <2>6. CASE ChangeStatus
    BY <1>1, <2>6 DEF ChangeStatus, RestTyped, messages, update, edits
  <2>7. CASE Crash
    BY <1>1, <2>7, SleepsType DEF Crash, RestTyped, table, messages, edits
  <2>8. CASE UNCHANGED vars
    BY <1>1, <2>8 DEF vars, RestTyped, table, messages, update, edits
  <2> QED BY <2>1, <2>2, <2>3, <2>4, <2>5, <2>6, <2>7, <2>8
<1> QED BY <1>3, <1>4, TypePartsNext

LEMMA NextType == TypeOK /\ [Next]_vars => TypeOK'
<1> SUFFICES ASSUME TypeOK, [Next]_vars PROVE TypeOK'
  OBVIOUS
<1>1. CASE Check \/ CheckWhenQuiet
  BY <1>1, ListedType DEF Check, CheckWhenQuiet, KeeperStep
<1>2. CASE Turn
  <2>1. asked.chat \in ChatIds
    BY DEF TypeOK, Update
  <2> QED BY <1>2, <2>1, BeginType DEF Turn, KeeperStep
<1> QED BY <1>1, <1>2, SaveType, FailType, RetryTimeType, OwnerType, UpgradeType,
           OtherType DEF Next

LEMMA InitType == Init => TypeOK
<1> SUFFICES ASSUME Init PROVE RowsGood /\ RestTyped
  BY TypeParts
<1>1. RowsGood
  BY AbsentGood DEF Init, RowsGood, Good
<1>2. RestTyped
  BY NothingType, DigestAssumption DEF Init, RestTyped, ChatIds
<1> QED BY <1>1, <1>2

\* The keeper's state and the table keep their shape; in particular a digest
\* in the table always has a revision for the next update to expect.
THEOREM TypeCorrect == Spec => []TypeOK
BY InitType, NextType, PTL DEF Spec
-----------------------------------------------------------------------------
(* The owner's version wins *)

\* The owner both cleared the digest and wrote it since the update began.
WrittenAnew == asked.builtOn < cleared /\ asked.builtOn + 2 <= changes

\* What the owner did to the digest since the update under way began, and the
\* revision it has since: nothing, wrote it, or cleared it once.
RevisionTells ==
    \/ asked.builtOn = changes /\ row[chat].revision = asked.revision
    \/ /\ cleared <= asked.builtOn
       /\ asked.builtOn < changes
       /\ row[chat].revision > asked.revision
    \/ /\ cleared = changes
       /\ asked.builtOn + 1 = changes
       /\ row[chat].revision # asked.revision
    \/ WrittenAnew

\* An upgrade leaves the update behind.
UpdateKnows ==
    keeper = "asking" =>
        /\ asked.chat = "new" => chat = "new"
        /\ asked.chat = chat => RevisionTells

OwnerInv == TypeOK /\ OwnersVersionWins /\ UpdateKnows

\* No update is under way after a step, and the digest says what it said.
LEMMA QuietOwner ==
    ASSUME OwnerInv, TypeOK',
           chat' = chat,
           UNCHANGED <<changes, cleared>>,
           row'[chat].text = row[chat].text,
           row'[chat].builtOn = row[chat].builtOn,
           keeper' # "asking"
    PROVE  OwnerInv'
BY DEF OwnerInv, OwnersVersionWins, UpdateKnows

\* The update under way goes on, and so does the digest.
LEMMA UndisturbedOwner ==
    ASSUME OwnerInv, TypeOK',
           UNCHANGED <<chat, changes, cleared, keeper, asked>>,
           row'[chat].text = row[chat].text,
           row'[chat].builtOn = row[chat].builtOn,
           row'[chat].revision = row[chat].revision
    PROVE  OwnerInv'
BY DEF OwnerInv, OwnersVersionWins, UpdateKnows, RevisionTells, WrittenAnew

LEMMA WithErrorKeeps ==
    ASSUME NEW d
    PROVE  WithError(d).text = d.text /\ WithError(d).builtOn = d.builtOn
BY DEF WithError, Marked

LEMMA BeginOwner ==
    ASSUME OwnerInv, TypeOK', NEW c \in ChatIds, Begin(c), KeeperStep
    PROVE  OwnerInv'
<1>1. RowsGood /\ RestTyped
  BY TypeParts DEF OwnerInv
<1>2. chat' = chat /\ UNCHANGED <<changes, cleared>>
  BY DEF KeeperStep, edits
<1>3. CASE Unread(c) = {} /\ Sleeps /\ UNCHANGED row
  BY <1>2, <1>3, QuietOwner DEF Sleeps
<1>4. CASE row' = [row EXCEPT ![c] = WithError(@)] /\ Sleeps
  <2>1. /\ row'[chat].text = row[chat].text
        /\ row'[chat].builtOn = row[chat].builtOn
    BY <1>1, <1>4, WithErrorKeeps DEF RowsGood, RestTyped
  <2> QED BY <1>2, <1>4, <2>1, QuietOwner DEF Sleeps
<1>5. ASSUME NEW last \in Unread(c),
             keeper' = "asking",
             asked' = [chat |-> c, revision |-> row[c].revision, builtOn |-> changes,
                       read |-> row[c].read \cup Batch(c, last), last |-> last],
             UNCHANGED row
      PROVE  OwnerInv'
  <2>1. c = chat
    BY <1>5 DEF Unread
  <2>2. /\ asked'.chat = chat
        /\ asked'.revision = row[chat].revision
        /\ asked'.builtOn = changes
    BY <1>5, <2>1
  <2>3. RevisionTells'
    BY <1>2, <1>5, <2>2 DEF RevisionTells
  <2> QED BY <1>2, <1>5, <2>1, <2>3 DEF OwnerInv, OwnersVersionWins, UpdateKnows
<1> QED BY <1>3, <1>4, <1>5 DEF Begin

LEMMA ListedOwner ==
    ASSUME OwnerInv, TypeOK', Listed, KeeperStep
    PROVE  OwnerInv'
<1>1. chat \in ChatIds
  BY DEF OwnerInv, TypeOK
<1>2. CASE Begin(chat)
  BY <1>1, <1>2, BeginOwner
<1>3. CASE /\ keeper' = "listed"
           /\ asked' = Nothing(chat)
           /\ UNCHANGED <<row, requested>>
  BY <1>3, QuietOwner DEF KeeperStep, edits
<1> QED BY <1>2, <1>3 DEF Listed

LEMMA SaveOwner ==
    ASSUME OwnerInv, TypeOK', Save
    PROVE  OwnerInv'
<1>1. RowsGood /\ RestTyped
  BY TypeParts DEF OwnerInv
<1>2. chat' = chat /\ UNCHANGED <<changes, cleared>> /\ keeper' = "asleep"
  BY DEF Save, Sleeps, edits
<1>3. CASE row'[chat] = row[chat]
  BY <1>2, <1>3, QuietOwner
<1>4. CASE asked.chat = chat /\ Expected(row[chat])
  <2>1. row'[chat] = Updated(row[chat])
    BY <1>1, <1>4 DEF Save, RowsGood, RestTyped
  <2>2. asked.builtOn \in Nat /\ changes \in Nat /\ asked.revision \in Int
    BY <1>1, DigestAssumption DEF RestTyped, Update, NoRevision
  <2>3. asked.builtOn = changes \/ WrittenAnew
    <3>1. RevisionTells
      BY <1>4 DEF OwnerInv, UpdateKnows, Save
    <3>2. row[chat].revision = asked.revision
      BY <1>4 DEF Expected
    <3> QED BY <2>2, <3>1, <3>2 DEF RevisionTells
  <2>4. row'[chat].builtOn = asked.builtOn
    BY <2>1, UpdatedFields
  <2>5. OwnersVersionWins'
    BY <1>2, <2>2, <2>3, <2>4 DEF OwnersVersionWins, WrittenAnew
  <2> QED BY <1>2, <2>5 DEF OwnerInv, UpdateKnows
<1>5. CASE asked.chat # chat \/ ~Expected(row[chat])
  <2>1. row'[chat] = row[chat]
    BY <1>1, <1>5 DEF Save, RowsGood, RestTyped
  <2> QED BY <2>1, <1>3
<1> QED BY <1>4, <1>5

LEMMA FailOwner ==
    ASSUME OwnerInv, TypeOK', Fail
    PROVE  OwnerInv'
<1>1. RowsGood /\ RestTyped
  BY TypeParts DEF OwnerInv
<1>2. /\ row'[chat].text = row[chat].text
      /\ row'[chat].builtOn = row[chat].builtOn
  BY <1>1, WithErrorKeeps DEF Fail, RowsGood, RestTyped
<1> QED BY <1>2, QuietOwner DEF Fail, Sleeps, edits

LEMMA RetryTimeOwner ==
    ASSUME OwnerInv, TypeOK', RetryTimeComes
    PROVE  OwnerInv'
<1>1. RowsGood /\ RestTyped
  BY TypeParts DEF OwnerInv
<1>2. PICK c \in ChatIds : /\ row' = [row EXCEPT ![c] = Marked(@, @.revision, FALSE)]
                       /\ UNCHANGED <<chat, enabled, messages, requested, update,
                                      edits>>
  BY DEF RetryTimeComes
<1>3. /\ row'[chat].text = row[chat].text
      /\ row'[chat].builtOn = row[chat].builtOn
      /\ row'[chat].revision = row[chat].revision
  <2>1. CASE c = chat
    <3>1. row'[chat] = Marked(row[chat], row[chat].revision, FALSE)
      BY <1>1, <1>2, <2>1 DEF RowsGood
    <3> QED BY <3>1 DEF Marked
  <2>2. CASE c # chat
    <3>1. row'[chat] = row[chat]
      BY <1>1, <1>2, <2>2 DEF RowsGood, RestTyped
    <3> QED BY <3>1
  <2> QED BY <2>1, <2>2
<1> QED BY <1>2, <1>3, UndisturbedOwner DEF update, edits

\* The first change of the owner's gives the row another revision than the
\* update expects; a text after a text, a later one still.
LEMMA OwnerOwner ==
    ASSUME OwnerInv, TypeOK', OwnerSaves \/ OwnerClears
    PROVE  OwnerInv'
<1>1. RowsGood /\ RestTyped
  BY TypeParts DEF OwnerInv
<1>2. /\ UNCHANGED <<chat, keeper, asked>>
      /\ changes' = changes + 1
      /\ changes \in Nat /\ cleared \in 0 .. changes
      /\ asked.builtOn \in Nat /\ asked.revision \in Int
  BY <1>1, DigestAssumption
     DEF OwnerSaves, OwnerClears, OwnerChanges, update, RestTyped, Update, NoRevision
<1>3. CASE OwnerSaves
  <2>1. row'[chat] = Written(row[chat]) /\ cleared' = cleared
    BY <1>1, <1>3 DEF OwnerSaves, RowsGood, RestTyped
  <2>2. OwnersVersionWins'
    <3>1. row'[chat].builtOn = changes'
      BY <2>1, WrittenFields
    <3> QED BY <1>2, <3>1 DEF OwnersVersionWins
  <2>3. /\ row'[chat].revision \in Int /\ row[chat].revision \in Int
        /\ row'[chat].revision > row[chat].revision
    <3>1. Good(row[chat])
      BY <1>1 DEF RowsGood, RestTyped
    <3>2. row'[chat].revision = NextRevision(row[chat])
      BY <2>1, WrittenFields
    <3> QED BY <3>1, <3>2, NextRevisionType
  <2>4. ASSUME RevisionTells PROVE RevisionTells'
    <3> DEFINE before == row[chat].revision
               after == row'[chat].revision
    <3>1. asked' = asked /\ chat' = chat /\ after = row[chat].revision'
      BY <1>2
    <3>2. CASE asked.builtOn = changes /\ before = asked.revision
      BY <1>2, <2>1, <2>3, <3>1, <3>2 DEF RevisionTells
    <3>3. CASE cleared <= asked.builtOn /\ asked.builtOn < changes /\ before > asked.revision
      BY <1>2, <2>1, <2>3, <3>1, <3>3 DEF RevisionTells
    <3>4. CASE cleared = changes /\ asked.builtOn + 1 = changes
      BY <1>2, <2>1, <3>1, <3>4 DEF RevisionTells, WrittenAnew
    <3>5. CASE WrittenAnew
      BY <1>2, <2>1, <3>1, <3>5 DEF RevisionTells, WrittenAnew
    <3> QED BY <2>4, <3>2, <3>3, <3>4, <3>5 DEF RevisionTells
  <2> QED BY <1>2, <2>2, <2>4 DEF OwnerInv, UpdateKnows
<1>4. CASE OwnerClears
  <2>1. row'[chat] = Absent /\ row[chat] # Absent /\ cleared' = changes'
    BY <1>1, <1>4 DEF OwnerClears, RowsGood, RestTyped
  <2>2. OwnersVersionWins'
    BY <1>2, <2>1, AbsentFields DEF OwnersVersionWins
  <2>3. row'[chat].revision # row[chat].revision
    BY <1>1, <2>1, AbsentFields DEF RowsGood, RestTyped, Good
  <2>4. ASSUME RevisionTells PROVE RevisionTells'
    <3> DEFINE before == row[chat].revision
               after == row'[chat].revision
    <3>1. asked' = asked /\ chat' = chat /\ after = row[chat].revision'
      BY <1>2
    <3>2. CASE asked.builtOn = changes /\ before = asked.revision
      BY <1>2, <2>1, <2>3, <3>1, <3>2 DEF RevisionTells
    <3>3. CASE asked.builtOn < changes
      BY <1>2, <2>1, <3>1, <3>3 DEF RevisionTells, WrittenAnew
    <3> QED BY <1>2, <2>4, <3>2, <3>3 DEF RevisionTells, WrittenAnew
  <2> QED BY <1>2, <2>2, <2>4 DEF OwnerInv, UpdateKnows
<1> QED BY <1>3, <1>4

LEMMA UpgradeOwner ==
    ASSUME OwnerInv, TypeOK', Upgrade
    PROVE  OwnerInv'
<1>1. RowsGood /\ RestTyped
  BY TypeParts DEF OwnerInv
<1>2. row'["new"] = row[chat]
  BY <1>1 DEF Upgrade, RowsGood, ChatIds
<1>3. keeper = "asking" => asked.chat # "new"
  BY DEF OwnerInv, UpdateKnows, Upgrade
<1> QED BY <1>2, <1>3
           DEF Upgrade, update, edits, OwnerInv, OwnersVersionWins, UpdateKnows

LEMMA OtherOwner ==
    ASSUME OwnerInv, TypeOK',
           \/ CheckNothing \/ PassBreaksOff \/ Store \/ DeleteMessages
           \/ Request \/ ChangeStatus \/ Crash \/ UNCHANGED vars
    PROVE  OwnerInv'
<1>1. CASE CheckNothing \/ Store \/ DeleteMessages \/ Request \/ ChangeStatus
  BY <1>1, UndisturbedOwner
     DEF CheckNothing, Store, DeleteMessages, Request, ChangeStatus, table, update, edits
<1>2. CASE PassBreaksOff \/ Crash
  BY <1>2, QuietOwner DEF PassBreaksOff, Crash, Sleeps, table, edits
<1>3. CASE UNCHANGED vars
  BY <1>3, UndisturbedOwner DEF vars, table, update, edits
<1> QED BY <1>1, <1>2, <1>3

\* The owner's version wins, however messages, failures, an upgrade and a
\* restart fall and however often the owner changes the digest while an update
\* runs, but over a clearing and a text of theirs since the update began.
THEOREM OwnerWins == Spec => []OwnersVersionWins
<1>1. Init => OwnerInv
  BY InitType, AbsentFields DEF Init, OwnerInv, OwnersVersionWins, UpdateKnows, ChatIds
<1>2. OwnerInv /\ [Next]_vars => OwnerInv'
  <2> SUFFICES ASSUME OwnerInv, [Next]_vars PROVE OwnerInv'
    OBVIOUS
  <2>1. TypeOK'
    BY NextType DEF OwnerInv
  <2>2. CASE Check \/ CheckWhenQuiet
    BY <2>1, <2>2, ListedOwner DEF Check, CheckWhenQuiet, KeeperStep
  <2>3. CASE Turn
    <3>1. asked.chat \in ChatIds
      BY DEF OwnerInv, TypeOK, Update
    <3> QED BY <2>1, <2>3, <3>1, BeginOwner DEF Turn, KeeperStep
  <2> QED BY <2>1, <2>2, <2>3, SaveOwner, FailOwner, RetryTimeOwner, OwnerOwner,
             UpgradeOwner, OtherOwner DEF Next
<1>3. OwnerInv => OwnersVersionWins
  BY DEF OwnerInv
<1> QED BY <1>1, <1>2, <1>3, PTL DEF Spec
-----------------------------------------------------------------------------
(* A message is read once *)

\* Of the messages of K, those up to c were read, or are in out, and no others.
ReadUpTo(K, out, read, c) ==
    \A m \in K : IF Before(c, m) THEN m \notin read ELSE m \in read \cup out

\* Only stored messages were read.
Stored(read, c) == read \subseteq 1 .. arrived /\ c \in 0 .. arrived

RowRead == ReadUpTo(kept, late, row[chat].read, row[chat].cursor)

AskedRead == ReadUpTo(kept, late, asked.read, asked.last)

RowsStored == \A c \in ChatIds : Stored(row[c].read, row[c].cursor)

AskedStored == Stored(asked.read, asked.last)

ReadInv ==
    /\ TypeOK
    /\ RowsStored
    /\ RowRead
    /\ keeper = "asking" => AskedStored /\ AskedRead

LEMMA BeforeTotal ==
    ASSUME NEW m \in Messages, NEW n \in Messages
    PROVE  ~Before(n, m) <=> m = n \/ Before(m, n)
<1>1. Date[m] \in Nat /\ Date[n] \in Nat /\ m \in Nat \ {0} /\ n \in Nat \ {0}
  BY DigestAssumption DEF Messages
<1> QED BY <1>1 DEF Before

LEMMA BeforeTransitive ==
    ASSUME NEW c \in 0 .. MessageCount, NEW m \in Messages, NEW n \in Messages,
           Before(c, n), ~Before(c, m)
    PROVE  ~Before(n, m)
<1>1. c \in Messages
  BY DigestAssumption DEF Before, Messages
<1>2. /\ Date[c] \in Nat /\ Date[m] \in Nat /\ Date[n] \in Nat
      /\ c \in Nat \ {0} /\ m \in Nat \ {0} /\ n \in Nat \ {0}
  BY <1>1, DigestAssumption DEF Messages
<1> QED BY <1>2 DEF Before

LEMMA KeptMessages ==
    ASSUME RestTyped
    PROVE  kept \subseteq Messages
BY DigestAssumption DEF RestTyped, Messages

\* The digest and the update under way have read what they had; messages may
\* have been deleted.
LEMMA SameRead ==
    ASSUME ReadInv, TypeOK',
           UNCHANGED <<chat, arrived, late>>,
           kept' \subseteq kept,
           \A c \in ChatIds : row'[c].read = row[c].read /\ row'[c].cursor = row[c].cursor,
           keeper' = "asking" => UNCHANGED <<keeper, asked>>
    PROVE  ReadInv'
<1>1. chat \in ChatIds
  BY DEF ReadInv, TypeOK
<1>2. RowsStored'
  BY DEF ReadInv, RowsStored, Stored
<1>3. RowRead'
  BY <1>1 DEF ReadInv, RowRead, ReadUpTo, Before
<1>4. keeper' = "asking" => AskedStored' /\ AskedRead'
  BY DEF ReadInv, AskedStored, AskedRead, Stored, ReadUpTo, Before
<1> QED BY <1>2, <1>3, <1>4 DEF ReadInv

LEMMA MarkedReads ==
    ASSUME RowsGood, NEW c \in ChatIds, NEW r, NEW f,
           row' = [row EXCEPT ![c] = Marked(@, r, f)]
    PROVE  \A i \in ChatIds : row'[i].read = row[i].read /\ row'[i].cursor = row[i].cursor
<1> SUFFICES ASSUME NEW i \in ChatIds
             PROVE  row'[i].read = row[i].read /\ row'[i].cursor = row[i].cursor
  OBVIOUS
<1>1. CASE i = c
  <2>1. row'[i] = Marked(row[i], r, f)
    BY <1>1 DEF RowsGood
  <2> QED BY <2>1 DEF Marked
<1>2. CASE i # c
  <2>1. row'[i] = row[i]
    BY <1>2 DEF RowsGood
  <2> QED BY <2>1
<1> QED BY <1>1, <1>2

LEMMA ErrorReads ==
    ASSUME RowsGood, NEW c \in ChatIds, row' = [row EXCEPT ![c] = WithError(@)]
    PROVE  \A i \in ChatIds : row'[i].read = row[i].read /\ row'[i].cursor = row[i].cursor
<1> DEFINE r == IF row[c] = Absent THEN 0 ELSE row[c].revision
<1>1. row' = [row EXCEPT ![c] = Marked(@, r, TRUE)]
  BY DEF WithError
<1> HIDE DEF r
<1> QED BY <1>1, MarkedReads

\* What an update reads begins where the digest ends: with it, everything up
\* to the last message it reads is read.
LEMMA BeginRead ==
    ASSUME ReadInv, TypeOK', NEW c \in ChatIds, Begin(c), KeeperStep
    PROVE  ReadInv'
<1>1. RowsGood /\ RestTyped
  BY TypeParts DEF ReadInv
<1>2. UNCHANGED <<chat, arrived, kept, late>>
  BY DEF KeeperStep, messages
<1>3. CASE Unread(c) = {} /\ Sleeps /\ UNCHANGED row
  BY <1>2, <1>3, SameRead DEF Sleeps
<1>4. CASE row' = [row EXCEPT ![c] = WithError(@)] /\ Sleeps
  BY <1>1, <1>2, <1>4, SameRead, ErrorReads DEF Sleeps
<1>5. ASSUME NEW last \in Unread(c),
             asked' = [chat |-> c, revision |-> row[c].revision, builtOn |-> changes,
                       read |-> row[c].read \cup Batch(c, last), last |-> last],
             UNCHANGED row
      PROVE  ReadInv'
  <2>1. /\ c = chat
        /\ last \in kept
        /\ Before(row[chat].cursor, last)
    BY <1>5 DEF Unread
  <2>2. kept \subseteq Messages /\ kept \subseteq 1 .. arrived
    BY <1>1, KeptMessages DEF RestTyped
  <2>3. asked'.read = row[chat].read \cup Batch(chat, last) /\ asked'.last = last
    BY <1>5, <2>1
  <2>4. Stored(row[chat].read, row[chat].cursor)
    BY <2>1 DEF ReadInv, RowsStored
  <2>5. AskedStored'
    <3>1. Batch(chat, last) \subseteq 1 .. arrived
      BY <2>2 DEF Batch, Unread
    <3>2. last \in 0 .. arrived
      BY <2>1, <2>2, <1>1, DigestAssumption DEF RestTyped
    <3> QED BY <1>2, <2>3, <2>4, <3>1, <3>2 DEF AskedStored, Stored
  <2>6. AskedRead'
    <3> DEFINE read == row[chat].read \cup Batch(chat, last)
    <3>1. ASSUME NEW m \in kept
          PROVE  IF Before(last, m) THEN m \notin read ELSE m \in read \cup late
      <4>1. m \in Messages /\ last \in Messages
        BY <2>1, <2>2
      <4>2. row[chat].cursor \in 0 .. MessageCount
        BY <1>1, DigestFields DEF RowsGood, RestTyped
      <4>3. IF Before(row[chat].cursor, m) THEN m \notin row[chat].read
            ELSE m \in row[chat].read \cup late
        BY <3>1 DEF ReadInv, RowRead, ReadUpTo
      <4>4. CASE Before(row[chat].cursor, m)
        <5>1. m \in Unread(chat)
          BY <3>1, <4>4 DEF Unread
        <5>2. m \in Batch(chat, last) <=> m = last \/ Before(m, last)
          BY <5>1 DEF Batch
        <5> QED BY <4>1, <4>3, <4>4, <5>2, BeforeTotal
      <4>5. CASE ~Before(row[chat].cursor, m)
        <5>1. ~Before(last, m)
          BY <2>1, <4>1, <4>2, <4>5, BeforeTransitive
        <5> QED BY <4>3, <4>5, <5>1
      <4> QED BY <4>4, <4>5
    <3>2. ReadUpTo(kept, late, read, last)
      BY <3>1 DEF ReadUpTo
    <3> HIDE DEF read
    <3> QED BY <1>2, <2>3, <3>2 DEF AskedRead, ReadUpTo, Before, read
  <2>7. RowsStored' /\ RowRead'
    BY <1>2, <1>5 DEF ReadInv, RowsStored, RowRead, Stored, ReadUpTo, Before
  <2> QED BY <2>5, <2>6, <2>7 DEF ReadInv
<1> QED BY <1>3, <1>4, <1>5 DEF Begin

LEMMA ListedRead ==
    ASSUME ReadInv, TypeOK', Listed, KeeperStep
    PROVE  ReadInv'
<1>1. chat \in ChatIds
  BY DEF ReadInv, TypeOK
<1>2. CASE Begin(chat)
  BY <1>1, <1>2, BeginRead
<1>3. CASE /\ keeper' = "listed"
           /\ UNCHANGED <<row, requested>>
  BY <1>3, SameRead DEF KeeperStep, messages
<1> QED BY <1>2, <1>3 DEF Listed

\* A row with another digest: it must have read what the invariant asks.
LEMMA NewRow ==
    ASSUME ReadInv, TypeOK', NEW c \in ChatIds, NEW d,
           UNCHANGED <<chat, arrived, kept, late>>,
           row' = [row EXCEPT ![c] = d],
           Stored(d.read, d.cursor),
           c = chat => ReadUpTo(kept, late, d.read, d.cursor),
           keeper' = "asking" => UNCHANGED <<keeper, asked>>
    PROVE  ReadInv'
<1>1. RowsGood /\ chat \in ChatIds
  BY TypeParts DEF ReadInv, RestTyped
<1>2. RowsStored'
  <2> SUFFICES ASSUME NEW i \in ChatIds PROVE Stored(row'[i].read, row'[i].cursor)
    BY DEF RowsStored, Stored
  <2>1. row'[i] = IF i = c THEN d ELSE row[i]
    BY <1>1 DEF RowsGood
  <2> QED BY <2>1 DEF ReadInv, RowsStored
<1>3. RowRead'
  <2>1. row'[chat] = IF chat = c THEN d ELSE row[chat]
    BY <1>1 DEF RowsGood
  <2>2. ReadUpTo(kept, late, row'[chat].read, row'[chat].cursor)
    BY <2>1 DEF ReadInv, RowRead
  <2> QED BY <2>2 DEF RowRead, ReadUpTo, Before
<1>4. keeper' = "asking" => AskedStored' /\ AskedRead'
  BY DEF ReadInv, AskedStored, AskedRead, Stored, ReadUpTo, Before
<1> QED BY <1>2, <1>3, <1>4 DEF ReadInv

LEMMA SaveRead ==
    ASSUME ReadInv, TypeOK', Save
    PROVE  ReadInv'
<1>1. asked.chat \in ChatIds
  BY DEF ReadInv, TypeOK, Update
<1>2. UNCHANGED <<chat, arrived, kept, late>> /\ keeper' = "asleep" /\ keeper = "asking"
  BY DEF Save, Sleeps, messages
<1>3. CASE row' = [row EXCEPT ![asked.chat] = Updated(@)]
  <2> DEFINE d == Updated(row[asked.chat])
  <2>1. d.read = asked.read /\ d.cursor = asked.last
    BY UpdatedFields
  <2>2. row' = [row EXCEPT ![asked.chat] = d]
    BY <1>3
  <2>3. Stored(d.read, d.cursor) /\ ReadUpTo(kept, late, d.read, d.cursor)
    BY <1>2, <2>1 DEF ReadInv, AskedStored, AskedRead
  <2> HIDE DEF d
  <2> QED BY <1>1, <1>2, <2>2, <2>3, NewRow
<1>4. CASE row' = row
  BY <1>2, <1>4, SameRead
<1> QED BY <1>3, <1>4 DEF Save

LEMMA FailRead ==
    ASSUME ReadInv, TypeOK', Fail
    PROVE  ReadInv'
<1>1. RowsGood /\ asked.chat \in ChatIds
  BY TypeParts DEF ReadInv, RestTyped, Update
<1> QED BY <1>1, SameRead, ErrorReads DEF Fail, Sleeps, messages

LEMMA RetryTimeRead ==
    ASSUME ReadInv, TypeOK', RetryTimeComes
    PROVE  ReadInv'
<1>1. RowsGood
  BY TypeParts DEF ReadInv
<1>2. PICK c \in ChatIds : /\ row' = [row EXCEPT ![c] = Marked(@, @.revision, FALSE)]
                       /\ UNCHANGED <<chat, enabled, messages, requested, update,
                                      edits>>
  BY DEF RetryTimeComes
<1>3. row' = [row EXCEPT ![c] = Marked(@, row[c].revision, FALSE)]
  BY <1>2
<1> QED BY <1>1, <1>2, <1>3, MarkedReads, SameRead DEF messages, update

\* The owner's text stands at the digest's cursor; a cleared one at the start.
LEMMA OwnerRead ==
    ASSUME ReadInv, TypeOK', OwnerSaves \/ OwnerClears
    PROVE  ReadInv'
<1>1. chat \in ChatIds /\ RestTyped
  BY TypeParts DEF ReadInv, RestTyped
<1>2. UNCHANGED <<chat, arrived, kept, late, keeper, asked>>
  BY DEF OwnerSaves, OwnerClears, messages, update
<1>3. CASE OwnerSaves
  <2> DEFINE d == Written(row[chat])
  <2>1. d.read = row[chat].read /\ d.cursor = row[chat].cursor
    BY WrittenFields
  <2>2. row' = [row EXCEPT ![chat] = d]
    BY <1>3 DEF OwnerSaves
  <2>3. Stored(d.read, d.cursor) /\ ReadUpTo(kept, late, d.read, d.cursor)
    BY <1>1, <2>1 DEF ReadInv, RowsStored, RowRead
  <2> HIDE DEF d
  <2> QED BY <1>1, <1>2, <2>2, <2>3, NewRow
<1>4. CASE OwnerClears
  <2>1. row' = [row EXCEPT ![chat] = Absent]
    BY <1>4 DEF OwnerClears
  <2>2. Stored(Absent.read, Absent.cursor)
    BY <1>1, AbsentFields DEF Stored, RestTyped
  <2>3. ReadUpTo(kept, late, Absent.read, Absent.cursor)
    BY AbsentFields DEF ReadUpTo, Before
  <2> QED BY <1>1, <1>2, <2>1, <2>2, <2>3, NewRow
<1> QED BY <1>3, <1>4

LEMMA UpgradeRead ==
    ASSUME ReadInv, TypeOK', Upgrade
    PROVE  ReadInv'
<1>1. RowsGood /\ RestTyped
  BY TypeParts DEF ReadInv
<1>2. row'["new"] = row[chat] /\ row'["old"] = Absent /\ chat' = "new"
  BY <1>1 DEF Upgrade, RowsGood, ChatIds
<1>3. UNCHANGED <<arrived, kept, late, keeper, asked>>
  BY DEF Upgrade, messages, update
<1>4. RowsStored'
  <2>1. Stored(Absent.read, Absent.cursor)
    BY <1>1, AbsentFields DEF Stored, RestTyped
  <2>2. Stored(row[chat].read, row[chat].cursor)
    BY <1>1 DEF ReadInv, RowsStored, RestTyped
  <2> QED BY <1>2, <1>3, <2>1, <2>2 DEF RowsStored, Stored, ChatIds
<1>5. RowRead'
  BY <1>2, <1>3 DEF ReadInv, RowRead, ReadUpTo, Before
<1>6. keeper' = "asking" => AskedStored' /\ AskedRead'
  BY <1>3 DEF ReadInv, AskedStored, AskedRead, Stored, ReadUpTo, Before
<1> QED BY <1>4, <1>5, <1>6 DEF ReadInv

\* A message that comes was not read, and is late unless it is after the
\* cursor of the digest and what the update under way reads up to.
LEMMA StoreRead ==
    ASSUME ReadInv, TypeOK', Store
    PROVE  ReadInv'
<1>1. RowsGood /\ RestTyped
  BY TypeParts DEF ReadInv
<1>2. /\ arrived' = arrived + 1
      /\ kept' = kept \cup {arrived + 1}
      /\ late \subseteq late'
      /\ OutOfOrder(arrived + 1) => arrived + 1 \in late'
      /\ UNCHANGED <<chat, row, keeper, asked>>
  BY DEF Store, table, update
<1>3. arrived \in Nat
  BY <1>1, DigestAssumption DEF RestTyped
<1>4. ASSUME NEW read, NEW c, Stored(read, c), ReadUpTo(kept, late, read, c),
             ~Before(c, arrived + 1) => OutOfOrder(arrived + 1)
      PROVE  ReadUpTo(kept', late', read, c)
  <2>1. arrived + 1 \notin read
    BY <1>3, <1>4 DEF Stored
  <2> QED BY <1>2, <1>4, <2>1 DEF ReadUpTo
<1>5. ASSUME NEW read, NEW c, Stored(read, c)
      PROVE  read \subseteq 1 .. arrived' /\ c \in 0 .. arrived'
  BY <1>2, <1>3, <1>5 DEF Stored
<1>6. RowsStored'
  BY <1>2, <1>5 DEF ReadInv, RowsStored, Stored
<1>7. RowRead'
  <2>1. ReadUpTo(kept', late', row[chat].read, row[chat].cursor)
    BY <1>1, <1>4 DEF ReadInv, RowsStored, RowRead, RestTyped, OutOfOrder
  <2> QED BY <1>2, <2>1 DEF RowRead, ReadUpTo, Before
<1>8. keeper' = "asking" => AskedStored' /\ AskedRead'
  <2> SUFFICES ASSUME keeper = "asking" PROVE AskedStored' /\ AskedRead'
    BY <1>2
  <2>1. AskedStored /\ AskedRead
    BY DEF ReadInv
  <2>2. ReadUpTo(kept', late', asked.read, asked.last)
    BY <1>4, <2>1 DEF AskedStored, AskedRead, OutOfOrder
  <2>3. AskedStored'
    BY <1>2, <1>5, <2>1 DEF AskedStored, Stored
  <2> QED BY <1>2, <2>2, <2>3 DEF AskedRead, ReadUpTo, Before
<1> QED BY <1>6, <1>7, <1>8 DEF ReadInv

LEMMA OtherRead ==
    ASSUME ReadInv, TypeOK',
           \/ CheckNothing \/ PassBreaksOff \/ DeleteMessages
           \/ Request \/ ChangeStatus \/ Crash \/ UNCHANGED vars
    PROVE  ReadInv'
<1>1. CASE CheckNothing \/ Request \/ ChangeStatus
  BY <1>1, SameRead DEF CheckNothing, Request, ChangeStatus, table, messages, update
<1>2. CASE PassBreaksOff \/ Crash
  BY <1>2, SameRead DEF PassBreaksOff, Crash, Sleeps, table, messages
<1>3. CASE DeleteMessages
  <2>1. kept' \subseteq kept
    BY <1>3 DEF DeleteMessages
  <2> QED BY <1>3, <2>1, SameRead DEF DeleteMessages, table, update
<1>4. CASE UNCHANGED vars
  BY <1>4, SameRead DEF vars, table, messages, update
<1> QED BY <1>1, <1>2, <1>3, <1>4

\* The digest of a chat has read no message twice, and skips none that was
\* stored in order, in whatever order messages, updates, the owner's changes,
\* deletions, the upgrade and restarts come.
THEOREM ReadOnce == Spec => []ReadsEachOnce
<1>1. Init => ReadInv
  <2> SUFFICES ASSUME Init PROVE ReadInv
    OBVIOUS
  <2>1. RowsStored
    BY AbsentFields DEF Init, RowsStored, Stored
  <2>2. RowRead
    BY DEF Init, RowRead, ReadUpTo
  <2> QED BY <2>1, <2>2, InitType DEF Init, ReadInv
<1>2. ReadInv /\ [Next]_vars => ReadInv'
  <2> SUFFICES ASSUME ReadInv, [Next]_vars PROVE ReadInv'
    OBVIOUS
  <2>1. TypeOK'
    BY NextType DEF ReadInv
  <2>2. CASE Check \/ CheckWhenQuiet
    BY <2>1, <2>2, ListedRead DEF Check, CheckWhenQuiet, KeeperStep
  <2>3. CASE Turn
    <3>1. asked.chat \in ChatIds
      BY DEF ReadInv, TypeOK, Update
    <3> QED BY <2>1, <2>3, <3>1, BeginRead DEF Turn, KeeperStep
  <2>4. CASE Store
    BY <2>1, <2>4, StoreRead
  <2> QED BY <2>1, <2>2, <2>3, <2>4, SaveRead, FailRead, RetryTimeRead, OwnerRead,
             UpgradeRead, OtherRead DEF Next
<1>3. ReadInv => ReadsEachOnce
  BY DEF ReadInv, RowRead, ReadUpTo, ReadsEachOnce
<1> QED BY <1>1, <1>2, <1>3, PTL DEF Spec
-----------------------------------------------------------------------------
(* Requests *)

\* How a step may drop a request for the chat c.
MayDrop(c) ==
    \/ keeper # "asking" /\ keeper' = "asking"
    \/ row'[c].failed
    \/ Unread(c) = {}
    \/ Crash

LEMMA BeginDrops ==
    ASSUME RowsGood, NEW c \in ChatIds, Begin(c), keeper # "asking",
           NEW i \in requested \ requested'
    PROVE  MayDrop(i)
<1>1. i = c
  BY DEF Begin
<1>2. CASE row' = [row EXCEPT ![c] = WithError(@)]
  <2>1. row'[c] = WithError(row[c])
    BY <1>2 DEF RowsGood
  <2>2. WithError(row[c]).failed = TRUE
    BY DEF WithError, Marked
  <2> QED BY <1>1, <2>1, <2>2 DEF MayDrop
<1> QED BY <1>1, <1>2 DEF Begin, MayDrop

\* A request is dropped by an update that begins after it or fails at its
\* start, for want of messages, or with the process; an update that was under
\* way when the request was made leaves it to the next.
THEOREM RequestsKept == Spec => RequestsAreNotLost
<1>1. ASSUME TypeOK, [Next]_vars
      PROVE  [\A c \in requested \ requested' : MayDrop(c)]_vars
  <2> SUFFICES ASSUME NEW i \in requested \ requested' PROVE MayDrop(i)
    OBVIOUS
  <2>1. RowsGood /\ RestTyped
    BY <1>1, TypeParts
  <2>2. CASE Check \/ CheckWhenQuiet
    <3>1. keeper = "asleep" /\ Begin(chat)
      BY <2>2 DEF Check, CheckWhenQuiet, Listed
    <3> QED BY <2>1, <3>1, BeginDrops DEF RestTyped
  <2>3. CASE Turn
    <3>1. keeper = "listed" /\ Begin(asked.chat) /\ asked.chat \in ChatIds
      BY <2>1, <2>3 DEF Turn, RestTyped, Update
    <3> QED BY <2>1, <3>1, BeginDrops
  <2>4. CASE CheckNothing
    BY <2>4 DEF CheckNothing, MayDrop
  <2>5. CASE Save
    BY <2>5 DEF Save
  <2>6. CASE Request
    BY <2>6 DEF Request
  <2>7. CASE Crash
    BY <2>7 DEF MayDrop
  <2>8. CASE UNCHANGED requested
    BY <2>8
  <2> QED BY <1>1, <2>2, <2>3, <2>4, <2>5, <2>6, <2>7, <2>8
          DEF Next, PassBreaksOff, Fail, RetryTimeComes, Store, DeleteMessages,
              OwnerSaves, OwnerClears, ChangeStatus, Upgrade, vars
<1> QED BY <1>1, TypeCorrect, PTL DEF Spec, RequestsAreNotLost, MayDrop
-----------------------------------------------------------------------------
(* Reminders *)

\* Nothing is left to be done for a reminder.
Closed(r) == ~IsPending(r) /\ sending # r /\ \A i \in DOMAIN pass : pass[i] # r

\* One send_due() has a reminder once, and the one that waits for Telegram is
\* not in its list any more.
PassIsSound ==
    /\ \A i, j \in DOMAIN pass : pass[i] = pass[j] => i = j
    /\ \A i \in DOMAIN pass : pass[i] # sending

\* The only answer for good is the one that closes it; the others were a
\* failure or a crash.
Counted(r) ==
    /\ sent[r] <= (IF r \in unsure THEN failures + crashes ELSE 0)
                  + (IF Closed(r) THEN 1 ELSE 0)
    /\ Exists(r) => reminders[r].attempts <= failures + (IF Closed(r) THEN 1 ELSE 0)

SentInv == RemindersTypeOK /\ PassIsSound /\ \A r \in ReminderIds : Counted(r)

LEMMA RemindersConstants ==
    /\ ReminderIds \subseteq Nat \ {0} /\ Unset \notin ReminderIds
    /\ PerPass \in Nat \ {0} /\ MaxDue \in Nat /\ MaxPending \in Nat
    /\ RetryBase \in Nat /\ RetryMax \in Nat
    /\ MaxFailures \in Nat /\ MaxCrashes \in Nat
BY RemindersAssumption DEF Unset

\* No row is not a row.
LEMMA NoReminderIsNone == NoReminder \notin Reminder
BY DEF NoReminder, Reminder

\* The types, one by one.
LEMMA SentTypes ==
    ASSUME SentInv
    PROVE  /\ reminders \in [ReminderIds -> Reminder \cup {NoReminder}]
           /\ \A r \in ReminderIds : Exists(r) => reminders[r] \in Reminder
           /\ pass \in Seq(ReminderIds)
           /\ elapsed \in 0 .. RetryMax /\ sending \in ReminderIds \cup {Unset}
           /\ now \in 0 .. MaxDue /\ chatEnabled \in BOOLEAN
           /\ failures \in 0 .. MaxFailures /\ crashes \in 0 .. MaxCrashes
           /\ failures \in Nat /\ crashes \in Nat
           /\ sent \in [ReminderIds -> 0 .. 1 + MaxFailures + MaxCrashes]
           /\ unsure \subseteq ReminderIds
BY RemindersConstants DEF SentInv, RemindersTypeOK, Exists

\* The counts go on to hold where nothing new was sent or tried.
LEMMA CountedStays ==
    ASSUME SentInv, NEW r \in ReminderIds, Closed(r) => Closed(r)',
           failures' \in Nat, crashes' \in Nat, failures' >= failures, crashes' >= crashes,
           sent'[r] = sent[r], r \in unsure => r \in unsure',
           Exists(r)' => Exists(r) /\ reminders'[r].attempts = reminders[r].attempts
    PROVE  Counted(r)'
<1>1. Counted(r) /\ sent[r] \in Nat /\ failures \in Nat /\ crashes \in Nat
  BY SentTypes, RemindersConstants DEF SentInv
<1>2. Exists(r) => reminders[r].attempts \in Nat
  BY SentTypes, RemindersConstants DEF Reminder
<1> QED BY <1>1, <1>2 DEF Counted

\* What is still open had no answer for good.
LEMMA OpenCounted ==
    ASSUME SentInv, NEW r \in ReminderIds, ~Closed(r)
    PROVE  /\ sent[r] \in Nat /\ failures \in Nat /\ crashes \in Nat
           /\ sent[r] <= (IF r \in unsure THEN failures + crashes ELSE 0)
           /\ Exists(r) => reminders[r].attempts \in Nat /\ reminders[r].attempts <= failures
<1>1. Counted(r) /\ sent[r] \in Nat /\ failures \in Nat /\ crashes \in Nat
  BY SentTypes, RemindersConstants DEF SentInv
<1>2. Exists(r) => reminders[r].attempts \in Nat
  BY SentTypes, RemindersConstants DEF Reminder
<1> DEFINE extra == IF r \in unsure THEN failures + crashes ELSE 0
<1>3. sent[r] <= extra + 0 /\ (Exists(r) => reminders[r].attempts <= failures + 0)
  BY <1>1 DEF Counted
<1>4. extra \in Nat
  BY <1>1
<1> QED BY <1>1, <1>2, <1>3, <1>4

LEMMA RemindersInitSent == RemindersInit => SentInv
<1> SUFFICES ASSUME RemindersInit PROVE SentInv
  OBVIOUS
<1>1. RemindersTypeOK
  BY RemindersConstants DEF RemindersInit, RemindersTypeOK
<1>2. PassIsSound
  BY DEF RemindersInit, PassIsSound
<1>3. \A r \in ReminderIds : Counted(r)
  BY DEF RemindersInit, Counted, Exists
<1> QED BY <1>1, <1>2, <1>3 DEF SentInv

LEMMA SetSent ==
    ASSUME SentInv, NEW r \in ReminderIds, NEW due \in 1 .. MaxDue, Set(r, due)
    PROVE  SentInv'
<1> DEFINE new == [status |-> "pending", due |-> due, attempts |-> 0, next |-> 0]
<1>1. new \in Reminder
  BY RemindersConstants DEF Reminder, Statuses
<1>2. reminders'[r] = new /\ \A q \in ReminderIds : q # r => reminders'[q] = reminders[q]
  BY SentTypes DEF Set
<1>3. RemindersTypeOK'
  BY <1>1, SentTypes DEF SentInv, RemindersTypeOK, Set, bounds
<1>4. PassIsSound'
  BY DEF SentInv, PassIsSound, Set
<1>5. ASSUME NEW q \in ReminderIds PROVE Counted(q)'
  <2>1. CASE q = r
    BY <1>2, <2>1, SentTypes DEF Set, Counted, bounds
  <2>2. CASE q # r
    <3>1. Closed(q) => Closed(q)'
      BY <1>2, <2>2 DEF Set, Closed, Exists, IsPending
    <3>2. Exists(q)' => Exists(q) /\ reminders'[q].attempts = reminders[q].attempts
      BY <1>2, <2>2 DEF Exists
    <3> QED BY <3>1, <3>2, CountedStays, SentTypes DEF Set, bounds
  <2> QED BY <2>1, <2>2
<1> QED BY <1>3, <1>4, <1>5 DEF SentInv

LEMMA CancelSent ==
    ASSUME SentInv, NEW r \in ReminderIds, Cancel(r)
    PROVE  SentInv'
<1>1. reminders[r] \in Reminder
  BY SentTypes DEF Cancel, IsPending
<1>2. /\ reminders'[r] = [reminders[r] EXCEPT !.status = "cancelled"]
      /\ \A q \in ReminderIds : q # r => reminders'[q] = reminders[q]
  BY SentTypes DEF Cancel
<1>3. reminders'[r] \in Reminder /\ reminders'[r].status = "cancelled"
      /\ reminders'[r].attempts = reminders[r].attempts
  BY <1>1, <1>2 DEF Reminder, Statuses
<1>4. RemindersTypeOK'
  BY <1>1, <1>2, <1>3, SentTypes DEF SentInv, RemindersTypeOK, Cancel, bounds
<1>5. PassIsSound'
  BY DEF SentInv, PassIsSound, Cancel
<1>6. ASSUME NEW q \in ReminderIds PROVE Counted(q)'
  <2>1. Closed(q) => Closed(q)'
    BY <1>2, <1>3 DEF Cancel, Closed, Exists, IsPending
  <2>2. Exists(q)' => Exists(q) /\ reminders'[q].attempts = reminders[q].attempts
    BY <1>2, <1>3 DEF Cancel, Exists, IsPending
  <2> QED BY <2>1, <2>2, CountedStays, SentTypes DEF Cancel, bounds
<1> QED BY <1>4, <1>5, <1>6 DEF SentInv

LEMMA CleanUpSent ==
    ASSUME SentInv, CleanUp(now)
    PROVE  SentInv'
<1>1. \A q \in ReminderIds : reminders'[q] = reminders[q] \/ (~IsPending(q) /\ reminders'[q] = NoReminder)
  BY DEF CleanUp
<1>2. RemindersTypeOK'
  BY SentTypes DEF SentInv, RemindersTypeOK, CleanUp, bounds
<1>3. PassIsSound'
  BY DEF SentInv, PassIsSound, CleanUp
<1>4. ASSUME NEW q \in ReminderIds PROVE Counted(q)'
  <2>1. Closed(q) => Closed(q)'
    BY <1>1 DEF CleanUp, Closed, Exists, IsPending
  <2>2. Exists(q)' => Exists(q) /\ reminders'[q].attempts = reminders[q].attempts
    BY <1>1 DEF Exists
  <2>3. /\ failures' = failures /\ crashes' = crashes /\ sent' = sent /\ unsure' = unsure
        /\ failures' \in Nat /\ crashes' \in Nat
    BY SentTypes DEF CleanUp, bounds
  <2> QED BY <2>1, <2>2, <2>3, CountedStays, SentTypes
<1> QED BY <1>2, <1>3, <1>4 DEF SentInv

LEMMA StartsSent ==
    ASSUME SentInv, Starts
    PROVE  SentInv'
<1>1. PICK n \in 1 .. PerPass : pass' \in [1 .. n -> DueNow] /\ IsDueList(pass')
  BY DEF Starts, DueLists
<1>2. n \in Nat /\ DueNow \subseteq ReminderIds /\ DOMAIN pass' = 1 .. n
  BY <1>1, RemindersConstants DEF DueNow
<1>3. pass' \in Seq(ReminderIds)
  BY <1>1, <1>2
<1>4. \A i \in 1 .. n : pass'[i] \in ReminderIds /\ IsPending(pass'[i])
  BY <1>1 DEF DueNow
<1>5. ASSUME NEW i \in 1 .. n, NEW j \in 1 .. n, pass'[i] = pass'[j], i < j PROVE FALSE
  <2>1. Sooner(pass'[i], pass'[j])
    BY <1>1, <1>2, <1>5 DEF IsDueList
  <2>2. reminders[pass'[i]].due \in Nat /\ pass'[i] \in Nat
    <3>1. \A r \in ReminderIds : IsPending(r) => reminders[r].due \in Nat /\ r \in Nat
      BY SentTypes, RemindersConstants DEF IsPending, Reminder
    <3> QED BY <1>4, <3>1
  <2> QED BY <1>5, <2>1, <2>2 DEF Sooner
<1>6. PassIsSound'
  BY <1>2, <1>4, <1>5, RemindersConstants DEF PassIsSound, Starts
<1>7. RemindersTypeOK'
  BY <1>3, SentTypes, RemindersConstants DEF SentInv, RemindersTypeOK, Starts, bounds
<1>8. ASSUME NEW q \in ReminderIds PROVE Counted(q)'
  <2>1. Closed(q) => Closed(q)'
    BY <1>2, <1>4 DEF Starts, Closed, Exists, IsPending
  <2>2. Exists(q)' => Exists(q) /\ reminders'[q].attempts = reminders[q].attempts
    BY DEF Starts, Exists
  <2> QED BY <2>1, <2>2, CountedStays, SentTypes DEF Starts, bounds
<1> QED BY <1>6, <1>7, <1>8 DEF SentInv

-----------------------------------------------------------------------------
\* The time until a reminder is tried again is within its limit.
LEMMA RetryIsBounded ==
    ASSUME NEW tries, NEW passed \in Nat
    PROVE  Max({0, RetryDelay(tries) - passed}) \in 0 .. RetryMax
<1> DEFINE S == {RetryBase * 2 ^ tries, RetryMax} \cap 0 .. RetryMax
<1>1. RetryMax \in S /\ \A d \in S : d \in 0 .. RetryMax
  BY RemindersConstants
<1>2. \E d \in S : \A e \in S : d <= e
  <2>1. CASE RetryBase * 2 ^ tries \in S
    <3>1. \A e \in S : e \in {RetryBase * 2 ^ tries, RetryMax}
      OBVIOUS
    <3> QED BY <1>1, <2>1, <3>1
  <2>2. CASE RetryBase * 2 ^ tries \notin S
    <3>1. \A e \in S : e = RetryMax
      BY <2>2
    <3> QED BY <1>1, <3>1
  <2> QED BY <2>1, <2>2
<1>3. RetryDelay(tries) \in S
  <2>1. RetryDelay(tries) = CHOOSE d \in S : \A e \in S : d <= e
    BY DEF RetryDelay, Min
  <2> HIDE DEF S
  <2> QED BY <1>2, <2>1
<1> HIDE DEF S
<1>4. RetryDelay(tries) \in 0 .. RetryMax
  BY <1>1, <1>3
<1> DEFINE rest == RetryDelay(tries) - passed
<1>5. rest \in Int /\ rest <= RetryMax
  BY <1>4, RemindersConstants
<1> HIDE DEF rest
<1>6. Max({0, rest}) = CHOOSE x \in {0, rest} : \A y \in {0, rest} : x >= y
  BY DEF Max
<1>7. \E x \in {0, rest} : \A y \in {0, rest} : x >= y
  BY <1>5
<1>8. Max({0, rest}) \in {0, rest} /\ Max({0, rest}) >= 0
  BY <1>6, <1>7
<1>9. Max({0, rest}) \in 0 .. RetryMax
  BY <1>5, <1>8, RemindersConstants
<1> QED BY <1>9 DEF rest

LEMMA EndedRow ==
    ASSUME NEW rec \in Reminder, NEW tries \in 0 .. MaxFailures + 1
    PROVE  /\ [rec EXCEPT !.status = "sent", !.next = 0] \in Reminder
           /\ [rec EXCEPT !.status = "failed", !.attempts = tries, !.next = 0] \in Reminder
<1>1. 0 \in 0 .. RetryMax
  BY RemindersConstants
<1> QED BY <1>1 DEF Reminder, Statuses

\* What a mark does: the row, if there still is one, is no longer pending.
LEMMA MarkEnds ==
    ASSUME SentInv, NEW r \in ReminderIds, ~Closed(r), MarkSent(r) \/ MarkFailed(r)
    PROVE  /\ reminders' \in [ReminderIds -> Reminder \cup {NoReminder}]
           /\ \A q \in ReminderIds : q # r => reminders'[q] = reminders[q]
           /\ ~IsPending(r)'
           /\ Exists(r)' => /\ Exists(r) /\ reminders'[r].attempts <= failures + 1
<1>1. Counted(r) /\ failures \in 0 .. MaxFailures
  BY SentTypes DEF SentInv
<1>2. CASE ~Exists(r)
  BY <1>2, SentTypes DEF MarkSent, MarkFailed, Mark, Exists, IsPending
<1>3. CASE Exists(r)
  <2> DEFINE rec == reminders[r]
             new == reminders'[r]
  <2>1. rec \in Reminder /\ rec.attempts <= failures
    BY <1>1, <1>3, SentTypes DEF Counted
  <2>2. new = [rec EXCEPT !.status = "sent", !.next = 0]
        \/ new = [rec EXCEPT !.status = "failed", !.attempts = rec.attempts + 1, !.next = 0]
    BY <1>3, SentTypes DEF MarkSent, MarkFailed, Mark
  <2>3. \A q \in ReminderIds : q # r => reminders'[q] = reminders[q]
    BY <1>3, SentTypes DEF MarkSent, MarkFailed, Mark
  <2>4. DOMAIN reminders' = ReminderIds /\ reminders' = [q \in ReminderIds |-> reminders'[q]]
    BY <1>3, SentTypes DEF MarkSent, MarkFailed, Mark
  <2>5. new \in Reminder /\ new.status # "pending" /\ new.attempts <= failures + 1
    <3> HIDE DEF rec, new
    <3>1. rec.attempts \in Nat /\ rec.attempts + 1 \in 0 .. MaxFailures + 1 /\ failures \in Nat
      BY <1>1, <2>1, RemindersConstants DEF Reminder
    <3>2. CASE new = [rec EXCEPT !.status = "sent", !.next = 0]
      <4>1. new.status = "sent" /\ new.attempts <= failures + 1
        BY <2>1, <3>1, <3>2 DEF Reminder
      <4>2. new \in Reminder
        BY <2>1, <3>1, <3>2, EndedRow
      <4> QED BY <4>1, <4>2
    <3>3. CASE new = [rec EXCEPT !.status = "failed", !.attempts = rec.attempts + 1, !.next = 0]
      <4>1. new.status = "failed" /\ new.attempts <= failures + 1
        BY <2>1, <3>1, <3>3 DEF Reminder
      <4>2. new \in Reminder
        BY <2>1, <3>1, <3>3, EndedRow
      <4> QED BY <4>1, <4>2
    <3> QED BY <2>2, <3>2, <3>3
  <2> QED BY <1>3, <2>3, <2>4, <2>5, SentTypes DEF IsPending
<1> QED BY <1>2, <1>3

\* The reminder at hand is done with, the others are as they were.
LEMMA EndedSent ==
    ASSUME SentInv, NEW r \in ReminderIds, ~Closed(r), Closed(r)',
           MarkSent(r) \/ MarkFailed(r),
           \A q \in ReminderIds : Closed(q) => Closed(q)',
           UNCHANGED <<failures, crashes, unsure>>,
           sent' = sent \/ sent' = [sent EXCEPT ![r] = @ + 1],
           RemindersTypeOK'
    PROVE  \A q \in ReminderIds : Counted(q)'
<1> SUFFICES ASSUME NEW q \in ReminderIds PROVE Counted(q)'
  OBVIOUS
<1>1. CASE q = r
  <2>1. /\ sent[r] <= (IF r \in unsure THEN failures + crashes ELSE 0)
        /\ sent[r] \in Nat /\ failures \in Nat /\ crashes \in Nat
    BY SentTypes, RemindersConstants DEF SentInv, Counted
  <2>2. sent'[r] <= sent[r] + 1 /\ sent'[r] \in Nat
    BY <2>1, SentTypes
  <2>3. Exists(r)' => reminders'[r].attempts <= failures + 1
    BY MarkEnds
  <2> QED BY <1>1, <2>1, <2>2, <2>3 DEF Counted
<1>2. CASE q # r
  <2>1. reminders'[q] = reminders[q] /\ sent'[q] = sent[q]
    BY <1>2, MarkEnds, SentTypes
  <2> QED BY <2>1, CountedStays, SentTypes DEF Exists
<1> QED BY <1>1, <1>2

LEMMA SendsNextSent ==
    ASSUME SentInv, SendsNext
    PROVE  SentInv'
<1>1. /\ pass \in Seq(ReminderIds) /\ pass # << >> /\ pass' = Tail(pass)
      /\ Len(pass) \in Nat /\ Len(pass) > 0
  BY SentTypes DEF SendsNext
<1> PICK r \in ReminderIds : r = Head(pass)
  BY <1>1
<1>2. /\ r = pass[1] /\ r \in ReminderIds
      /\ pass' \in Seq(ReminderIds)
      /\ DOMAIN pass' = 1 .. Len(pass) - 1 /\ DOMAIN pass = 1 .. Len(pass)
      /\ \A i \in 1 .. Len(pass) - 1 : pass'[i] = pass[i + 1]
  BY <1>1
<1>3. \A i, j \in 1 .. Len(pass) : pass[i] = pass[j] => i = j
  BY <1>2 DEF SentInv, PassIsSound
<1>4. \A i \in DOMAIN pass' : pass'[i] # r
  <2>1. ASSUME NEW i \in 1 .. Len(pass) - 1 PROVE pass[i + 1] # pass[1]
    <3>1. i + 1 \in 1 .. Len(pass) /\ 1 \in 1 .. Len(pass) /\ i + 1 # 1
      BY <1>1
    <3> QED BY <1>3, <3>1
  <2> QED BY <1>2, <2>1
<1>5. ~Closed(r)
  <2>1. 1 \in DOMAIN pass
    BY <1>1, <1>2
  <2> QED BY <1>2, <2>1 DEF Closed
<1>6. \A i, j \in DOMAIN pass' : pass'[i] = pass'[j] => i = j
  <2>1. ASSUME NEW i \in 1 .. Len(pass) - 1, NEW j \in 1 .. Len(pass) - 1,
               pass[i + 1] = pass[j + 1]
        PROVE  i = j
    <3>1. i + 1 \in 1 .. Len(pass) /\ j + 1 \in 1 .. Len(pass)
      BY <1>1
    <3>2. i + 1 = j + 1
      BY <1>3, <2>1, <3>1
    <3> QED BY <3>2
  <2> QED BY <1>2, <2>1
<1>7. sending = Unset /\ UNCHANGED <<elapsed, now, failures, crashes, chatEnabled, sent, unsure>>
  BY DEF SendsNext, bounds
<1>8. CASE sending' = r /\ UNCHANGED reminders
  <2>1. RemindersTypeOK'
    BY <1>2, <1>7, <1>8, SentTypes DEF SentInv, RemindersTypeOK
  <2>2. PassIsSound'
    BY <1>4, <1>6, <1>8 DEF PassIsSound
  <2>3. ASSUME NEW q \in ReminderIds PROVE Counted(q)'
    <3>1. Closed(q) => Closed(q)'
      <4>1. Closed(q) => q # r
        BY <1>5
      <4>2. Closed(q) => \A i \in DOMAIN pass' : pass'[i] # q
        BY <1>1, <1>2 DEF Closed
      <4> QED BY <1>8, <4>1, <4>2 DEF Closed, IsPending, Exists
    <3>2. Exists(q)' => Exists(q) /\ reminders'[q].attempts = reminders[q].attempts
      BY <1>8 DEF Exists
    <3> QED BY <1>7, <3>1, <3>2, CountedStays, SentTypes
  <2> QED BY <2>1, <2>2, <2>3 DEF SentInv
<1>9. CASE MarkFailed(r) /\ UNCHANGED sending
  <2>1. RemindersTypeOK'
    BY <1>2, <1>5, <1>7, <1>9, MarkEnds, SentTypes DEF SentInv, RemindersTypeOK
  <2>2. PassIsSound'
    BY <1>2, <1>6, <1>7, <1>9, RemindersConstants DEF PassIsSound, SentInv, RemindersTypeOK
  <2>3. Closed(r)'
    <3>1. ~IsPending(r)'
      BY <1>2, <1>5, <1>9, MarkEnds
    <3>2. sending' # r
      BY <1>2, <1>7, <1>9, RemindersConstants
    <3> QED BY <1>4, <3>1, <3>2 DEF Closed
  <2>4. ASSUME NEW q \in ReminderIds, Closed(q) PROVE Closed(q)'
    <3>1. q # r /\ reminders'[q] = reminders[q]
      BY <1>2, <1>5, <1>9, <2>4, MarkEnds
    <3>2. \A i \in DOMAIN pass' : pass'[i] # q
      BY <1>1, <1>2, <2>4 DEF Closed
    <3> QED BY <1>9, <2>4, <3>1, <3>2 DEF Closed, IsPending, Exists
  <2>5. \A q \in ReminderIds : Counted(q)'
    BY <1>2, <1>5, <1>7, <1>9, <2>1, <2>3, <2>4, EndedSent
  <2> QED BY <2>1, <2>2, <2>5 DEF SentInv
<1> QED BY <1>8, <1>9 DEF SendsNext

\* Telegram's answer is there for good: the reminder is closed.
LEMMA AnsweredSent ==
    ASSUME SentInv, Delivered \/ Refused
    PROVE  SentInv'
<1> PICK r \in ReminderIds : r = sending
  BY SentTypes DEF Delivered, Refused
<1>1. /\ ~Closed(r) /\ (MarkSent(r) \/ MarkFailed(r)) /\ sending' = Unset
      /\ sent' = sent \/ sent' = [sent EXCEPT ![r] = @ + 1]
      /\ UNCHANGED <<pass, elapsed, now, failures, crashes, chatEnabled, unsure>>
  BY DEF Delivered, Refused, Closed, bounds, Got
<1>2. \A i \in DOMAIN pass : pass[i] # r
  BY DEF SentInv, PassIsSound
<1>3. Closed(r)'
  <2>1. ~IsPending(r)'
    BY <1>1, MarkEnds
  <2> QED BY <1>1, <1>2, <2>1, RemindersConstants DEF Closed
<1>4. ASSUME NEW q \in ReminderIds, Closed(q) PROVE Closed(q)'
  <2>1. q # r /\ reminders'[q] = reminders[q]
    BY <1>1, <1>4, MarkEnds
  <2> QED BY <1>1, <1>4, <2>1, RemindersConstants DEF Closed, IsPending, Exists
<1>5. sent[r] + 1 \in 0 .. 1 + MaxFailures + MaxCrashes
  <2>1. sent[r] <= (IF r \in unsure THEN failures + crashes ELSE 0)
    BY <1>1, OpenCounted
  <2> QED BY <2>1, SentTypes, RemindersConstants
<1>6. sent' \in [ReminderIds -> 0 .. 1 + MaxFailures + MaxCrashes]
  BY <1>1, <1>5, SentTypes
<1>7. RemindersTypeOK'
  <2>1. reminders' \in [ReminderIds -> Reminder \cup {NoReminder}]
    BY <1>1, MarkEnds
  <2> QED BY <1>1, <1>6, <2>1, SentTypes DEF SentInv, RemindersTypeOK
<1>8. PassIsSound'
  <2>1. \A i \in DOMAIN pass : pass[i] \in ReminderIds
    BY SentTypes
  <2> QED BY <1>1, <2>1, RemindersConstants DEF SentInv, PassIsSound
<1>9. \A q \in ReminderIds : Counted(q)'
  BY <1>1, <1>3, <1>4, <1>7, EndedSent
<1> QED BY <1>7, <1>8, <1>9 DEF SentInv

\* A message that got through although its answer was lost counts as one more
\* failure or crash.
LEMMA UnsureCounted ==
    ASSUME SentInv, NEW r \in ReminderIds, ~Closed(r),
           \/ UNCHANGED <<sent, unsure>>
           \/ Got(r) /\ unsure' = unsure \cup {r},
           failures' \in Nat, crashes' \in Nat, failures' >= failures, crashes' >= crashes,
           failures' + crashes' = failures + crashes + 1,
           Exists(r)' => /\ Exists(r) /\ reminders'[r].attempts \in Nat
                         /\ reminders'[r].attempts <= failures',
           NEW q \in ReminderIds, Closed(q) => Closed(q)',
           q # r => reminders'[q] = reminders[q]
    PROVE  Counted(q)'
<1>1. CASE q = r
  <2>1. /\ sent[r] <= (IF r \in unsure THEN failures + crashes ELSE 0)
        /\ sent[r] \in Nat /\ failures \in Nat /\ crashes \in Nat
    BY OpenCounted
  <2> DEFINE more == IF q \in unsure' THEN failures' + crashes' ELSE 0
             closed == IF Closed(q)' THEN 1 ELSE 0
  <2>4. more \in Nat /\ closed \in Nat
    <3>1. more = 0 \/ more = failures' + crashes'
      BY Zenon
    <3>2. closed = 0 \/ closed = 1
      BY Zenon
    <3> HIDE DEF more, closed
    <3> QED BY <3>1, <3>2
  <2>5. Exists(q)' => reminders'[q].attempts <= failures' + closed
    <3>1. Exists(q)' => reminders'[q].attempts \in Nat /\ reminders'[q].attempts <= failures'
      BY <1>1
    <3> HIDE DEF closed
    <3> QED BY <2>4, <3>1
  <2>6. sent'[q] \in Nat /\ sent'[q] <= more => Counted(q)'
    <3>1. Counted(q)' <=> sent'[q] <= more + closed
                          /\ (Exists(q)' => reminders'[q].attempts <= failures' + closed)
      BY Zenon DEF Counted
    <3> HIDE DEF more, closed
    <3> QED BY <2>4, <2>5, <3>1
  <2>2. CASE UNCHANGED <<sent, unsure>>
    BY <1>1, <2>1, <2>2, <2>6
  <2>3. CASE Got(r) /\ unsure' = unsure \cup {r}
    <3>1. sent'[r] = sent[r] + 1 /\ r \in unsure' /\ sent'[r] \in Nat
      BY <2>1, <2>3, SentTypes DEF Got
    <3>2. sent[r] <= failures + crashes
      BY <2>1
    <3>3. more = failures + crashes + 1
      BY <1>1, <3>1
    <3> HIDE DEF more
    <3> QED BY <1>1, <2>1, <2>6, <3>1, <3>2, <3>3
  <2> QED BY <2>2, <2>3
<1>2. CASE q # r
  <2>1. sent'[q] = sent[q] /\ (q \in unsure => q \in unsure') /\ reminders'[q] = reminders[q]
    BY <1>2, SentTypes DEF Got
  <2> QED BY <2>1, CountedStays DEF Exists
<1> QED BY <1>1, <1>2

LEMMA UnsureTyped ==
    ASSUME SentInv, NEW r \in ReminderIds, ~Closed(r),
           UNCHANGED <<sent, unsure>> \/ (Got(r) /\ unsure' = unsure \cup {r})
    PROVE  /\ sent' \in [ReminderIds -> 0 .. 1 + MaxFailures + MaxCrashes]
           /\ unsure' \subseteq ReminderIds
<1>1. sent[r] <= (IF r \in unsure THEN failures + crashes ELSE 0)
  BY OpenCounted
<1>2. sent[r] + 1 \in 0 .. 1 + MaxFailures + MaxCrashes
  BY <1>1, SentTypes, RemindersConstants
<1> QED BY <1>2, SentTypes DEF Got

LEMMA FailsSent ==
    ASSUME SentInv, Fails
    PROVE  SentInv'
<1> PICK r \in ReminderIds : r = sending
  BY SentTypes DEF Fails
<1> PICK at \in 0 .. RetryMax : MarkRetry(r, at)
  <2>1. \A tries : Max({0, RetryDelay(tries) - elapsed}) \in 0 .. RetryMax
    <3>1. elapsed \in Nat
      BY SentTypes, RemindersConstants
    <3> QED BY <3>1, RetryIsBounded
  <2> QED BY <2>1 DEF Fails
<1>1. /\ ~Closed(r) /\ sending' = Unset
      /\ UNCHANGED <<sent, unsure>> \/ (Got(r) /\ unsure' = unsure \cup {r})
      /\ failures < MaxFailures /\ failures' = failures + 1
      /\ UNCHANGED <<pass, elapsed, now, crashes, chatEnabled>>
  BY DEF Fails, Closed
<1>2. /\ reminders' \in [ReminderIds -> Reminder \cup {NoReminder}]
      /\ \A q \in ReminderIds : q # r => reminders'[q] = reminders[q]
      /\ Exists(r)' => /\ Exists(r) /\ reminders'[r].attempts \in Nat
                        /\ reminders'[r].attempts <= failures'
  <2>1. failures \in Nat /\ failures' \in Nat /\ (Exists(r) => reminders[r].attempts <= failures)
    BY <1>1, SentTypes, OpenCounted
  <2>2. CASE ~IsPending(r)
    <3>1. Exists(r) => reminders[r].attempts \in Nat
      BY SentTypes, RemindersConstants DEF Reminder
    <3> QED BY <1>1, <2>1, <2>2, <3>1, SentTypes DEF MarkRetry, Exists
  <2>3. CASE IsPending(r)
    <3>1. reminders[r] \in Reminder /\ reminders[r].attempts \in Nat
      BY <2>3, SentTypes, RemindersConstants DEF IsPending, Reminder
    <3>2. reminders' = [reminders EXCEPT ![r] = [reminders[r] EXCEPT
                           !.attempts = reminders[r].attempts + 1, !.next = at]]
      BY <2>3 DEF MarkRetry, Mark, IsPending
    <3>3. reminders'[r] = [reminders[r] EXCEPT
                              !.attempts = reminders[r].attempts + 1, !.next = at]
          /\ \A q \in ReminderIds : q # r => reminders'[q] = reminders[q]
      BY <3>2, SentTypes
    <3>4. reminders[r].attempts + 1 \in 0 .. MaxFailures + 1
      <4>1. reminders[r].attempts <= failures
        BY <2>1, <2>3 DEF IsPending
      <4> QED BY <1>1, <2>1, <3>1, <4>1, RemindersConstants
    <3>5. reminders'[r] \in Reminder
          /\ reminders'[r].attempts = reminders[r].attempts + 1
      BY <3>1, <3>3, <3>4 DEF Reminder
    <3>6. reminders' \in [ReminderIds -> Reminder \cup {NoReminder}]
      <4>1. DOMAIN reminders' = ReminderIds /\ reminders' = [q \in ReminderIds |-> reminders'[q]]
        BY <3>2, SentTypes
      <4> QED BY <3>3, <3>5, <4>1, SentTypes
    <3> QED BY <1>1, <2>1, <2>3, <3>1, <3>3, <3>5, <3>6 DEF IsPending
  <2> QED BY <2>2, <2>3
<1>3. RemindersTypeOK'
  <2>1. failures' \in 0 .. MaxFailures /\ sending' \in ReminderIds \cup {Unset}
    BY <1>1, SentTypes, RemindersConstants
  <2> QED BY <1>1, <1>2, <2>1, UnsureTyped, SentTypes DEF RemindersTypeOK
<1>4. PassIsSound'
  <2>1. \A i \in DOMAIN pass : pass[i] \in ReminderIds
    BY SentTypes
  <2> QED BY <1>1, <2>1, RemindersConstants DEF SentInv, PassIsSound
<1>5. ASSUME NEW q \in ReminderIds PROVE Counted(q)'
  <2>1. Closed(q) => Closed(q)'
    <3> SUFFICES ASSUME Closed(q) PROVE Closed(q)'
      OBVIOUS
    <3>1. q # r /\ reminders'[q] = reminders[q]
      BY <1>1, <1>2
    <3> QED BY <1>1, <3>1, RemindersConstants DEF Closed, IsPending, Exists
  <2>2. /\ failures' \in Nat /\ crashes' \in Nat /\ failures' >= failures /\ crashes' >= crashes
        /\ failures' + crashes' = failures + crashes + 1
    BY <1>1, SentTypes
  <2> QED BY <1>1, <1>2, <2>1, <2>2, UnsureCounted
<1> QED BY <1>3, <1>4, <1>5 DEF SentInv

LEMMA DiesSent ==
    ASSUME SentInv, Dies
    PROVE  SentInv'
<1>1. /\ crashes < MaxCrashes /\ crashes' = crashes + 1
      /\ pass' = << >> /\ sending' = Unset
      /\ UNCHANGED <<reminders, elapsed, now, failures, chatEnabled>>
  BY DEF Dies
<1>2. /\ failures' \in Nat /\ crashes' \in Nat /\ failures' >= failures /\ crashes' >= crashes
      /\ failures' + crashes' = failures + crashes + 1 /\ crashes' \in 0 .. MaxCrashes
  BY <1>1, SentTypes, RemindersConstants
<1>3. PassIsSound'
  BY <1>1 DEF PassIsSound
<1>4. ASSUME NEW q \in ReminderIds, Closed(q) PROVE Closed(q)'
  BY <1>1, <1>4, RemindersConstants DEF Closed, IsPending, Exists
<1>5. CASE sending = Unset
  <2>1. UNCHANGED <<sent, unsure>>
    BY <1>5 DEF Dies
  <2>2. RemindersTypeOK'
    BY <1>1, <1>2, <2>1, SentTypes DEF RemindersTypeOK
  <2>3. ASSUME NEW q \in ReminderIds PROVE Counted(q)'
    <3>1. Exists(q)' => Exists(q) /\ reminders'[q].attempts = reminders[q].attempts
      BY <1>1 DEF Exists
    <3> QED BY <1>2, <1>4, <2>1, <3>1, CountedStays
  <2> QED BY <1>3, <2>2, <2>3 DEF SentInv
<1>6. CASE sending # Unset
  <2> PICK r \in ReminderIds : r = sending
    BY <1>6, SentTypes
  <2>1. ~Closed(r) /\ (UNCHANGED <<sent, unsure>> \/ (Got(r) /\ unsure' = unsure \cup {r}))
    BY <1>6 DEF Dies, Closed
  <2>2. Exists(r)' => /\ Exists(r) /\ reminders'[r].attempts \in Nat
                      /\ reminders'[r].attempts <= failures'
    BY <1>1, <2>1, OpenCounted DEF Exists
  <2>3. RemindersTypeOK'
    <3>1. /\ sent' \in [ReminderIds -> 0 .. 1 + MaxFailures + MaxCrashes]
          /\ unsure' \subseteq ReminderIds
      BY <2>1, UnsureTyped
    <3>2. << >> \in Seq(ReminderIds)
      OBVIOUS
    <3> QED BY <1>1, <1>2, <3>1, <3>2, SentTypes DEF RemindersTypeOK
  <2>4. ASSUME NEW q \in ReminderIds PROVE Counted(q)'
    <3>1. Closed(q) => Closed(q)'
      BY <1>4
    <3>2. reminders'[q] = reminders[q]
      BY <1>1
    <3> QED BY <1>2, <2>1, <2>2, <3>1, <3>2, UnsureCounted
  <2> QED BY <1>3, <2>3, <2>4 DEF SentInv
<1> QED BY <1>5, <1>6

LEMMA TickSent ==
    ASSUME SentInv, Tick
    PROVE  SentInv'
<1>1. ASSUME NEW a \in Int, NEW b \in Int PROVE Min({a, b}) = IF a <= b THEN a ELSE b
  BY DEF Min
<1>2. now' \in 0 .. MaxDue /\ elapsed' \in 0 .. RetryMax
  <2>1. now' = IF now + 1 <= MaxDue THEN now + 1 ELSE MaxDue
    <3>1. now + 1 \in Int /\ MaxDue \in Int /\ now' = Min({now + 1, MaxDue})
      BY SentTypes, RemindersConstants DEF Tick
    <3> QED BY <1>1, <3>1
  <2>2. elapsed' = elapsed \/ elapsed' = IF elapsed + 1 <= RetryMax THEN elapsed + 1 ELSE RetryMax
    <3>1. elapsed + 1 \in Int /\ RetryMax \in Int
          /\ elapsed' \in {elapsed, Min({elapsed + 1, RetryMax})}
      BY SentTypes, RemindersConstants DEF Tick
    <3> QED BY <1>1, <3>1
  <2> QED BY <2>1, <2>2, SentTypes, RemindersConstants
<1>3. ASSUME NEW q \in ReminderIds
      PROVE  /\ reminders'[q] = reminders[q]
                \/ (/\ Exists(q) /\ reminders'[q] \in Reminder
                    /\ reminders'[q].status = reminders[q].status
                    /\ reminders'[q].attempts = reminders[q].attempts)
  <2>1. CASE Exists(q) /\ reminders[q].next > 0
    <3>1. reminders'[q] = [reminders[q] EXCEPT !.next = reminders[q].next - 1]
      BY <2>1 DEF Tick
    <3>2. reminders[q] \in Reminder
      BY <2>1, SentTypes
    <3> QED BY <2>1, <3>1, <3>2, RemindersConstants DEF Reminder
  <2>2. CASE ~(Exists(q) /\ reminders[q].next > 0)
    BY <2>2 DEF Tick
  <2> QED BY <2>1, <2>2
<1>4. reminders' \in [ReminderIds -> Reminder \cup {NoReminder}]
  <2>1. DOMAIN reminders' = ReminderIds /\ reminders' = [q \in ReminderIds |-> reminders'[q]]
    BY DEF Tick
  <2> QED BY <1>3, <2>1, SentTypes
<1>5. UNCHANGED <<pass, sending, chatEnabled, failures, crashes, sent, unsure>>
  BY DEF Tick
<1>6. RemindersTypeOK'
  BY <1>2, <1>4, <1>5, SentTypes DEF RemindersTypeOK
<1>7. PassIsSound'
  BY <1>5 DEF SentInv, PassIsSound
<1>8. ASSUME NEW q \in ReminderIds PROVE Counted(q)'
  <2>1. Closed(q) => Closed(q)'
    BY <1>3, <1>5, NoReminderIsNone DEF Closed, Exists, IsPending
  <2>2. Exists(q)' => Exists(q) /\ reminders'[q].attempts = reminders[q].attempts
    BY <1>3 DEF Exists
  <2> QED BY <1>5, <2>1, <2>2, CountedStays, SentTypes
<1> QED BY <1>6, <1>7, <1>8 DEF SentInv

LEMMA RestSent ==
    ASSUME SentInv, Disables \/ UNCHANGED remVars
    PROVE  SentInv'
<1>1. /\ UNCHANGED <<reminders, pass, elapsed, sending, now, failures, crashes, sent, unsure>>
      /\ chatEnabled' \in BOOLEAN
  BY SentTypes DEF Disables, remVars, bounds
<1>2. RemindersTypeOK'
  BY <1>1, SentTypes DEF RemindersTypeOK
<1>3. PassIsSound'
  BY <1>1 DEF SentInv, PassIsSound
<1>4. ASSUME NEW q \in ReminderIds PROVE Counted(q)'
  <2>1. Closed(q) => Closed(q)'
    BY <1>1 DEF Closed, Exists, IsPending
  <2>2. Exists(q)' => Exists(q) /\ reminders'[q].attempts = reminders[q].attempts
    BY <1>1 DEF Exists
  <2> QED BY <1>1, <2>1, <2>2, CountedStays, SentTypes
<1> QED BY <1>2, <1>3, <1>4 DEF SentInv

\* Nobody is reminded twice, unless Telegram's answer was lost or the process
\* died before it was saved: not by a cancelled or deleted reminder that is
\* still in the list, nor by one that is tried again while others are sent
\* (ReminderSender.send_due, ReminderRepository).
THEOREM RemindersSentOnce == RemindersSpec => []RemindedOnce
<1>1. SentInv /\ [RemindersNext]_remVars => SentInv'
  <2> SUFFICES ASSUME SentInv, [RemindersNext]_remVars PROVE SentInv'
    OBVIOUS
  <2>1. ASSUME NEW r \in ReminderIds, Cancel(r) \/ \E due \in 1 .. MaxDue : Set(r, due)
        PROVE  SentInv'
    BY <2>1, CancelSent, SetSent
  <2> QED
    BY <2>1, CleanUpSent, StartsSent, SendsNextSent, AnsweredSent, FailsSent, DiesSent,
       TickSent, RestSent DEF RemindersNext
<1>2. SentInv => RemindedOnce
  <2> SUFFICES ASSUME SentInv, NEW r \in ReminderIds \ unsure PROVE sent[r] <= 1
    BY DEF SentInv, RemindedOnce, SentOnce
  <2>1. sent[r] \in Nat /\ Counted(r)
    BY SentTypes, RemindersConstants DEF SentInv
  <2> QED BY <2>1 DEF Counted
<1> QED BY <1>1, <1>2, RemindersInitSent, PTL DEF RemindersSpec

-----------------------------------------------------------------------------
(* The database connection *)

Locked ==
    /\ lock = Nobody => depth = 0
    /\ lock # Nobody => depth = blocks[lock]
    /\ \A t \in Threads : InBlock(t) <=> lock = t

Placed ==
    /\ \A t \in Threads : step[t] = "entering" => blocks[t] < MaxDepth
    /\ \A t \in Threads : step[t] \in {"inside", "raising"} => InBlock(t)
    /\ \A t \in Threads : step[t] = "idle" => ~InBlock(t)
    /\ up => script = 0
    /\ ~up => \A t \in Threads : step[t] = "idle"
    /\ script > 0 => version < Scripts

Opened ==
    /\ open => lock # Nobody \/ script > 0
    /\ script > 0 => open
    /\ \A t \in Threads : lock = t /\ step[t] # "raising" => open

\* A flush is in its one block, or about to be.
Drained ==
    draining # {} =>
        \/ step["loop"] = "entering" /\ ~InBlock("loop")
        \/ step["loop"] \in {"inside", "executing", "raising"} /\ blocks["loop"] = 1

Shape == DatabaseTypeOK /\ Locked /\ Placed /\ Opened /\ Drained

\* The names of parts of the state, of moves and of tests.
USE DEF connection, threads, log, process, Nobody, Goes, InBlock, MayUse, Flushing

-----------------------------------------------------------------------------
(* Shape *)

LEMMA ShapeInit == DatabaseInit => Shape
<1> SUFFICES ASSUME DatabaseInit PROVE Shape
  OBVIOUS
<1>0. open \in BOOLEAN /\ up \in BOOLEAN
  BY Zenon DEF DatabaseInit
<1>1. LogTypeOK
  BY DEF DatabaseInit, LogTypeOK
<1>2. DatabaseTypeOK
  BY <1>0, <1>1, DatabaseAssumption DEF DatabaseInit, DatabaseTypeOK, Steps
<1> QED
  BY <1>2, DatabaseAssumption DEF DatabaseInit, Shape, Locked, Placed, Opened, Drained

\* What is in the buffer are records.
LEMMA BufferRange == ASSUME LogTypeOK PROVE Range(buffer) \subseteq 1 .. records
BY DEF LogTypeOK, Range

LEMMA CallsShape ==
    ASSUME Shape, NEW t \in Threads,
           NEW to \in {"entering", "executing", "logging"},
           to = "entering" => blocks[t] < MaxDepth, Calls(t, to)
    PROVE  Shape'
<1>1. LogTypeOK'
  BY DEF Shape, DatabaseTypeOK, LogTypeOK, Range, Calls
<1>2. DatabaseTypeOK'
  BY <1>1, DatabaseAssumption DEF Shape, DatabaseTypeOK, Locked, Placed, Steps,
     Calls
<1>3. (Locked /\ Placed)'
  BY DatabaseAssumption DEF Shape, DatabaseTypeOK, Locked, Placed, Drained, Calls
<1>4. (Opened /\ Drained)'
  BY DatabaseAssumption DEF Shape, DatabaseTypeOK, Locked, Placed, Opened, Drained,
     Calls
<1> QED
  BY <1>1, <1>2, <1>3, <1>4 DEF Shape

LEMMA InsertManyShape ==
    ASSUME Shape, InsertMany
    PROVE  Shape'
<1>1. LogTypeOK'
  BY DEF Shape, DatabaseTypeOK, LogTypeOK, Range, InsertMany
<1>2. DatabaseTypeOK'
  BY <1>1, DatabaseAssumption DEF Shape, DatabaseTypeOK, Locked, Placed, Steps,
     InsertMany
<1>3. (Locked /\ Placed)'
  BY DatabaseAssumption DEF Shape, DatabaseTypeOK, Locked, Placed, Drained,
     InsertMany
<1>4. (Opened /\ Drained)'
  BY DatabaseAssumption DEF Shape, DatabaseTypeOK, Locked, Placed, Opened, Drained,
     InsertMany
<1> QED
  BY <1>1, <1>2, <1>3, <1>4 DEF Shape

LEMMA EnterShape ==
    ASSUME Shape, NEW t \in Threads, Enter(t)
    PROVE  Shape'
<1>1. LogTypeOK'
  BY DEF Shape, DatabaseTypeOK, LogTypeOK, Range, Enter
<1>2. DatabaseTypeOK'
  BY <1>1, DatabaseAssumption DEF Shape, DatabaseTypeOK, Locked, Placed, Steps,
     Enter
<1>3. (Locked /\ Placed)'
  BY DatabaseAssumption DEF Shape, DatabaseTypeOK, Locked, Placed, Drained, Enter
<1>4. (Opened /\ Drained)'
  BY DatabaseAssumption DEF Shape, DatabaseTypeOK, Locked, Placed, Opened, Drained,
     Enter
<1> QED
  BY <1>1, <1>2, <1>3, <1>4 DEF Shape

LEMMA BeginFailsShape ==
    ASSUME Shape, NEW t \in Threads, BeginFails(t)
    PROVE  Shape'
<1>1. LogTypeOK'
  BY DEF Shape, DatabaseTypeOK, LogTypeOK, Range, BeginFails, FlushEnds
<1>2. DatabaseTypeOK'
  BY <1>1, DatabaseAssumption DEF Shape, DatabaseTypeOK, Locked, Placed, Steps,
     BeginFails, FlushEnds
<1>3. (Locked /\ Placed)'
  BY DatabaseAssumption DEF Shape, DatabaseTypeOK, Locked, Placed, Drained,
     BeginFails, FlushEnds
<1>4. (Opened /\ Drained)'
  BY DatabaseAssumption DEF Shape, DatabaseTypeOK, Locked, Placed, Opened, Drained,
     BeginFails, FlushEnds
<1> QED
  BY <1>1, <1>2, <1>3, <1>4 DEF Shape

LEMMA LeaveNestedShape ==
    ASSUME Shape, NEW t \in Threads, LeaveNested(t)
    PROVE  Shape'
<1>1. LogTypeOK'
  BY DEF Shape, DatabaseTypeOK, LogTypeOK, Range, LeaveNested, LeavesBlock
<1>2. DatabaseTypeOK'
  BY <1>1, DatabaseAssumption DEF Shape, DatabaseTypeOK, Locked, Placed, Steps,
     LeaveNested, LeavesBlock
<1>3. (Locked /\ Placed)'
  BY DatabaseAssumption DEF Shape, DatabaseTypeOK, Locked, Placed, Drained,
     LeaveNested, LeavesBlock
<1>4. (Opened /\ Drained)'
  BY DatabaseAssumption DEF Shape, DatabaseTypeOK, Locked, Placed, Opened, Drained,
     LeaveNested, LeavesBlock
<1> QED
  BY <1>1, <1>2, <1>3, <1>4 DEF Shape

LEMMA CommitShape ==
    ASSUME Shape, NEW t \in Threads, Commit(t)
    PROVE  Shape'
<1>0. open' \in BOOLEAN
  BY Zenon DEF Shape, DatabaseTypeOK, Commit, LeaveOuter
<1>1. LogTypeOK'
  BY DEF Shape, DatabaseTypeOK, LogTypeOK, Range, Commit, LeaveOuter, LeavesBlock,
     FlushEnds
<1>2. DatabaseTypeOK'
  BY <1>0, <1>1, DatabaseAssumption DEF Shape, DatabaseTypeOK, Locked, Placed,
     Steps, Commit, LeaveOuter, LeavesBlock, FlushEnds
<1>3. (Locked /\ Placed)'
  BY DatabaseAssumption DEF Shape, DatabaseTypeOK, Locked, Placed, Drained, Commit,
     LeaveOuter, LeavesBlock, FlushEnds
<1>4. (Opened /\ Drained)'
  BY DatabaseAssumption DEF Shape, DatabaseTypeOK, Locked, Placed, Opened, Drained,
     Commit, LeaveOuter, LeavesBlock, FlushEnds
<1> QED
  BY <1>1, <1>2, <1>3, <1>4 DEF Shape

LEMMA RollbackShape ==
    ASSUME Shape, NEW t \in Threads, Rollback(t)
    PROVE  Shape'
<1>0. open' \in BOOLEAN
  BY Zenon DEF Shape, DatabaseTypeOK, Rollback, LeaveOuter
<1>1. LogTypeOK'
  BY DEF Shape, DatabaseTypeOK, LogTypeOK, Range, Rollback, LeaveOuter, LeavesBlock,
     FlushEnds
<1>2. DatabaseTypeOK'
  BY <1>0, <1>1, DatabaseAssumption DEF Shape, DatabaseTypeOK, Locked, Placed,
     Steps, Rollback, LeaveOuter, LeavesBlock, FlushEnds
<1>3. (Locked /\ Placed)'
  BY DatabaseAssumption DEF Shape, DatabaseTypeOK, Locked, Placed, Drained,
     Rollback, LeaveOuter, LeavesBlock, FlushEnds
<1>4. (Opened /\ Drained)'
  BY DatabaseAssumption DEF Shape, DatabaseTypeOK, Locked, Placed, Opened, Drained,
     Rollback, LeaveOuter, LeavesBlock, FlushEnds
<1> QED
  BY <1>1, <1>2, <1>3, <1>4 DEF Shape

LEMMA RaiseShape ==
    ASSUME Shape, NEW t \in Threads, Raise(t)
    PROVE  Shape'
<1>1. LogTypeOK'
  BY DEF Shape, DatabaseTypeOK, LogTypeOK, Range, Raise
<1>2. DatabaseTypeOK'
  BY <1>1, DatabaseAssumption DEF Shape, DatabaseTypeOK, Locked, Placed, Steps,
     Raise
<1>3. (Locked /\ Placed)'
  BY DatabaseAssumption DEF Shape, DatabaseTypeOK, Locked, Placed, Drained, Raise
<1>4. (Opened /\ Drained)'
  BY DatabaseAssumption DEF Shape, DatabaseTypeOK, Locked, Placed, Opened, Drained,
     Raise
<1> QED
  BY <1>1, <1>2, <1>3, <1>4 DEF Shape

LEMMA ExecuteShape ==
    ASSUME Shape, NEW t \in Threads, Execute(t)
    PROVE  Shape'
<1>1. LogTypeOK'
  BY DEF Shape, DatabaseTypeOK, LogTypeOK, Range, Execute, Back
<1>2. DatabaseTypeOK'
  BY <1>1, DatabaseAssumption DEF Shape, DatabaseTypeOK, Locked, Placed, Steps,
     Execute, Back
<1>3. (Locked /\ Placed)'
  BY DatabaseAssumption DEF Shape, DatabaseTypeOK, Locked, Placed, Drained, Execute,
     Back
<1>4. (Opened /\ Drained)'
  BY DatabaseAssumption DEF Shape, DatabaseTypeOK, Locked, Placed, Opened, Drained,
     Execute, Back
<1> QED
  BY <1>1, <1>2, <1>3, <1>4 DEF Shape

LEMMA ExecuteFailsShape ==
    ASSUME Shape, NEW t \in Threads, ExecuteFails(t)
    PROVE  Shape'
<1>0. open' \in BOOLEAN
  BY Zenon DEF Shape, DatabaseTypeOK, ExecuteFails
<1>1. LogTypeOK'
  BY DEF Shape, DatabaseTypeOK, LogTypeOK, Range, ExecuteFails
<1>2. DatabaseTypeOK'
  BY <1>0, <1>1, DatabaseAssumption DEF Shape, DatabaseTypeOK, Locked, Placed,
     Steps, ExecuteFails
<1>3. (Locked /\ Placed)'
  BY DatabaseAssumption DEF Shape, DatabaseTypeOK, Locked, Placed, Drained,
     ExecuteFails
<1>4. (Opened /\ Drained)'
  <2>1. CASE InBlock(t)
    BY <2>1, DatabaseAssumption
       DEF Shape, DatabaseTypeOK, Locked, Placed, Opened, Drained, ExecuteFails
  <2>2. CASE ~InBlock(t)
    <3>1. lock = Nobody /\ ~open
      BY <2>2, DatabaseAssumption
         DEF Shape, DatabaseTypeOK, Locked, Placed, Opened, ExecuteFails
    <3>2. ~open'
      BY <3>1, Zenon DEF ExecuteFails
    <3> QED
      BY <2>2, <3>1, <3>2, DatabaseAssumption
         DEF Shape, DatabaseTypeOK, Locked, Placed, Opened, Drained, ExecuteFails
  <2> QED
    BY <2>1, <2>2
<1> QED
  BY <1>1, <1>2, <1>3, <1>4 DEF Shape

LEMMA HandleShape ==
    ASSUME Shape, NEW t \in Threads, Handle(t)
    PROVE  Shape'
<1>1. LogTypeOK'
  BY DEF Shape, DatabaseTypeOK, LogTypeOK, Range, Handle
<1>2. DatabaseTypeOK'
  BY <1>1, DatabaseAssumption DEF Shape, DatabaseTypeOK, Locked, Placed, Steps,
     Handle
<1>3. (Locked /\ Placed)'
  BY DatabaseAssumption DEF Shape, DatabaseTypeOK, Locked, Placed, Drained, Handle
<1>4. (Opened /\ Drained)'
  BY DatabaseAssumption DEF Shape, DatabaseTypeOK, Locked, Placed, Opened, Drained,
     Handle
<1> QED
  BY <1>1, <1>2, <1>3, <1>4 DEF Shape

LEMMA EmitShape ==
    ASSUME Shape, NEW t \in Threads, Emit(t)
    PROVE  Shape'
<1>1. LogTypeOK'
  <2>1. /\ records' = records + 1 /\ records \in Nat /\ records' \in 1 .. records'
        /\ buffer \in Seq(1 .. records) /\ Len(buffer) \in Nat /\ MaxBuffer \in Nat \ {0}
    BY DatabaseAssumption DEF Shape, DatabaseTypeOK, LogTypeOK, Emit
  <2>2. \A i \in 1 .. Len(buffer) : buffer[i] \in 1 .. records'
    BY <2>1
  <2>3. buffer \in Seq(1 .. records')
    BY <2>1, <2>2
  <2>4. CASE Len(buffer) < MaxBuffer
    <3>1. buffer' = Append(buffer, records') /\ missing' = missing /\ draining' = draining
      BY <2>1, <2>4 DEF Emit, Buffered
    <3> QED
      BY <2>1, <2>3, <3>1 DEF LogTypeOK, Shape, DatabaseTypeOK
  <2>5. CASE ~(Len(buffer) < MaxBuffer)
    <3>1. /\ buffer' = Append(Tail(buffer), records') /\ draining' = draining
          /\ missing' = missing \cup {buffer[1]}
      BY <2>1, <2>5 DEF Emit, Buffered
    <3>2. buffer # << >> /\ buffer[1] \in 1 .. records'
      BY <2>1, <2>2, <2>5
    <3>3. Tail(buffer) \in Seq(1 .. records')
      BY <2>3, <3>2
    <3>4. buffer' \in Seq(1 .. records')
      BY <2>1, <3>1, <3>3
    <3>5. draining' \subseteq 1 .. records' /\ missing' \subseteq 1 .. records'
      <4>1. draining \subseteq 1 .. records /\ missing \subseteq 1 .. records
        BY DEF LogTypeOK, Shape, DatabaseTypeOK
      <4>2. 1 .. records \subseteq 1 .. records'
        BY <2>1
      <4> QED
        BY <3>1, <3>2, <4>1, <4>2
    <3> QED
      BY <2>1, <3>4, <3>5 DEF LogTypeOK
  <2> QED
    BY <2>4, <2>5
<1>2. DatabaseTypeOK'
  BY <1>1, DatabaseAssumption DEF Shape, DatabaseTypeOK, Locked, Placed, Steps,
     Emit, Back
<1>3. (Locked /\ Placed)'
  BY DatabaseAssumption DEF Shape, DatabaseTypeOK, Locked, Placed, Drained, Emit,
     Back
<1>4. (Opened /\ Drained)'
  BY DatabaseAssumption DEF Shape, DatabaseTypeOK, Locked, Placed, Opened, Drained,
     Emit, Back
<1> QED
  BY <1>1, <1>2, <1>3, <1>4 DEF Shape

LEMMA FlushShape ==
    ASSUME Shape, Flush
    PROVE  Shape'
<1>1. LogTypeOK'
  BY DEF Shape, DatabaseTypeOK, LogTypeOK, Range, Flush
<1>2. DatabaseTypeOK'
  BY <1>1, DatabaseAssumption DEF Shape, DatabaseTypeOK, Locked, Placed, Steps,
     Flush
<1>3. (Locked /\ Placed)'
  BY DatabaseAssumption DEF Shape, DatabaseTypeOK, Locked, Placed, Drained, Flush
<1>4. (Opened /\ Drained)'
  BY DatabaseAssumption DEF Shape, DatabaseTypeOK, Locked, Placed, Opened, Drained,
     Flush
<1> QED
  BY <1>1, <1>2, <1>3, <1>4 DEF Shape

LEMMA MigrationBeginsShape ==
    ASSUME Shape, MigrationBegins
    PROVE  Shape'
<1>1. LogTypeOK'
  BY DEF Shape, DatabaseTypeOK, LogTypeOK, Range, MigrationBegins
<1>2. DatabaseTypeOK'
  BY <1>1, DatabaseAssumption DEF Shape, DatabaseTypeOK, Locked, Placed, Steps,
     MigrationBegins
<1>3. (Locked /\ Placed)'
  BY DatabaseAssumption DEF Shape, DatabaseTypeOK, Locked, Placed, Drained,
     MigrationBegins
<1>4. (Opened /\ Drained)'
  BY DatabaseAssumption DEF Shape, DatabaseTypeOK, Locked, Placed, Opened, Drained,
     MigrationBegins
<1> QED
  BY <1>1, <1>2, <1>3, <1>4 DEF Shape

LEMMA MigrationGoesOnShape ==
    ASSUME Shape, MigrationGoesOn
    PROVE  Shape'
<1>1. LogTypeOK'
  BY DEF Shape, DatabaseTypeOK, LogTypeOK, Range, MigrationGoesOn
<1>2. DatabaseTypeOK'
  BY <1>1, DatabaseAssumption DEF Shape, DatabaseTypeOK, Locked, Placed, Steps,
     MigrationGoesOn
<1>3. (Locked /\ Placed)'
  BY DatabaseAssumption DEF Shape, DatabaseTypeOK, Locked, Placed, Drained,
     MigrationGoesOn
<1>4. (Opened /\ Drained)'
  BY DatabaseAssumption DEF Shape, DatabaseTypeOK, Locked, Placed, Opened, Drained,
     MigrationGoesOn
<1> QED
  BY <1>1, <1>2, <1>3, <1>4 DEF Shape

LEMMA MigrationEndsShape ==
    ASSUME Shape, MigrationEnds
    PROVE  Shape'
<1>0. open' \in BOOLEAN
  BY Zenon DEF Shape, DatabaseTypeOK, MigrationEnds
<1>1. LogTypeOK'
  BY DEF Shape, DatabaseTypeOK, LogTypeOK, Range, MigrationEnds
<1>2. DatabaseTypeOK'
  BY <1>0, <1>1, DatabaseAssumption DEF Shape, DatabaseTypeOK, Locked, Placed,
     Steps, MigrationEnds
<1>3. (Locked /\ Placed)'
  BY DatabaseAssumption DEF Shape, DatabaseTypeOK, Locked, Placed, Drained,
     MigrationEnds
<1>4. (Opened /\ Drained)'
  BY DatabaseAssumption DEF Shape, DatabaseTypeOK, Locked, Placed, Opened, Drained,
     MigrationEnds
<1> QED
  BY <1>1, <1>2, <1>3, <1>4 DEF Shape

LEMMA MigrationFailsShape ==
    ASSUME Shape, MigrationFails
    PROVE  Shape'
<1>0. open' \in BOOLEAN
  BY Zenon DEF Shape, DatabaseTypeOK, MigrationFails
<1>1. LogTypeOK'
  BY DEF Shape, DatabaseTypeOK, LogTypeOK, Range, MigrationFails
<1>2. DatabaseTypeOK'
  BY <1>0, <1>1, DatabaseAssumption DEF Shape, DatabaseTypeOK, Locked, Placed,
     Steps, MigrationFails
<1>3. (Locked /\ Placed)'
  BY DatabaseAssumption DEF Shape, DatabaseTypeOK, Locked, Placed, Drained,
     MigrationFails
<1>4. (Opened /\ Drained)'
  BY DatabaseAssumption DEF Shape, DatabaseTypeOK, Locked, Placed, Opened, Drained,
     MigrationFails
<1> QED
  BY <1>1, <1>2, <1>3, <1>4 DEF Shape

LEMMA StartedShape ==
    ASSUME Shape, Started
    PROVE  Shape'
<1>1. LogTypeOK'
  BY DEF Shape, DatabaseTypeOK, LogTypeOK, Range, Started
<1>2. DatabaseTypeOK'
  BY <1>1, DatabaseAssumption DEF Shape, DatabaseTypeOK, Locked, Placed, Steps,
     Started
<1>3. (Locked /\ Placed)'
  BY DatabaseAssumption DEF Shape, DatabaseTypeOK, Locked, Placed, Drained, Started
<1>4. (Opened /\ Drained)'
  BY DatabaseAssumption DEF Shape, DatabaseTypeOK, Locked, Placed, Opened, Drained,
     Started
<1> QED
  BY <1>1, <1>2, <1>3, <1>4 DEF Shape

LEMMA KilledShape ==
    ASSUME Shape, Killed
    PROVE  Shape'
<1>0. open' \in BOOLEAN /\ up' \in BOOLEAN
  BY Zenon DEF Shape, DatabaseTypeOK, Killed
<1>1. LogTypeOK'
  <2>1. buffer' \in Seq(1 .. records) /\ draining' = {} /\ records' = records
    BY DEF Shape, DatabaseTypeOK, LogTypeOK, Killed
  <2> QED
    BY <2>1, BufferRange DEF Shape, DatabaseTypeOK, LogTypeOK, Killed
<1>2. DatabaseTypeOK'
  BY <1>0, <1>1, DatabaseAssumption DEF Shape, DatabaseTypeOK, Locked, Placed,
     Steps, Killed
<1>3. (Locked /\ Placed)'
  BY DatabaseAssumption DEF Shape, DatabaseTypeOK, Locked, Placed, Drained, Killed
<1>4. (Opened /\ Drained)'
  BY DatabaseAssumption DEF Shape, DatabaseTypeOK, Locked, Placed, Opened, Drained,
     Killed
<1> QED
  BY <1>1, <1>2, <1>3, <1>4 DEF Shape

LEMMA BackupShape ==
    ASSUME Shape, NEW t \in Threads, Backup(t)
    PROVE  Shape'
<1>1. LogTypeOK'
  BY DEF Shape, DatabaseTypeOK, LogTypeOK, Range, Backup
<1>2. DatabaseTypeOK'
  BY <1>1, DatabaseAssumption DEF Shape, DatabaseTypeOK, Locked, Placed, Steps,
     Backup
<1>3. (Locked /\ Placed)'
  BY DatabaseAssumption DEF Shape, DatabaseTypeOK, Locked, Placed, Drained, Backup
<1>4. (Opened /\ Drained)'
  BY DatabaseAssumption DEF Shape, DatabaseTypeOK, Locked, Placed, Opened, Drained,
     Backup
<1> QED
  BY <1>1, <1>2, <1>3, <1>4 DEF Shape

-----------------------------------------------------------------------------
(* Sequences without repetition *)

Distinct(s) == \A i, j \in 1 .. Len(s) : s[i] = s[j] => i = j

LEMMA RangeOfSeq ==
    ASSUME NEW S, NEW s \in Seq(S)
    PROVE  Range(s) = {s[i] : i \in 1 .. Len(s)}
BY DEF Range

LEMMA AppendFacts ==
    ASSUME NEW S, NEW s \in Seq(S), NEW e \in S, e \notin Range(s), Distinct(s)
    PROVE  /\ Append(s, e) \in Seq(S) /\ Distinct(Append(s, e))
           /\ Range(Append(s, e)) = Range(s) \cup {e}
<1>1. /\ Append(s, e) \in Seq(S) /\ Len(s) \in Nat /\ Len(Append(s, e)) = Len(s) + 1
      /\ \A i \in 1 .. Len(s) : Append(s, e)[i] = s[i]
      /\ Append(s, e)[Len(s) + 1] = e
  OBVIOUS
<1>2. Range(Append(s, e)) = {Append(s, e)[i] : i \in 1 .. Len(s) + 1}
  BY <1>1, RangeOfSeq
<1>3. Range(s) = {s[i] : i \in 1 .. Len(s)}
  BY RangeOfSeq
<1>4. Range(Append(s, e)) = Range(s) \cup {e}
  BY <1>1, <1>2, <1>3
<1>5. Distinct(Append(s, e))
  BY <1>1, <1>3 DEF Distinct
<1> QED
  BY <1>1, <1>4, <1>5

LEMMA TailFacts ==
    ASSUME NEW S, NEW s \in Seq(S), s # << >>, Distinct(s)
    PROVE  /\ Tail(s) \in Seq(S) /\ Distinct(Tail(s)) /\ s[1] \in S
           /\ Range(Tail(s)) = Range(s) \ {s[1]} /\ s[1] \in Range(s)
<1>1. /\ Tail(s) \in Seq(S) /\ Len(s) \in Nat \ {0} /\ Len(Tail(s)) = Len(s) - 1
      /\ \A i \in 1 .. Len(s) - 1 : Tail(s)[i] = s[i + 1]
      /\ s[1] \in S
  OBVIOUS
<1>2. Range(Tail(s)) = {Tail(s)[i] : i \in 1 .. Len(s) - 1}
  BY <1>1, RangeOfSeq
<1>3. Range(s) = {s[i] : i \in 1 .. Len(s)}
  BY RangeOfSeq
<1>4. Distinct(Tail(s))
  BY <1>1 DEF Distinct
<1>5. Range(Tail(s)) \subseteq Range(s) \ {s[1]}
  BY <1>1, <1>2, <1>3 DEF Distinct
<1>6. ASSUME NEW i \in 1 .. Len(s), s[i] # s[1]
      PROVE  s[i] \in Range(Tail(s))
  <2>1. i - 1 \in 1 .. Len(s) - 1 /\ Tail(s)[i - 1] = s[i]
    BY <1>1, <1>6
  <2> QED
    BY <1>2, <2>1
<1>7. s[1] \in Range(s)
  BY <1>1, <1>3
<1> QED
  BY <1>1, <1>3, <1>4, <1>5, <1>6, <1>7

-----------------------------------------------------------------------------
(* Content *)

\* What the open transaction has written.
Seen ==
    /\ open /\ lock # Nobody => seen = disk \cup wrote[lock]
    /\ open /\ script > 0 =>
           seen = disk \cup {ScriptRow(version + 1, n) : n \in 1 .. script - 1}

\* Its rows are new.
Fresh ==
    /\ \A n \in Nat : Row(n) \in disk => n <= made
    /\ \A r \in Nat : Record(r) \in disk => r \in 1 .. records
    /\ lock # Nobody =>
          /\ wrote[lock] \cap disk = {}
          /\ \A n \in Nat : Row(n) \in wrote[lock] => n <= made
          /\ \A v, n \in Nat : ScriptRow(v, n) \notin wrote[lock]
          /\ Flushing(lock) => wrote[lock] \in {{}, {Record(r) : r \in draining}}
          /\ ~Flushing(lock) => \A r \in Nat : Record(r) \notin wrote[lock]

Copied == copy \subseteq disk /\ CopyIsWhole

\* A record is in one place.
Apart ==
    /\ Distinct(buffer)
    /\ draining \cap Range(buffer) = {}
    /\ missing \cap Range(buffer) = {}
    /\ missing \cap draining = {}

Content == WritesAreWhole /\ Seen /\ Fresh /\ NoRecordLost /\ Copied /\ Apart

LEMMA ContentInit == DatabaseInit => Content
BY DatabaseAssumption
   DEF DatabaseInit, Content, WritesAreWhole, Seen, Fresh, NoRecordLost, Copied, CopyIsWhole,
       ScriptRows, Apart, Distinct, Range

\* Steps that leave all this alone.
LEMMA ElsewhereContent ==
    ASSUME Content,
           UNCHANGED <<disk, version, seen, open, lock, wrote, made, log, script>>,
           UNCHANGED <<committed, copy>>
    PROVE  Content'
BY DEF Content, WritesAreWhole, Seen, Fresh, NoRecordLost, Copied, CopyIsWhole, Apart

LEMMA EnterContent ==
    ASSUME Shape, Shape', Content, NEW t \in Threads, Enter(t)
    PROVE  Content'
<1>1. WritesAreWhole'
  BY DatabaseAssumption DEF Shape, DatabaseTypeOK, LogTypeOK, Locked, Placed,
     Opened, Drained, Content, WritesAreWhole, Seen, Enter
<1>2. Seen'
  BY DatabaseAssumption DEF Shape, DatabaseTypeOK, LogTypeOK, Locked, Placed,
     Opened, Drained, Content, WritesAreWhole, Seen, Enter
<1>3. Fresh'
  BY DatabaseAssumption DEF Shape, DatabaseTypeOK, LogTypeOK, Locked, Placed,
     Opened, Drained, Content, Seen, Fresh, Row, Record, ScriptRow, Enter
<1>4. NoRecordLost'
  BY DatabaseAssumption DEF Shape, DatabaseTypeOK, LogTypeOK, Locked, Placed,
     Opened, Drained, Content, NoRecordLost, Fresh, Enter
<1>5. Copied'
  BY DatabaseAssumption DEF Shape, DatabaseTypeOK, LogTypeOK, Locked, Placed,
     Opened, Drained, Content, Copied, CopyIsWhole, WritesAreWhole, Enter
<1>6. Apart'
  BY DatabaseAssumption DEF Shape, DatabaseTypeOK, LogTypeOK, Locked, Placed,
     Opened, Drained, Content, Apart, Enter
<1> QED
  BY <1>1, <1>2, <1>3, <1>4, <1>5, <1>6 DEF Content

LEMMA BeginFailsContent ==
    ASSUME Shape, Shape', Content, NEW t \in Threads, BeginFails(t)
    PROVE  Content'
<1>1. WritesAreWhole'
  BY DatabaseAssumption DEF Shape, DatabaseTypeOK, LogTypeOK, Locked, Placed,
     Opened, Drained, Content, WritesAreWhole, Seen, BeginFails, FlushEnds
<1>2. Seen'
  BY DatabaseAssumption DEF Shape, DatabaseTypeOK, LogTypeOK, Locked, Placed,
     Opened, Drained, Content, WritesAreWhole, Seen, BeginFails, FlushEnds
<1>3. Fresh'
  BY DatabaseAssumption DEF Shape, DatabaseTypeOK, LogTypeOK, Locked, Placed,
     Opened, Drained, Content, Seen, Fresh, Row, Record, ScriptRow, BeginFails,
     FlushEnds
<1>4. NoRecordLost'
  BY DatabaseAssumption DEF Shape, DatabaseTypeOK, LogTypeOK, Locked, Placed,
     Opened, Drained, Content, NoRecordLost, Fresh, BeginFails, FlushEnds
<1>5. Copied'
  BY DatabaseAssumption DEF Shape, DatabaseTypeOK, LogTypeOK, Locked, Placed,
     Opened, Drained, Content, Copied, CopyIsWhole, WritesAreWhole, BeginFails,
     FlushEnds
<1>6. Apart'
  BY DEF Content, Apart, BeginFails, FlushEnds
<1> QED
  BY <1>1, <1>2, <1>3, <1>4, <1>5, <1>6 DEF Content

LEMMA CommitContent ==
    ASSUME Shape, Shape', Content, NEW t \in Threads, Commit(t)
    PROVE  Content'
<1>a. lock = t /\ open /\ blocks[t] = 1
  <2>1. step[t] = "inside" /\ blocks[t] = 1
    BY DEF Commit, LeaveOuter
  <2>2. lock = t
    BY <2>1 DEF Shape, Locked
  <2> QED
    BY <2>1, <2>2 DEF Shape, Opened
<1>b. /\ disk' = disk \cup wrote[t] /\ seen' = disk' /\ version' = version
      /\ committed' = committed \cup {wrote[t]} /\ lock' = Nobody
  BY <1>a, DatabaseAssumption DEF Content, Seen, Commit, LeaveOuter
<1>c. wrote[t] \cap disk = {} /\ \A v \in Nat : wrote[t] \cap ScriptRows(v) = {}
  BY <1>a, DatabaseAssumption DEF Content, Fresh, ScriptRows
<1>1. WritesAreWhole'
  <2>1. disk' = UNION committed'
    BY <1>b DEF Content, WritesAreWhole
  <2>2. ASSUME NEW v \in 1 .. Scripts
        PROVE  IF v <= version' THEN ScriptRows(v) \in committed'
                                ELSE ScriptRows(v) \cap disk' = {}
    <3>1. v \in Nat
      BY DatabaseAssumption
    <3> QED
      BY <1>b, <1>c, <3>1 DEF Content, WritesAreWhole
  <2> QED
    BY <1>b, <2>1, <2>2 DEF WritesAreWhole
<1>2. Seen'
  BY DatabaseAssumption DEF Shape, DatabaseTypeOK, LogTypeOK, Locked, Placed,
     Opened, Drained, Content, WritesAreWhole, Seen, Commit, LeaveOuter,
     LeavesBlock, FlushEnds
<1>3. Fresh'
  BY DatabaseAssumption DEF Shape, DatabaseTypeOK, LogTypeOK, Locked, Placed,
     Opened, Drained, Content, Seen, Fresh, Row, Record, ScriptRow, Commit,
     LeaveOuter, LeavesBlock, FlushEnds
<1>4. NoRecordLost'
  <2>1. CASE Flushing(t)
    <3>1. wrote[t] = {Record(r) : r \in draining}
      BY <1>a, <2>1, DatabaseAssumption DEF Content, Fresh, Commit
    <3>2. /\ records' = records /\ buffer' = buffer /\ draining' = {} /\ missing' = missing
      BY <2>1 DEF Commit, FlushEnds
    <3>3. \A r \in 1 .. records : Record(r) \in wrote[t] <=> r \in draining
      BY <3>1 DEF Record
    <3> QED
      BY <1>b, <3>2, <3>3 DEF Content, NoRecordLost, Apart
  <2>2. CASE ~Flushing(t)
    <3>1. \A r \in Nat : Record(r) \notin wrote[t]
      BY <1>a, <2>2, DatabaseAssumption DEF Content, Fresh
    <3> QED
      BY <1>b, <2>2, <3>1 DEF Content, NoRecordLost, Commit, FlushEnds
  <2> QED
    BY <2>1, <2>2
<1>5. Copied'
  <2>1. copy' = copy /\ copy \subseteq disk
    BY DEF Content, Copied, Commit, LeaveOuter
  <2>2. wrote[t] \cap copy = {}
    BY <1>c, <2>1
  <2> QED
    BY <1>b, <2>1, <2>2 DEF Content, Copied, CopyIsWhole
<1>6. Apart'
  BY DEF Content, Apart, Commit, LeaveOuter, FlushEnds
<1> QED
  BY <1>1, <1>2, <1>3, <1>4, <1>5, <1>6 DEF Content

LEMMA RollbackContent ==
    ASSUME Shape, Shape', Content, NEW t \in Threads, Rollback(t)
    PROVE  Content'
<1>1. WritesAreWhole'
  BY DatabaseAssumption DEF Shape, DatabaseTypeOK, LogTypeOK, Locked, Placed,
     Opened, Drained, Content, WritesAreWhole, Seen, Rollback, LeaveOuter,
     LeavesBlock, FlushEnds
<1>2. Seen'
  BY DatabaseAssumption DEF Shape, DatabaseTypeOK, LogTypeOK, Locked, Placed,
     Opened, Drained, Content, WritesAreWhole, Seen, Rollback, LeaveOuter,
     LeavesBlock, FlushEnds
<1>3. Fresh'
  BY DatabaseAssumption DEF Shape, DatabaseTypeOK, LogTypeOK, Locked, Placed,
     Opened, Drained, Content, Seen, Fresh, Row, Record, ScriptRow, Rollback,
     LeaveOuter, LeavesBlock, FlushEnds
<1>4. NoRecordLost'
  <2>1. disk' = disk /\ records' = records /\ buffer' = buffer
    BY DEF Rollback, LeaveOuter, FlushEnds
  <2>2. draining' \cup missing' = draining \cup missing
    BY DEF Rollback, FlushEnds
  <2> QED
    BY <2>1, <2>2 DEF Content, NoRecordLost
<1>5. Copied'
  BY DatabaseAssumption DEF Shape, DatabaseTypeOK, LogTypeOK, Locked, Placed,
     Opened, Drained, Content, Copied, CopyIsWhole, WritesAreWhole, Rollback,
     LeaveOuter, LeavesBlock, FlushEnds
<1>6. Apart'
  BY DEF Content, Apart, Rollback, LeaveOuter, FlushEnds
<1> QED
  BY <1>1, <1>2, <1>3, <1>4, <1>5, <1>6 DEF Content

\* The rows of a statement are new.
LEMMA NewRows ==
    ASSUME Shape, Content, NEW t \in Threads
    PROVE  /\ Rows(t) \cap disk = {} /\ Rows(t) \cap copy = {}
           /\ \A v, n \in Nat : ScriptRow(v, n) \notin Rows(t)
<1>1. Rows(t) \cap disk = {}
  <2>1. CASE Flushing(t)
    BY <2>1 DEF Rows, Content, NoRecordLost, Shape, DatabaseTypeOK, LogTypeOK
  <2>2. CASE ~Flushing(t)
    <3>1. Row(made + 1) \notin disk
      BY DEF Content, Fresh, Shape, DatabaseTypeOK
    <3> QED
      BY <2>2, <3>1 DEF Rows
  <2> QED
    BY <2>1, <2>2
<1>2. Rows(t) \cap copy = {}
  BY <1>1 DEF Content, Copied
<1>3. \A v, n \in Nat : ScriptRow(v, n) \notin Rows(t)
  BY DEF Rows, ScriptRow, Row, Record
<1> QED
  BY <1>1, <1>2, <1>3

LEMMA ExecuteInBlockContent ==
    ASSUME Shape, Content, NEW t \in Threads, Execute(t), InBlock(t)
    PROVE  Content'
<1>1. lock = t /\ open
  BY DatabaseAssumption DEF Shape, Locked, Opened, Execute
<1>2. /\ disk' = disk /\ version' = version /\ committed' = committed /\ copy' = copy
      /\ open' = open /\ lock' = lock /\ script' = script /\ seen' = seen \cup Rows(t)
      /\ UNCHANGED <<records, buffer, draining, missing>>
  BY <1>1 DEF Execute
<1>3. wrote'[t] = wrote[t] \cup Rows(t)
  BY DEF Execute, Shape, DatabaseTypeOK
<1>4. made' = IF Flushing(t) THEN made ELSE made + 1
  BY DEF Execute
<1>5. WritesAreWhole' /\ NoRecordLost' /\ Copied' /\ Apart'
  BY <1>1, <1>2 DEF Content, WritesAreWhole, NoRecordLost, Copied, CopyIsWhole, Apart
<1>6. Seen'
  <2>1. script = 0
    BY DEF Shape, Placed, DatabaseTypeOK, Execute
  <2> QED
    BY <1>1, <1>2, <1>3, <2>1, DatabaseAssumption DEF Content, Seen
<1>7. Fresh'
  <2>1. /\ wrote[t] \cap disk = {}
        /\ \A n \in Nat : Row(n) \in wrote[t] => n <= made
        /\ \A v, n \in Nat : ScriptRow(v, n) \notin wrote[t]
        /\ Flushing(t) => wrote[t] \in {{}, {Record(r) : r \in draining}}
        /\ ~Flushing(t) => \A r \in Nat : Record(r) \notin wrote[t]
    BY <1>1, DatabaseAssumption DEF Content, Fresh
  <2>2. wrote'[t] \cap disk = {} /\ \A v, n \in Nat : ScriptRow(v, n) \notin wrote'[t]
    BY <1>3, <2>1, NewRows
  <2>3. made \in Nat /\ made' \in Nat /\ made <= made'
    BY <1>4 DEF Shape, DatabaseTypeOK
  <2>4. \A n \in Nat : Row(n) \in wrote'[t] => n <= made'
    <3>1. \A n \in Nat : Row(n) \in Rows(t) => n <= made'
      BY <1>4, <2>3 DEF Rows, Row, Record
    <3> QED
      BY <1>3, <2>1, <2>3, <3>1
  <2>5. CASE Flushing(t)
    BY <1>1, <1>2, <1>3, <2>1, <2>2, <2>3, <2>4, <2>5, DatabaseAssumption
       DEF Content, Fresh, Rows
  <2>6. CASE ~Flushing(t)
    <3>1. \A r \in Nat : Record(r) \notin Rows(t)
      BY <2>6 DEF Rows, Row, Record
    <3> QED
      BY <1>1, <1>2, <1>3, <2>1, <2>2, <2>3, <2>4, <2>6, <3>1, DatabaseAssumption
         DEF Content, Fresh
  <2> QED
    BY <2>5, <2>6
<1> QED
  BY <1>5, <1>6, <1>7 DEF Content

\* On its own.
LEMMA ExecuteAloneContent ==
    ASSUME Shape, Content, NEW t \in Threads, Execute(t), ~InBlock(t)
    PROVE  Content'
<1>1. lock = Nobody /\ ~open /\ ~Flushing(t) /\ script = 0
  BY DatabaseAssumption
     DEF Shape, DatabaseTypeOK, Locked, Placed, Opened, Drained, Execute
<1>2. /\ disk' = disk \cup {Row(made + 1)} /\ seen' = disk' /\ made' = made + 1
      /\ version' = version /\ committed' = committed \cup {{Row(made + 1)}}
      /\ UNCHANGED <<open, lock, script, copy, records, buffer, draining, missing>>
  BY <1>1 DEF Execute, Rows, Content, WritesAreWhole
<1>3. /\ Row(made + 1) \notin disk /\ Row(made + 1) \notin copy
      /\ \A v, n \in Nat : ScriptRow(v, n) # Row(made + 1)
      /\ \A r \in Nat : Record(r) # Row(made + 1)
  BY <1>1, NewRows DEF Rows, Row, Record
<1>4. WritesAreWhole'
  <2>1. disk' = UNION committed'
    BY <1>2 DEF Content, WritesAreWhole
  <2>2. ASSUME NEW v \in 1 .. Scripts
        PROVE  IF v <= version' THEN ScriptRows(v) \in committed'
                                ELSE ScriptRows(v) \cap disk' = {}
    <3>1. Row(made + 1) \notin ScriptRows(v)
      BY <1>3, DatabaseAssumption DEF ScriptRows
    <3> QED
      BY <1>2, <3>1 DEF Content, WritesAreWhole
  <2> QED
    BY <1>2, <2>1, <2>2 DEF WritesAreWhole
<1>5. Seen'
  BY <1>1, <1>2 DEF Seen
<1>6. Fresh'
  <2>1. made \in Nat
    BY DEF Shape, DatabaseTypeOK
  <2>2. \A n \in Nat : Row(n) \in disk' => n <= made'
    BY <1>2, <2>1 DEF Content, Fresh, Row
  <2> QED
    BY <1>1, <1>2, <1>3, <2>2 DEF Content, Fresh
<1>7. NoRecordLost'
  BY <1>2, <1>3 DEF Content, NoRecordLost, Shape, DatabaseTypeOK, LogTypeOK
<1>8. Copied'
  BY <1>2, <1>3 DEF Content, Copied, CopyIsWhole
<1>9. Apart'
  BY <1>2 DEF Content, Apart
<1> QED
  BY <1>4, <1>5, <1>6, <1>7, <1>8, <1>9 DEF Content

LEMMA ExecuteFailsContent ==
    ASSUME Shape, Shape', Content, NEW t \in Threads, ExecuteFails(t)
    PROVE  Content'
<1>1. WritesAreWhole'
  BY DatabaseAssumption DEF Shape, DatabaseTypeOK, LogTypeOK, Locked, Placed,
     Opened, Drained, Content, WritesAreWhole, Seen, ExecuteFails
<1>2. Seen'
  BY DatabaseAssumption DEF Shape, DatabaseTypeOK, LogTypeOK, Locked, Placed,
     Opened, Drained, Content, WritesAreWhole, Seen, ExecuteFails
<1>3. Fresh'
  BY DatabaseAssumption DEF Shape, DatabaseTypeOK, LogTypeOK, Locked, Placed,
     Opened, Drained, Content, Seen, Fresh, Row, Record, ScriptRow, ExecuteFails
<1>4. NoRecordLost'
  BY DatabaseAssumption DEF Shape, DatabaseTypeOK, LogTypeOK, Locked, Placed,
     Opened, Drained, Content, NoRecordLost, Fresh, ExecuteFails
<1>5. Copied'
  BY DatabaseAssumption DEF Shape, DatabaseTypeOK, LogTypeOK, Locked, Placed,
     Opened, Drained, Content, Copied, CopyIsWhole, WritesAreWhole, ExecuteFails
<1>6. Apart'
  BY DatabaseAssumption DEF Shape, DatabaseTypeOK, LogTypeOK, Locked, Placed,
     Opened, Drained, Content, Apart, ExecuteFails
<1> QED
  BY <1>1, <1>2, <1>3, <1>4, <1>5, <1>6 DEF Content

LEMMA EmitContent ==
    ASSUME Shape, Shape', Content, NEW t \in Threads, Emit(t)
    PROVE  Content'
<1>a. /\ records' = records + 1 /\ records \in Nat /\ disk' = disk /\ draining' = draining
      /\ buffer \in Seq(1 .. records) /\ Len(buffer) \in Nat /\ MaxBuffer \in Nat \ {0}
      /\ draining \subseteq 1 .. records /\ missing \subseteq 1 .. records
  BY DatabaseAssumption DEF Shape, DatabaseTypeOK, LogTypeOK, Emit
<1>b. /\ buffer \in Seq(1 .. records') /\ records' \in 1 .. records' /\ Distinct(buffer)
      /\ Range(buffer) \subseteq 1 .. records /\ records' \notin Range(buffer)
  <2>1. Range(buffer) \subseteq 1 .. records
    BY BufferRange DEF Shape, DatabaseTypeOK
  <2>2. \A i \in 1 .. Len(buffer) : buffer[i] \in 1 .. records'
    BY <1>a
  <2> QED
    BY <1>a, <2>1, <2>2 DEF Content, Apart
<1>c. /\ Range(buffer') \cup missing' = Range(buffer) \cup missing \cup {records'}
      /\ Distinct(buffer')
      /\ missing' \cap Range(buffer') = {}
      /\ Range(buffer') \cap draining = {} /\ missing' \cap draining = {}
  <2>1. CASE Len(buffer) < MaxBuffer
    <3>1. buffer' = Append(buffer, records') /\ missing' = missing
      BY <1>a, <2>1 DEF Emit, Buffered
    <3>2. Range(buffer') = Range(buffer) \cup {records'} /\ Distinct(buffer')
      BY <1>b, <3>1, AppendFacts
    <3> QED
      BY <1>a, <1>b, <3>1, <3>2 DEF Content, Apart
  <2>2. CASE ~(Len(buffer) < MaxBuffer)
    <3>1. buffer' = Append(Tail(buffer), records') /\ missing' = missing \cup {buffer[1]}
      BY <1>a, <2>2 DEF Emit, Buffered
    <3>2. buffer # << >>
      BY <1>a, <2>2
    <3>3. /\ Tail(buffer) \in Seq(1 .. records') /\ Distinct(Tail(buffer))
          /\ Range(Tail(buffer)) = Range(buffer) \ {buffer[1]} /\ buffer[1] \in Range(buffer)
      BY <1>b, <3>2, TailFacts
    <3>4. /\ Range(buffer') = (Range(buffer) \ {buffer[1]}) \cup {records'}
          /\ Distinct(buffer')
      <4>1. records' \notin Range(Tail(buffer))
        BY <1>b, <3>3
      <4> DEFINE s == Tail(buffer)
                 e == records'
                 S == 1 .. e
      <4>2. s \in Seq(S) /\ e \in S /\ e \notin Range(s) /\ Distinct(s)
        BY <1>b, <3>3, <4>1
      <4> HIDE DEF s, e, S
      <4>3. Range(Append(s, e)) = Range(s) \cup {e} /\ Distinct(Append(s, e))
        BY <4>2, AppendFacts
      <4> QED
        BY <3>1, <3>3, <4>3 DEF s, e
    <3>5. buffer[1] # records'
      BY <1>b, <3>3
    <3>6. /\ draining \cap Range(buffer) = {} /\ missing \cap Range(buffer) = {}
          /\ missing \cap draining = {} /\ records' \notin draining \cup missing
      BY <1>a DEF Content, Apart
    <3> QED
      BY <3>1, <3>3, <3>4, <3>5, <3>6
  <2> QED
    BY <2>1, <2>2
<1>1. WritesAreWhole'
  BY DatabaseAssumption DEF Shape, DatabaseTypeOK, LogTypeOK, Locked, Placed,
     Opened, Drained, Content, WritesAreWhole, Seen, Emit, Back
<1>2. Seen'
  BY DatabaseAssumption DEF Shape, DatabaseTypeOK, LogTypeOK, Locked, Placed,
     Opened, Drained, Content, WritesAreWhole, Seen, Emit, Back
<1>3. Fresh'
  BY DatabaseAssumption DEF Shape, DatabaseTypeOK, LogTypeOK, Locked, Placed,
     Opened, Drained, Content, Seen, Fresh, Row, Record, ScriptRow, Emit, Back
<1>4. NoRecordLost'
  <2>1. Record(records') \notin disk
    BY <1>a DEF Content, Fresh
  <2> QED
    BY <1>a, <1>c, <2>1 DEF Content, NoRecordLost
<1>5. Copied'
  BY DatabaseAssumption DEF Shape, DatabaseTypeOK, LogTypeOK, Locked, Placed,
     Opened, Drained, Content, Copied, CopyIsWhole, WritesAreWhole, Emit, Back
<1>6. Apart'
  BY <1>a, <1>c DEF Apart
<1> QED
  BY <1>1, <1>2, <1>3, <1>4, <1>5, <1>6 DEF Content

LEMMA FlushContent ==
    ASSUME Shape, Shape', Content, Flush
    PROVE  Content'
<1>1. WritesAreWhole'
  BY DatabaseAssumption DEF Shape, DatabaseTypeOK, LogTypeOK, Locked, Placed,
     Opened, Drained, Content, WritesAreWhole, Seen, Flush
<1>2. Seen'
  BY DatabaseAssumption DEF Shape, DatabaseTypeOK, LogTypeOK, Locked, Placed,
     Opened, Drained, Content, WritesAreWhole, Seen, Flush
<1>3. Fresh'
  BY DatabaseAssumption DEF Shape, DatabaseTypeOK, LogTypeOK, Locked, Placed,
     Opened, Drained, Content, Seen, Fresh, Row, Record, ScriptRow, Flush
<1>4. NoRecordLost'
  <2>1. /\ disk' = disk /\ records' = records /\ missing' = missing
        /\ draining' = Range(buffer) /\ buffer' = << >>
    BY DEF Flush
  <2>2. draining = {}
    BY DatabaseAssumption DEF Flush, Shape, Drained
  <2>3. Range(buffer') = {}
    BY <2>1 DEF Range
  <2> QED
    BY <2>1, <2>2, <2>3 DEF Content, NoRecordLost
<1>5. Copied'
  BY DatabaseAssumption DEF Shape, DatabaseTypeOK, LogTypeOK, Locked, Placed,
     Opened, Drained, Content, Copied, CopyIsWhole, WritesAreWhole, Flush
<1>6. Apart'
  <2>1. /\ missing' = missing /\ draining' = Range(buffer) /\ buffer' = << >>
    BY DEF Flush
  <2> QED
    BY <2>1 DEF Content, Apart, Distinct, Range
<1> QED
  BY <1>1, <1>2, <1>3, <1>4, <1>5, <1>6 DEF Content

LEMMA MigrationBeginsContent ==
    ASSUME Shape, Shape', Content, MigrationBegins
    PROVE  Content'
<1>1. WritesAreWhole'
  BY DatabaseAssumption DEF Shape, DatabaseTypeOK, LogTypeOK, Locked, Placed,
     Opened, Drained, Content, WritesAreWhole, Seen, MigrationBegins
<1>2. Seen'
  BY DatabaseAssumption DEF Shape, DatabaseTypeOK, LogTypeOK, Locked, Placed,
     Opened, Drained, Content, WritesAreWhole, Seen, MigrationBegins
<1>3. Fresh'
  BY DatabaseAssumption DEF Shape, DatabaseTypeOK, LogTypeOK, Locked, Placed,
     Opened, Drained, Content, Seen, Fresh, Row, Record, ScriptRow, MigrationBegins
<1>4. NoRecordLost'
  BY DatabaseAssumption DEF Shape, DatabaseTypeOK, LogTypeOK, Locked, Placed,
     Opened, Drained, Content, NoRecordLost, Fresh, MigrationBegins
<1>5. Copied'
  BY DatabaseAssumption DEF Shape, DatabaseTypeOK, LogTypeOK, Locked, Placed,
     Opened, Drained, Content, Copied, CopyIsWhole, WritesAreWhole, MigrationBegins
<1>6. Apart'
  BY DatabaseAssumption DEF Shape, DatabaseTypeOK, LogTypeOK, Locked, Placed,
     Opened, Drained, Content, Apart, MigrationBegins
<1> QED
  BY <1>1, <1>2, <1>3, <1>4, <1>5, <1>6 DEF Content

LEMMA MigrationGoesOnContent ==
    ASSUME Shape, Shape', Content, MigrationGoesOn
    PROVE  Content'
<1>1. WritesAreWhole'
  BY DatabaseAssumption
     DEF Shape, Opened, Content, WritesAreWhole, MigrationGoesOn
<1>2. Seen'
  <2>1. /\ open /\ lock = Nobody /\ script \in Nat \ {0}
    BY DatabaseAssumption DEF Shape, DatabaseTypeOK, Locked, Placed, Opened, MigrationGoesOn
  <2>2. 1 .. script' - 1 = (1 .. script - 1) \cup {script}
    BY <2>1 DEF MigrationGoesOn
  <2> QED
    BY <2>1, <2>2 DEF Content, Seen, MigrationGoesOn
<1>3. Fresh'
  BY DatabaseAssumption DEF Shape, DatabaseTypeOK, LogTypeOK, Locked, Placed,
     Opened, Drained, Content, Seen, Fresh, Row, Record, ScriptRow, MigrationGoesOn
<1>4. NoRecordLost'
  BY DatabaseAssumption DEF Shape, DatabaseTypeOK, LogTypeOK, Locked, Placed,
     Opened, Drained, Content, NoRecordLost, Fresh, MigrationGoesOn
<1>5. Copied'
  BY DatabaseAssumption DEF Shape, DatabaseTypeOK, LogTypeOK, Locked, Placed,
     Opened, Drained, Content, Copied, CopyIsWhole, WritesAreWhole, MigrationGoesOn
<1>6. Apart'
  BY DatabaseAssumption DEF Shape, DatabaseTypeOK, LogTypeOK, Locked, Placed,
     Opened, Drained, Content, Apart, MigrationGoesOn
<1> QED
  BY <1>1, <1>2, <1>3, <1>4, <1>5, <1>6 DEF Content

LEMMA MigrationEndsContent ==
    ASSUME Shape, Shape', Content, MigrationEnds
    PROVE  Content'
<1>a. /\ seen = disk \cup ScriptRows(version + 1) /\ version + 1 \in 1 .. Scripts
      /\ lock = Nobody
  BY DatabaseAssumption
     DEF Content, Seen, ScriptRows, Shape, DatabaseTypeOK, Locked, Placed, Opened,
         MigrationEnds
<1>b. /\ disk' = disk \cup ScriptRows(version + 1) /\ version' = version + 1
      /\ committed' = committed \cup {ScriptRows(version + 1)} /\ seen' = disk'
  BY <1>a DEF MigrationEnds
<1>c. ScriptRows(version + 1) \cap disk = {}
  BY <1>a DEF Content, WritesAreWhole, Shape, DatabaseTypeOK
<1>1. WritesAreWhole'
  <2>1. disk' = UNION committed'
    BY <1>b DEF Content, WritesAreWhole
  <2>2. ASSUME NEW v \in 1 .. Scripts
        PROVE  IF v <= version' THEN ScriptRows(v) \in committed'
                                ELSE ScriptRows(v) \cap disk' = {}
    <3>1. v # version + 1 => ScriptRows(v) \cap ScriptRows(version + 1) = {}
      BY DEF ScriptRows, ScriptRow
    <3> QED
      BY <1>b, <3>1, DatabaseAssumption DEF Content, WritesAreWhole, Shape, DatabaseTypeOK
  <2> QED
    BY <1>b, <2>1, <2>2 DEF WritesAreWhole
<1>2. Seen'
  BY DatabaseAssumption DEF Shape, DatabaseTypeOK, LogTypeOK, Locked, Placed,
     Opened, Drained, Content, WritesAreWhole, Seen, MigrationEnds
<1>3. Fresh'
  BY DatabaseAssumption DEF Shape, DatabaseTypeOK, LogTypeOK, Locked, Placed,
     Opened, Drained, Content, Seen, Fresh, Row, Record, ScriptRow, MigrationEnds
<1>4. NoRecordLost'
  <2>1. \A r : Record(r) \notin ScriptRows(version + 1)
    BY DEF Record, ScriptRows, ScriptRow
  <2> QED
    BY <1>b, <2>1 DEF Content, NoRecordLost, MigrationEnds
<1>5. Copied'
  <2>1. copy' = copy /\ copy \subseteq disk
    BY DEF Content, Copied, MigrationEnds
  <2> QED
    BY <1>b, <1>c, <2>1 DEF Content, Copied, CopyIsWhole
<1>6. Apart'
  BY DatabaseAssumption DEF Shape, DatabaseTypeOK, LogTypeOK, Locked, Placed,
     Opened, Drained, Content, Apart, MigrationEnds
<1> QED
  BY <1>1, <1>2, <1>3, <1>4, <1>5, <1>6 DEF Content

LEMMA MigrationFailsContent ==
    ASSUME Shape, Shape', Content, MigrationFails
    PROVE  Content'
<1>1. WritesAreWhole'
  BY DatabaseAssumption DEF Shape, DatabaseTypeOK, LogTypeOK, Locked, Placed,
     Opened, Drained, Content, WritesAreWhole, Seen, MigrationFails
<1>2. Seen'
  BY DatabaseAssumption DEF Shape, DatabaseTypeOK, LogTypeOK, Locked, Placed,
     Opened, Drained, Content, WritesAreWhole, Seen, MigrationFails
<1>3. Fresh'
  BY DatabaseAssumption DEF Shape, DatabaseTypeOK, LogTypeOK, Locked, Placed,
     Opened, Drained, Content, Seen, Fresh, Row, Record, ScriptRow, MigrationFails
<1>4. NoRecordLost'
  BY DatabaseAssumption DEF Shape, DatabaseTypeOK, LogTypeOK, Locked, Placed,
     Opened, Drained, Content, NoRecordLost, Fresh, MigrationFails
<1>5. Copied'
  BY DatabaseAssumption DEF Shape, DatabaseTypeOK, LogTypeOK, Locked, Placed,
     Opened, Drained, Content, Copied, CopyIsWhole, WritesAreWhole, MigrationFails
<1>6. Apart'
  BY DatabaseAssumption DEF Shape, DatabaseTypeOK, LogTypeOK, Locked, Placed,
     Opened, Drained, Content, Apart, MigrationFails
<1> QED
  BY <1>1, <1>2, <1>3, <1>4, <1>5, <1>6 DEF Content

LEMMA KilledContent ==
    ASSUME Shape, Shape', Content, Killed
    PROVE  Content'
<1>1. WritesAreWhole'
  BY DatabaseAssumption DEF Shape, DatabaseTypeOK, LogTypeOK, Locked, Placed,
     Opened, Drained, Content, WritesAreWhole, Seen, Killed
<1>2. Seen'
  BY DatabaseAssumption DEF Shape, DatabaseTypeOK, LogTypeOK, Locked, Placed,
     Opened, Drained, Content, WritesAreWhole, Seen, Killed
<1>3. Fresh'
  BY DatabaseAssumption DEF Shape, DatabaseTypeOK, LogTypeOK, Locked, Placed,
     Opened, Drained, Content, Seen, Fresh, Row, Record, ScriptRow, Killed
<1>4. NoRecordLost'
  <2>1. /\ disk' = disk /\ records' = records /\ draining' = {} /\ buffer' = << >>
        /\ missing' = missing \cup Range(buffer) \cup draining
    BY DEF Killed
  <2>2. Range(buffer') = {}
    BY <2>1 DEF Range
  <2> QED
    BY <2>1, <2>2 DEF Content, NoRecordLost
<1>5. Copied'
  BY DatabaseAssumption DEF Shape, DatabaseTypeOK, LogTypeOK, Locked, Placed,
     Opened, Drained, Content, Copied, CopyIsWhole, WritesAreWhole, Killed
<1>6. Apart'
  <2>1. draining' = {} /\ buffer' = << >>
    BY DEF Killed
  <2> QED
    BY <2>1 DEF Apart, Distinct, Range
<1> QED
  BY <1>1, <1>2, <1>3, <1>4, <1>5, <1>6 DEF Content

LEMMA BackupContent ==
    ASSUME Shape, Shape', Content, NEW t \in Threads, Backup(t)
    PROVE  Content'
<1>1. WritesAreWhole'
  BY DatabaseAssumption DEF Shape, DatabaseTypeOK, LogTypeOK, Locked, Placed,
     Opened, Drained, Content, WritesAreWhole, Seen, Backup
<1>2. Seen'
  BY DatabaseAssumption DEF Shape, DatabaseTypeOK, LogTypeOK, Locked, Placed,
     Opened, Drained, Content, WritesAreWhole, Seen, Backup
<1>3. Fresh'
  BY DatabaseAssumption DEF Shape, DatabaseTypeOK, LogTypeOK, Locked, Placed,
     Opened, Drained, Content, Seen, Fresh, Row, Record, ScriptRow, Backup
<1>4. NoRecordLost'
  BY DatabaseAssumption DEF Shape, DatabaseTypeOK, LogTypeOK, Locked, Placed,
     Opened, Drained, Content, NoRecordLost, Fresh, Backup
<1>5. Copied'
  BY DatabaseAssumption DEF Shape, DatabaseTypeOK, LogTypeOK, Locked, Placed,
     Opened, Drained, Content, Copied, CopyIsWhole, WritesAreWhole, Backup
<1>6. Apart'
  BY DatabaseAssumption DEF Shape, DatabaseTypeOK, LogTypeOK, Locked, Placed,
     Opened, Drained, Content, Apart, Backup
<1> QED
  BY <1>1, <1>2, <1>3, <1>4, <1>5, <1>6 DEF Content

-----------------------------------------------------------------------------

LEMMA ShapeStep == Shape /\ [DatabaseNext]_databaseVars => Shape'
<1> SUFFICES ASSUME Shape, [DatabaseNext]_databaseVars PROVE Shape'
  OBVIOUS
<1>1. ASSUME NEW t \in Threads, Begins(t) PROVE Shape'
  <2>1. CASE CallTransaction(t)
    BY <2>1, CallsShape DEF CallTransaction
  <2>2. CASE CallExecute(t)
    BY <2>2, CallsShape DEF CallExecute
  <2>3. CASE CallLogger(t)
    BY <2>3, CallsShape DEF CallLogger
  <2> QED
    BY <1>1, <2>1, <2>2, <2>3, RaiseShape, BackupShape DEF Begins
<1>2. ASSUME NEW t \in Threads, GoesOn(t) PROVE Shape'
  BY <1>2, EnterShape, BeginFailsShape, LeaveNestedShape, CommitShape, RollbackShape,
     ExecuteShape, ExecuteFailsShape, HandleShape, EmitShape, InsertManyShape DEF GoesOn
<1>3. CASE UNCHANGED databaseVars
  BY <1>3 DEF databaseVars, Shape, DatabaseTypeOK, LogTypeOK, Locked, Placed, Opened, Drained
<1> QED
  BY <1>1, <1>2, <1>3, FlushShape, MigrationBeginsShape, MigrationGoesOnShape,
     MigrationEndsShape, MigrationFailsShape, StartedShape, KilledShape DEF DatabaseNext

LEMMA ContentStep == Shape /\ Shape' /\ Content /\ [DatabaseNext]_databaseVars => Content'
<1> SUFFICES ASSUME Shape, Shape', Content, [DatabaseNext]_databaseVars PROVE Content'
  OBVIOUS
<1>1. ASSUME NEW t \in Threads, Begins(t) PROVE Content'
  <2>1. CASE CallTransaction(t) \/ CallExecute(t) \/ CallLogger(t) \/ Raise(t)
    BY <2>1, ElsewhereContent DEF CallTransaction, CallExecute, CallLogger, Calls, Raise
  <2> QED
    BY <1>1, <2>1, BackupContent DEF Begins
<1>2. ASSUME NEW t \in Threads, GoesOn(t) PROVE Content'
  <2>1. CASE LeaveNested(t) \/ Handle(t) \/ InsertMany
    <3>1. CASE LeaveNested(t)
      BY <3>1, ElsewhereContent DEF LeaveNested, LeavesBlock
    <3>2. CASE Handle(t)
      BY <3>2 DEF Handle, Content, WritesAreWhole, Seen, Fresh, NoRecordLost, Copied,
                  CopyIsWhole, Apart
    <3>3. CASE InsertMany
      BY <3>3, ElsewhereContent DEF InsertMany
    <3> QED
      BY <2>1, <3>1, <3>2, <3>3
  <2>2. CASE Execute(t)
    BY <2>2, ExecuteInBlockContent, ExecuteAloneContent
  <2> QED
    BY <1>2, <2>1, <2>2, EnterContent, BeginFailsContent, CommitContent, RollbackContent,
       ExecuteFailsContent, EmitContent DEF GoesOn
<1>3. CASE Started \/ UNCHANGED databaseVars
  BY <1>3, ElsewhereContent DEF Started, databaseVars
<1> QED
  BY <1>1, <1>2, <1>3, FlushContent, MigrationBeginsContent, MigrationGoesOnContent,
     MigrationEndsContent, MigrationFailsContent, KilledContent DEF DatabaseNext

\* Threads, lock, transaction and log are what they are said to be.
THEOREM ShapeAlways == DatabaseSpec => []Shape
BY ShapeInit, ShapeStep, PTL DEF DatabaseSpec

\* The state of the connection, of its threads and of the log is of its types.
THEOREM DatabaseTypeCorrect == DatabaseSpec => []DatabaseTypeOK
<1>1. Shape => DatabaseTypeOK
  BY DEF Shape
<1> QED
  BY <1>1, ShapeAlways, PTL

\* Whatever the threads do and whenever the process dies: the disk has what was
\* committed, whole; no log record is lost unseen; and a backup has no part of a
\* transaction (Database.transaction, execute, migrate, backup_to; DatabaseLogHandler).
THEOREM DatabaseHolds == DatabaseSpec => []DatabaseIsSound
<1>1. Shape /\ Content => DatabaseIsSound
  BY DEF Shape, Content, Copied, DatabaseIsSound
<1> QED
  BY <1>1, ContentInit, ContentStep, ShapeAlways, PTL DEF DatabaseSpec

-----------------------------------------------------------------------------
(* People and notes *)

\* A set of natural numbers that is not empty has a least element.
LEMMA LeastNat ==
    ASSUME NEW S \in SUBSET Nat, S # {}
    PROVE  \E m \in S : \A n \in S : m <= n
<1>1. PICK m \in S : \A n \in S : <<n, m>> \notin OpToRel(<, Nat)
  BY NatLessThanWellFounded, WFMin
<1>2. \A n \in S : ~(n < m)
  BY <1>1 DEF OpToRel
<1> QED BY <1>2

\* Bounded above, it has a greatest one.
LEMMA GreatestNat ==
    ASSUME NEW S \in SUBSET Nat, S # {},
           NEW b \in Nat, \A n \in S : n <= b
    PROVE  \E m \in S : \A n \in S : n <= m
<1> DEFINE B == {k \in Nat : \A n \in S : n <= k}
<1>1. PICK m \in B : \A k \in B : m <= k
  <2>1. b \in B /\ B \in SUBSET Nat
    OBVIOUS
  <2> QED BY <2>1, LeastNat
<1>2. m \in S
  <2> SUFFICES ASSUME m \notin S PROVE FALSE
    OBVIOUS
  <2>1. \A n \in S : n <= m - 1
    BY <1>1
  <2>2. m - 1 \in Nat
    <3>1. PICK n \in S : n \in Nat
      OBVIOUS
    <3>2. n <= m - 1
      BY <2>1, <3>1
    <3> QED BY <1>1, <3>1, <3>2
  <2>3. m - 1 \in B
    BY <2>1, <2>2
  <2> QED BY <1>1, <2>3
<1> QED BY <1>1, <1>2

-----------------------------------------------------------------------------
(* The invariant *)

\* The tables of the database
Database ==
    [people : [Ids -> Person \cup {NoRow}],
     accounts : [Users -> Account \cup {NoRow}],
     members : SUBSET (Chats \X Users),
     notes : [NoteIds -> Note \cup {NoRow}],
     log : [NoteIds -> Seq(Entry)],
     seq : 0 .. MaxNote]

AllHaveAccounts(d) ==
    /\ \A u \in Users : d.accounts[u] # NoRow => d.accounts[u].person \in PersonIds(d)
    /\ \A p \in PersonIds(d) : AccountsOf(d, p) # {}

\* A note's history tells of it, and an ID that was not given has neither.
HistoriesTell(d) ==
    \A n \in NoteIds : /\ Tells(d.log[n], d.notes[n])
                       /\ n > d.seq => d.notes[n] = NoRow /\ d.log[n] = << >>

SubjectsKept(d, m, a) ==
    \A n \in NoteIds : (d.notes[n] # NoRow /\ d.notes[n].about # None) =>
        /\ d.notes[n].about \in PersonIds(d)
        /\ \/ m[n] \cap a # {}
           \/ m[n] \subseteq AccountsOf(d, d.notes[n].about)

Sound(d, m, a) ==
    /\ d \in Database
    /\ AllHaveAccounts(d)
    /\ HistoriesTell(d)
    /\ SubjectsKept(d, m, a)

\* What else is needed: a handler waits with an account, and the page the
\* owner looks at shows two people.
Waiting ==
    /\ loop \in (Chats \X Users) \cup {NoPage}
    /\ thread \in Users \cup {NoAccount}
    /\ page = NoPage \/ (page \in Ids \X Ids /\ page[1] # page[2])
    /\ meant \in [NoteIds -> SUBSET Users] /\ apart \subseteq Users

MemoryInv == Sound(db, meant, apart) /\ Waiting

-----------------------------------------------------------------------------
(* Rows and records *)

\* No row is not a row.
LEMMA NoRowIsNone ==
    /\ NoRow \notin Person /\ NoRow \notin Account
    /\ NoRow \notin Note /\ NoRow \notin Entry
<1>1. DOMAIN NoRow = {}
  BY DEF NoRow
<1>2. \A r \in Person : "name" \in DOMAIN r
  BY DEF Person
<1>3. \A r \in Account : "person" \in DOMAIN r
  BY DEF Account
<1>4. \A r \in Note : "chat" \in DOMAIN r
  BY DEF Note
<1>5. \A r \in Entry : "chat" \in DOMAIN r
  BY DEF Entry
<1> QED BY <1>1, <1>2, <1>3, <1>4, <1>5

LEMMA Bounds == MaxPerson \in Nat \ {0} /\ MaxNote \in Nat \ {0} /\ NoteLimit \in Nat
BY PeopleAssumption

LEMMA DatabaseFields ==
    ASSUME NEW d \in Database
    PROVE  /\ d.people \in [Ids -> Person \cup {NoRow}]
           /\ d.accounts \in [Users -> Account \cup {NoRow}]
           /\ d.members \in SUBSET (Chats \X Users)
           /\ d.notes \in [NoteIds -> Note \cup {NoRow}]
           /\ d.log \in [NoteIds -> Seq(Entry)]
           /\ d.seq \in 0 .. MaxNote
BY DEF Database

\* A row there is has its columns.
LEMMA RowsAre ==
    ASSUME NEW d \in Database
    PROVE  /\ \A p \in PersonIds(d) : p \in Ids /\ d.people[p] \in Person
           /\ \A u \in Users : d.accounts[u] # NoRow => d.accounts[u] \in Account
           /\ \A n \in NoteIds : d.notes[n] # NoRow => d.notes[n] \in Note
           /\ \A n \in NoteIds : d.log[n] \in Seq(Entry)
BY DatabaseFields DEF PersonIds

\* An account has a person if and only if there is a row of it.
LEMMA PersonOfAccount ==
    ASSUME NEW d \in Database, NEW u \in Users
    PROVE  /\ PersonIdFor(d, u) = None <=> d.accounts[u] = NoRow
           /\ d.accounts[u] # NoRow =>
                  PersonIdFor(d, u) = d.accounts[u].person /\ PersonIdFor(d, u) \in Ids
<1>1. d.accounts[u] # NoRow => d.accounts[u].person \in Ids
  BY RowsAre DEF Account
<1>2. None \notin Ids
  BY Bounds DEF None, Ids
<1> QED BY <1>1, <1>2 DEF PersonIdFor

\* The next ID is of nobody, and no ID below it is left out by the bound.
LEMMA NewIdIsNew ==
    ASSUME NEW d \in Database
    PROVE  NewId(d) \notin PersonIds(d)
<1> DEFINE S == PersonIds(d) \cup {0}
<1>1. S \in SUBSET Nat /\ S # {} /\ MaxPerson \in Nat /\ \A n \in S : n <= MaxPerson
  BY Bounds DEF PersonIds, Ids
<1>2. \E m \in S : \A n \in S : n <= m
  BY <1>1, GreatestNat
<1>3. \E m \in S : \A n \in S : m >= n
  BY <1>1, <1>2
<1>4. Max(S) \in S /\ \A n \in S : Max(S) >= n
  BY <1>3 DEF Max
<1>5. Max(S) \in Nat /\ NewId(d) = Max(S) + 1
  BY <1>1, <1>4 DEF NewId
<1> HIDE DEF S
<1>6. NewId(d) \notin S
  BY <1>1, <1>4, <1>5
<1> QED BY <1>6 DEF S

-----------------------------------------------------------------------------
(* People and accounts *)

\* e is d after people were added or renamed and accounts told more of: nobody
\* is gone, and no account but those of moved is of somebody else.
Follows(d, e, moved) ==
    /\ e \in Database
    /\ e.notes = d.notes /\ e.log = d.log /\ e.seq = d.seq
    /\ PersonIds(d) \subseteq PersonIds(e)
    /\ \A u \in Users \ moved : d.accounts[u] # NoRow =>
          e.accounts[u] # NoRow /\ e.accounts[u].person = d.accounts[u].person
    /\ AllHaveAccounts(e)

LEMMA FollowsKeepsSound ==
    ASSUME NEW d, NEW e, NEW m, NEW a, NEW b, NEW moved,
           Sound(d, m, a), Follows(d, e, moved), a \subseteq b, moved \subseteq b,
           m \in [NoteIds -> SUBSET Users]
    PROVE  Sound(e, m, b)
<1>1. e \in Database /\ AllHaveAccounts(e)
  BY DEF Follows
<1>2. HistoriesTell(e)
  BY DEF Sound, Follows, HistoriesTell
<1>3. SubjectsKept(e, m, b)
  <2> SUFFICES ASSUME NEW n \in NoteIds, e.notes[n] # NoRow, e.notes[n].about # None
               PROVE  /\ e.notes[n].about \in PersonIds(e)
                      /\ \/ m[n] \cap b # {}
                         \/ m[n] \subseteq AccountsOf(e, e.notes[n].about)
    BY DEF SubjectsKept
  <2>1. e.notes[n] = d.notes[n]
    BY DEF Follows
  <2>2. /\ d.notes[n].about \in PersonIds(d)
        /\ \/ m[n] \cap a # {}
           \/ m[n] \subseteq AccountsOf(d, d.notes[n].about)
    BY <2>1 DEF Sound, SubjectsKept
  <2>3. CASE m[n] \cap b # {}
    BY <2>1, <2>2, <2>3 DEF Follows
  <2>4. CASE m[n] \cap b = {}
    <3>1. m[n] \subseteq AccountsOf(d, d.notes[n].about) /\ m[n] \subseteq Users \ moved
      BY <2>2, <2>4
    <3>2. m[n] \subseteq AccountsOf(e, d.notes[n].about)
      BY <3>1 DEF AccountsOf, Follows
    <3> QED BY <2>1, <2>2, <3>2 DEF Follows
  <2> QED BY <2>3, <2>4
<1> QED BY <1>1, <1>2, <1>3 DEF Sound

LEMMA FollowsItself ==
    ASSUME NEW d \in Database, AllHaveAccounts(d)
    PROVE  Follows(d, d, {})
BY DEF Follows

LEMMA FollowsOn ==
    ASSUME NEW d, NEW e, NEW f, NEW x, NEW y, Follows(d, e, x), Follows(e, f, y)
    PROVE  Follows(d, f, x \cup y)
BY DEF Follows

\* The usual case: the same people have the same accounts, whatever is told
\* of them.
SamePeople(d, e) ==
    /\ e \in Database
    /\ e.notes = d.notes /\ e.log = d.log /\ e.seq = d.seq
    /\ PersonIds(e) = PersonIds(d)
    /\ \A u \in Users : /\ e.accounts[u] = NoRow <=> d.accounts[u] = NoRow
                        /\ d.accounts[u] # NoRow =>
                               e.accounts[u].person = d.accounts[u].person

LEMMA SamePeopleFollow ==
    ASSUME NEW d, AllHaveAccounts(d), NEW e, SamePeople(d, e)
    PROVE  Follows(d, e, {})
<1>1. \A p : AccountsOf(e, p) = AccountsOf(d, p)
  BY DEF AccountsOf, SamePeople
<1>2. AllHaveAccounts(e)
  BY <1>1 DEF AllHaveAccounts, SamePeople
<1> QED BY <1>2 DEF Follows, SamePeople

LEMMA TouchLiveFollows ==
    ASSUME NEW d \in Database, AllHaveAccounts(d), NEW u \in Users,
           d.accounts[u] # NoRow, NEW n \in Names
    PROVE  Follows(d, TouchLive(d, u, n), {})
<1> DEFINE e == TouchLive(d, u, n)
           a == [d.accounts[u] EXCEPT !.live = IF n = NoName THEN @ ELSE n]
<1>1. d.accounts[u] \in Account
  BY RowsAre
<1>2. a \in Account /\ a.person = d.accounts[u].person
  BY <1>1 DEF Account
<1>3. e = [d EXCEPT !.accounts = [d.accounts EXCEPT ![u] = a]]
  BY DatabaseFields DEF TouchLive, Database
<1> HIDE DEF a
<1>4. /\ e.accounts = [d.accounts EXCEPT ![u] = a] /\ e.people = d.people
      /\ e.notes = d.notes /\ e.log = d.log /\ e.seq = d.seq
      /\ e.members = d.members
  BY <1>3 DEF Database
<1>5. [d.accounts EXCEPT ![u] = a] \in [Users -> Account \cup {NoRow}]
  BY <1>2, DatabaseFields
<1>6. e \in Database
  BY <1>3, <1>5 DEF Database
<1>7. \A v \in Users : /\ e.accounts[v] = NoRow <=> d.accounts[v] = NoRow
                       /\ d.accounts[v] # NoRow =>
                              e.accounts[v].person = d.accounts[v].person
  BY <1>2, <1>4, DatabaseFields, NoRowIsNone
<1>8. PersonIds(e) = PersonIds(d)
  BY <1>4 DEF PersonIds
<1> HIDE DEF e
<1>9. SamePeople(d, e)
  BY <1>4, <1>6, <1>7, <1>8 DEF SamePeople
<1> QED BY <1>9, SamePeopleFollow DEF e

LEMMA TouchImportedFollows ==
    ASSUME NEW d \in Database, AllHaveAccounts(d), NEW u \in Users,
           d.accounts[u] # NoRow, NEW n \in Names
    PROVE  Follows(d, TouchImported(d, u, n), {})
<1> DEFINE e == TouchImported(d, u, n)
           a == [d.accounts[u] EXCEPT !.export = IF n = NoName THEN @ ELSE n]
<1>1. d.accounts[u] \in Account
  BY RowsAre
<1>2. a \in Account /\ a.person = d.accounts[u].person
  BY <1>1 DEF Account
<1>3. e = [d EXCEPT !.accounts = [d.accounts EXCEPT ![u] = a]]
  BY DatabaseFields DEF TouchImported, Database
<1> HIDE DEF a
<1>4. /\ e.accounts = [d.accounts EXCEPT ![u] = a] /\ e.people = d.people
      /\ e.notes = d.notes /\ e.log = d.log /\ e.seq = d.seq
      /\ e.members = d.members
  BY <1>3 DEF Database
<1>5. [d.accounts EXCEPT ![u] = a] \in [Users -> Account \cup {NoRow}]
  BY <1>2, DatabaseFields
<1>6. e \in Database
  BY <1>3, <1>5 DEF Database
<1>7. \A v \in Users : /\ e.accounts[v] = NoRow <=> d.accounts[v] = NoRow
                       /\ d.accounts[v] # NoRow =>
                              e.accounts[v].person = d.accounts[v].person
  BY <1>2, <1>4, DatabaseFields, NoRowIsNone
<1>8. PersonIds(e) = PersonIds(d)
  BY <1>4 DEF PersonIds
<1> HIDE DEF e
<1>9. SamePeople(d, e)
  BY <1>4, <1>6, <1>7, <1>8 DEF SamePeople
<1> QED BY <1>9, SamePeopleFollow DEF e

LEMMA RosterFollows ==
    ASSUME NEW d \in Database, AllHaveAccounts(d), NEW c \in Chats, NEW u \in Users
    PROVE  Follows(d, Roster(d, c, u), {})
<1> DEFINE e == Roster(d, c, u)
<1>1. d.members \cup {<<c, u>>} \in SUBSET (Chats \X Users)
  BY DatabaseFields
<1> DEFINE ms == d.members \cup {<<c, u>>}
<1>2. e = [d EXCEPT !.members = ms]
  BY DEF Roster, Database
<1> HIDE DEF ms
<1>3. /\ e \in Database
      /\ e.accounts = d.accounts /\ e.people = d.people
      /\ e.notes = d.notes /\ e.log = d.log /\ e.seq = d.seq
  BY <1>1, <1>2 DEF Database, ms
<1>4. PersonIds(e) = PersonIds(d)
  BY <1>3 DEF PersonIds
<1> HIDE DEF e
<1>5. SamePeople(d, e)
  BY <1>3, <1>4 DEF SamePeople
<1> QED BY <1>5, SamePeopleFollow DEF e

\* A change of rows of people that there are
LEMMA PeopleChangedFollow ==
    ASSUME NEW d \in Database, AllHaveAccounts(d),
           NEW r \in [Ids -> Person \cup {NoRow}],
           \A p \in Ids : r[p] = NoRow <=> d.people[p] = NoRow
    PROVE  Follows(d, [d EXCEPT !.people = r], {})
<1> DEFINE e == [d EXCEPT !.people = r]
<1>1. /\ e \in Database
      /\ e.accounts = d.accounts /\ e.people = r
      /\ e.notes = d.notes /\ e.log = d.log /\ e.seq = d.seq
  BY DEF Database
<1>2. PersonIds(e) = PersonIds(d)
  BY <1>1 DEF PersonIds
<1> HIDE DEF e
<1>3. SamePeople(d, e)
  BY <1>1, <1>2 DEF SamePeople
<1> QED BY <1>3, SamePeopleFollow DEF e

LEMMA OnePersonChangedFollows ==
    ASSUME NEW d \in Database, AllHaveAccounts(d), NEW p \in Ids,
           d.people[p] # NoRow, NEW r \in Person
    PROVE  Follows(d, [d EXCEPT !.people = [@ EXCEPT ![p] = r]], {})
<1> DEFINE rows == [d.people EXCEPT ![p] = r]
<1>1. rows \in [Ids -> Person \cup {NoRow}]
  BY DatabaseFields
<1>2. \A q \in Ids : rows[q] = NoRow <=> d.people[q] = NoRow
  BY DatabaseFields, NoRowIsNone
<1>3. [d EXCEPT !.people = [@ EXCEPT ![p] = r]] = [d EXCEPT !.people = rows]
  BY DEF Database
<1> HIDE DEF rows
<1> QED BY <1>1, <1>2, <1>3, PeopleChangedFollow

LEMMA SetNameFollows ==
    ASSUME NEW d \in Database, AllHaveAccounts(d), NEW p \in Ids,
           NEW n \in Names \cup {NoName}
    PROVE  Follows(d, SetName(d, p, n), {})
<1>1. CASE d.people[p] = NoRow
  BY <1>1, FollowsItself DEF SetName
<1>2. CASE d.people[p] # NoRow
  <2> DEFINE r == [d.people[p] EXCEPT !.name = n]
  <2>1. d.people[p] \in Person
    BY <1>2, DatabaseFields
  <2>2. r \in Person
    BY <2>1 DEF Person
  <2>3. SetName(d, p, n) = [d EXCEPT !.people = [@ EXCEPT ![p] = r]]
    BY <1>2 DEF SetName
  <2> HIDE DEF r
  <2> QED BY <1>2, <2>2, <2>3, OnePersonChangedFollows
<1> QED BY <1>1, <1>2

LEMMA AliasFollows ==
    ASSUME NEW d \in Database, AllHaveAccounts(d), NEW p \in Ids, NEW a \in Names
    PROVE  Follows(d, AddAlias(d, p, a), {}) /\ Follows(d, RemoveAlias(d, p, a), {})
<1>1. CASE d.people[p] = NoRow
  BY <1>1, FollowsItself DEF AddAlias, RemoveAlias
<1>2. CASE d.people[p] # NoRow
  <2> DEFINE r == [d.people[p] EXCEPT !.aliases = @ \cup {a}]
             s == [d.people[p] EXCEPT !.aliases = @ \ {a}]
  <2>1. d.people[p] \in Person
    BY <1>2, DatabaseFields
  <2>2. r \in Person /\ s \in Person
    BY <2>1 DEF Person
  <2>3. /\ AddAlias(d, p, a) = [d EXCEPT !.people = [@ EXCEPT ![p] = r]]
        /\ RemoveAlias(d, p, a) = [d EXCEPT !.people = [@ EXCEPT ![p] = s]]
    BY <1>2 DEF AddAlias, RemoveAlias
  <2> HIDE DEF r, s
  <2> QED BY <1>2, <2>2, <2>3, OnePersonChangedFollows
<1> QED BY <1>1, <1>2

LEMMA ClearAliasesFollows ==
    ASSUME NEW d \in Database, AllHaveAccounts(d), NEW ps
    PROVE  Follows(d, ClearAliases(d, ps), {})
<1> DEFINE rows == [p \in Ids |->
               IF p \in ps /\ d.people[p] # NoRow
               THEN [name |-> d.people[p].name, aliases |-> {}] ELSE d.people[p]]
<1>1. \A p \in Ids : d.people[p] # NoRow =>
          [name |-> d.people[p].name, aliases |-> {}] \in Person
  BY DatabaseFields DEF Person
<1>2. rows \in [Ids -> Person \cup {NoRow}]
  BY <1>1, DatabaseFields
<1>3. \A p \in Ids : rows[p] = NoRow <=> d.people[p] = NoRow
  BY <1>1, NoRowIsNone
<1>4. ClearAliases(d, ps) = [d EXCEPT !.people = rows]
  BY DEF ClearAliases, Database
<1> HIDE DEF rows
<1> QED BY <1>2, <1>3, <1>4, PeopleChangedFollow

\* A new person comes with its account: both rows, or none.
LEMMA InsertPersonFollows ==
    ASSUME NEW d \in Database, AllHaveAccounts(d), NEW u \in Users,
           d.accounts[u] # NoRow \/ NewId(d) \in Ids
    PROVE  /\ Follows(d, InsertPerson(d, u), {})
           /\ InsertPerson(d, u).accounts[u] # NoRow
<1>1. CASE d.accounts[u] # NoRow
  BY <1>1, FollowsItself DEF InsertPerson
<1>2. CASE d.accounts[u] = NoRow
  <2> DEFINE id == NewId(d)
             a == [person |-> id, live |-> NoName, export |-> NoName]
             e == InsertPerson(d, u)
  <2>1. id \in Ids /\ id \notin PersonIds(d)
    BY <1>2, NewIdIsNew
  <2>2. e = [d EXCEPT !.people = [d.people EXCEPT ![id] = NewPerson],
                      !.accounts = [d.accounts EXCEPT ![u] = a]]
    BY <1>2 DEF InsertPerson
  <2>3. a \in Account /\ NewPerson \in Person /\ a.person = id
    BY <2>1 DEF Account, NewPerson, Person
  <2> HIDE DEF a, id
  <2>4. /\ e.accounts = [d.accounts EXCEPT ![u] = a]
        /\ e.people = [d.people EXCEPT ![id] = NewPerson]
        /\ e.notes = d.notes /\ e.log = d.log /\ e.seq = d.seq
    BY <2>2 DEF Database
  <2>5. /\ [d.accounts EXCEPT ![u] = a] \in [Users -> Account \cup {NoRow}]
        /\ [d.people EXCEPT ![id] = NewPerson] \in [Ids -> Person \cup {NoRow}]
    BY <2>1, <2>3, DatabaseFields
  <2>6. e \in Database
    BY <2>2, <2>5 DEF Database
  <2> HIDE DEF e
  <2>7. PersonIds(e) = PersonIds(d) \cup {id}
    BY <2>1, <2>3, <2>4, DatabaseFields, NoRowIsNone DEF PersonIds
  <2>8. /\ \A v \in Users \ {u} : e.accounts[v] = d.accounts[v]
        /\ e.accounts[u] = a /\ a # NoRow
    BY <2>3, <2>4, DatabaseFields, NoRowIsNone
  <2>9. /\ AccountsOf(e, id) # {}
        /\ \A p \in PersonIds(d) : AccountsOf(d, p) \subseteq AccountsOf(e, p)
    BY <1>2, <2>3, <2>8 DEF AccountsOf
  <2>10. AllHaveAccounts(e)
    BY <2>3, <2>7, <2>8, <2>9 DEF AllHaveAccounts
  <2>11. Follows(d, e, {})
    BY <1>2, <2>4, <2>6, <2>7, <2>8, <2>10 DEF Follows
  <2> QED BY <2>8, <2>11 DEF e
<1> QED BY <1>1, <1>2

-----------------------------------------------------------------------------
(* Splitting, merging and moving *)

LEMMA SplitFollows ==
    ASSUME NEW d \in Database, AllHaveAccounts(d), NEW u \in Users,
           CanSplit(d, u), NewId(d) \in Ids
    PROVE  Follows(d, Split(d, u), {u})
<1> DEFINE id == NewId(d)
           a == [d.accounts[u] EXCEPT !.person = id]
           e == Split(d, u)
<1>1. id \in Ids /\ id \notin PersonIds(d) /\ d.accounts[u] \in Account
      /\ d.accounts[u] # NoRow
  BY NewIdIsNew, RowsAre DEF CanSplit
<1>2. a \in Account /\ NewPerson \in Person /\ a.person = id
  BY <1>1 DEF Account, NewPerson, Person
<1>3. e = [d EXCEPT !.people = [d.people EXCEPT ![id] = NewPerson],
                    !.accounts = [d.accounts EXCEPT ![u] = a]]
  BY DatabaseFields DEF Split, Database
<1> HIDE DEF a, id
<1>4. /\ e.accounts = [d.accounts EXCEPT ![u] = a]
      /\ e.people = [d.people EXCEPT ![id] = NewPerson]
      /\ e.notes = d.notes /\ e.log = d.log /\ e.seq = d.seq
  BY <1>3 DEF Database
<1>5. /\ [d.accounts EXCEPT ![u] = a] \in [Users -> Account \cup {NoRow}]
      /\ [d.people EXCEPT ![id] = NewPerson] \in [Ids -> Person \cup {NoRow}]
  BY <1>1, <1>2, DatabaseFields
<1>6. e \in Database
  BY <1>3, <1>5 DEF Database
<1> HIDE DEF e
<1>7. PersonIds(e) = PersonIds(d) \cup {id}
  BY <1>1, <1>2, <1>4, DatabaseFields, NoRowIsNone DEF PersonIds
<1>8. /\ \A v \in Users \ {u} : e.accounts[v] = d.accounts[v]
      /\ e.accounts[u] = a /\ a # NoRow
  BY <1>2, <1>4, DatabaseFields, NoRowIsNone
<1>9. AccountsOf(e, id) # {}
  BY <1>2, <1>8 DEF AccountsOf
<1>10. ASSUME NEW p \in PersonIds(d) PROVE AccountsOf(e, p) # {}
  <2>1. \E v \in AccountsOf(d, p) : v # u
    <3>1. CASE p = d.accounts[u].person
      <4>1. u \in AccountsOf(d, p) /\ AccountsOf(d, p) # {u}
        BY <1>1, <3>1 DEF CanSplit, AccountsOf
      <4> QED BY <4>1
    <3>2. CASE p # d.accounts[u].person
      <4>1. u \notin AccountsOf(d, p) /\ AccountsOf(d, p) # {}
        BY <3>2 DEF AccountsOf, AllHaveAccounts
      <4> QED BY <4>1
    <3> QED BY <3>1, <3>2
  <2> QED BY <2>1, <1>8 DEF AccountsOf
<1>11. AllHaveAccounts(e)
  BY <1>2, <1>7, <1>8, <1>9, <1>10 DEF AllHaveAccounts
<1>12. Follows(d, e, {u})
  BY <1>4, <1>6, <1>7, <1>8, <1>11 DEF Follows
<1> QED BY <1>12 DEF e

\* Who somebody is after source was merged into target
Now(p, source, target) == IF p = source THEN target ELSE p

NowAbout(r, source, target) == [r EXCEPT !.about = Now(@, source, target)]

LEMMA NowAboutEntry ==
    ASSUME NEW r \in Entry, NEW source \in Ids, NEW target \in Ids
    PROVE  /\ NowAbout(r, source, target) \in Entry
           /\ NowAbout(r, source, target).chat = r.chat
           /\ NowAbout(r, source, target).action = r.action
           /\ NowAbout(r, source, target).content = r.content
           /\ NowAbout(r, source, target).about = Now(r.about, source, target)
<1> DEFINE a == Now(r.about, source, target)
<1>1. a \in Ids \cup {None}
  BY DEF Now, Entry
<1>2. NowAbout(r, source, target) = [r EXCEPT !.about = a]
  BY DEF NowAbout
<1> HIDE DEF a
<1>3. [r EXCEPT !.about = a] \in Entry
  BY <1>1 DEF Entry
<1>4. /\ [r EXCEPT !.about = a].chat = r.chat /\ [r EXCEPT !.about = a].action = r.action
      /\ [r EXCEPT !.about = a].content = r.content /\ [r EXCEPT !.about = a].about = a
  BY DEF Entry
<1> QED BY <1>2, <1>3, <1>4 DEF a

NowNote(note, source, target) ==
    IF note = NoRow THEN NoRow ELSE NowAbout(note, source, target)

NowEntries(es, source, target) == [i \in DOMAIN es |-> NowNote(es[i], source, target)]

\* The history is told of the new subject as it was of the old one.
LEMMA TellsOfMerged ==
    ASSUME NEW es \in Seq(Entry), NEW note \in Note \cup {NoRow}, Tells(es, note),
           NEW source \in Ids, NEW target \in Ids
    PROVE  /\ NowEntries(es, source, target) \in Seq(Entry)
           /\ NowEntries(es, source, target) = << >> <=> es = << >>
           /\ NowNote(note, source, target) \in Note \cup {NoRow}
           /\ NowNote(note, source, target) = NoRow <=> note = NoRow
           /\ note # NoRow =>
                  NowNote(note, source, target).about = Now(note.about, source, target)
           /\ Tells(NowEntries(es, source, target), NowNote(note, source, target))
<1> DEFINE fs == NowEntries(es, source, target)
           became == NowNote(note, source, target)
<1>1. \A i \in DOMAIN es :
          /\ NowAbout(es[i], source, target) \in Entry
          /\ NowAbout(es[i], source, target).chat = es[i].chat
          /\ NowAbout(es[i], source, target).action = es[i].action
          /\ NowAbout(es[i], source, target).content = es[i].content
          /\ NowAbout(es[i], source, target).about = Now(es[i].about, source, target)
          /\ NowNote(es[i], source, target) = NowAbout(es[i], source, target)
  <2> SUFFICES ASSUME NEW i \in DOMAIN es
               PROVE  /\ NowAbout(es[i], source, target) \in Entry
                      /\ NowAbout(es[i], source, target).chat = es[i].chat
                      /\ NowAbout(es[i], source, target).action = es[i].action
                      /\ NowAbout(es[i], source, target).content = es[i].content
                      /\ NowAbout(es[i], source, target).about
                            = Now(es[i].about, source, target)
                      /\ NowNote(es[i], source, target) = NowAbout(es[i], source, target)
    OBVIOUS
  <2>1. es[i] \in Entry /\ es[i] # NoRow
    BY NoRowIsNone
  <2> QED BY <2>1, NowAboutEntry DEF NowNote
<1>2. fs \in Seq(Entry) /\ Len(fs) = Len(es) /\ DOMAIN fs = DOMAIN es
  BY <1>1 DEF NowEntries
<1>3. \A i \in DOMAIN es :
          /\ fs[i].chat = es[i].chat /\ fs[i].action = es[i].action
          /\ fs[i].content = es[i].content
          /\ fs[i].about = Now(es[i].about, source, target)
  BY <1>1 DEF NowEntries
<1>4. note # NoRow => /\ became \in Note /\ became # NoRow
                      /\ became.chat = note.chat /\ became.content = note.content
                      /\ became.locked = note.locked
                      /\ became.about = Now(note.about, source, target)
  <2> SUFFICES ASSUME note # NoRow
               PROVE  /\ NowAbout(note, source, target) \in Note
                      /\ NowAbout(note, source, target).chat = note.chat
                      /\ NowAbout(note, source, target).content = note.content
                      /\ NowAbout(note, source, target).locked = note.locked
                      /\ NowAbout(note, source, target).about = Now(note.about, source, target)
    BY NoRowIsNone DEF NowNote
  <2>1. note \in Note
    OBVIOUS
  <2> QED BY <2>1 DEF NowAbout, Now, Note
<1>5. became = NoRow <=> note = NoRow
  BY <1>4 DEF NowNote
<1> HIDE DEF fs, became
<1>6. es # << >> <=> fs # << >>
  BY <1>2
<1>7. es # << >> => Len(es) \in DOMAIN es
  OBVIOUS
<1>8. EndsLocked(fs) <=> EndsLocked(es)
  BY <1>2, <1>3 DEF EndsLocked
<1>9. \A i, j \in DOMAIN fs : fs[i].chat = fs[j].chat
  BY <1>2, <1>3 DEF Tells
<1>10. CASE note = NoRow
  <2>1. fs # << >> => fs[Len(fs)].action = "deleted"
    BY <1>10, <1>2, <1>3, <1>6, <1>7 DEF Tells
  <2>2. Tells(fs, became)
    BY <2>1, <1>10, <1>5, <1>9 DEF Tells
  <2> QED BY <2>2, <1>2, <1>5, <1>6, <1>10 DEF fs, became
<1>11. CASE note # NoRow
  <2>1. /\ es # << >>
        /\ <<es[Len(es)].chat, es[Len(es)].content, es[Len(es)].about>> =
               <<note.chat, note.content, note.about>>
        /\ note.locked <=> EndsLocked(es)
    BY <1>11 DEF Tells
  <2>2. /\ es[Len(es)].chat = note.chat /\ es[Len(es)].content = note.content
        /\ es[Len(es)].about = note.about
    BY <2>1
  <2>3. /\ fs # << >>
        /\ fs[Len(fs)].chat = became.chat /\ fs[Len(fs)].content = became.content
        /\ fs[Len(fs)].about = became.about
    BY <2>1, <2>2, <1>2, <1>3, <1>4, <1>6, <1>7, <1>11
  <2>4. became.locked <=> EndsLocked(fs)
    BY <2>1, <1>4, <1>8, <1>11, Zenon
  <2>5. Tells(fs, became)
    BY <2>3, <2>4, <1>5, <1>9, <1>11 DEF Tells
  <2> QED BY <2>5, <1>2, <1>4, <1>5, <1>6, <1>11 DEF fs, became
<1> QED BY <1>10, <1>11

\* Everything of the source is the target's, and the source is gone.
LEMMA MergeParts ==
    ASSUME NEW d \in Database, NEW source \in PersonIds(d),
           NEW target \in PersonIds(d), source # target
    PROVE  /\ \A u \in Users :
                  Merge(d, source, target).accounts[u] =
                      IF d.accounts[u] = NoRow THEN NoRow
                      ELSE [d.accounts[u] EXCEPT !.person = Now(@, source, target)]
           /\ \A n \in NoteIds :
                  Merge(d, source, target).notes[n] = NowNote(d.notes[n], source, target)
           /\ \A n \in NoteIds :
                  Merge(d, source, target).log[n] = NowEntries(d.log[n], source, target)
           /\ Merge(d, source, target).seq = d.seq
           /\ Merge(d, source, target).members = d.members
           /\ Merge(d, source, target).people \in [Ids -> Person \cup {NoRow}]
           /\ Merge(d, source, target).accounts =
                  [u \in Users |-> Merge(d, source, target).accounts[u]]
           /\ Merge(d, source, target).notes =
                  [n \in NoteIds |-> Merge(d, source, target).notes[n]]
           /\ Merge(d, source, target).log =
                  [n \in NoteIds |-> Merge(d, source, target).log[n]]
           /\ Merge(d, source, target) =
                  [people |-> Merge(d, source, target).people,
                   accounts |-> Merge(d, source, target).accounts,
                   members |-> Merge(d, source, target).members,
                   notes |-> Merge(d, source, target).notes,
                   log |-> Merge(d, source, target).log,
                   seq |-> Merge(d, source, target).seq]
           /\ PersonIds(Merge(d, source, target)) = PersonIds(d) \ {source}
<1> DEFINE e == Merge(d, source, target)
           from == d.people[source]
           to == d.people[target]
           line == [name |-> IF to.name = NoName THEN from.name ELSE to.name,
                   aliases |-> to.aliases \cup from.aliases]
           accounts == [u \in Users |->
                           IF d.accounts[u] = NoRow THEN NoRow
                           ELSE [d.accounts[u] EXCEPT !.person = Now(@, source, target)]]
           notes == [n \in NoteIds |-> NowNote(d.notes[n], source, target)]
           entries == [n \in NoteIds |-> NowEntries(d.log[n], source, target)]
           people == [d.people EXCEPT ![source] = NoRow, ![target] = line]
<1>1. e = [d EXCEPT !.accounts = accounts, !.people = people,
                    !.notes = notes, !.log = entries]
  BY Zenon DEF Merge, Now, NowAbout, NowNote, NowEntries
<1>2. /\ from \in Person /\ to \in Person /\ source \in Ids /\ target \in Ids
  BY RowsAre
<1>3. line \in Person
  BY <1>2 DEF Person
<1> HIDE DEF line
<1>4. people \in [Ids -> Person \cup {NoRow}]
  BY <1>2, <1>3, DatabaseFields
<1>5. /\ \A p \in Ids \ {source, target} : people[p] = d.people[p]
      /\ people[source] = NoRow /\ people[target] = line
  BY <1>2, DatabaseFields
<1> HIDE DEF people, accounts, notes, entries
<1>6. /\ e.accounts = accounts /\ e.people = people /\ e.notes = notes
      /\ e.log = entries /\ e.seq = d.seq /\ e.members = d.members
      /\ e = [people |-> people, accounts |-> accounts, members |-> d.members,
              notes |-> notes, log |-> entries, seq |-> d.seq]
  BY <1>1 DEF Database
<1> HIDE DEF e
<1>7. PersonIds(e) = PersonIds(d) \ {source}
  BY <1>2, <1>3, <1>5, <1>6, NoRowIsNone DEF PersonIds
<1>8. /\ \A u \in Users : e.accounts[u] =
             IF d.accounts[u] = NoRow THEN NoRow
             ELSE [d.accounts[u] EXCEPT !.person = Now(@, source, target)]
      /\ \A n \in NoteIds : e.notes[n] = NowNote(d.notes[n], source, target)
      /\ \A n \in NoteIds : e.log[n] = NowEntries(d.log[n], source, target)
      /\ e.accounts = [u \in Users |-> e.accounts[u]]
      /\ e.notes = [n \in NoteIds |-> e.notes[n]]
      /\ e.log = [n \in NoteIds |-> e.log[n]]
  BY <1>6 DEF accounts, notes, entries
<1>9. e = [people |-> e.people, accounts |-> e.accounts, members |-> e.members,
           notes |-> e.notes, log |-> e.log, seq |-> e.seq]
  BY <1>6
<1> QED BY <1>4, <1>6, <1>7, <1>8, <1>9 DEF e

\* Nobody is left without an account and no note without its subject.
LEMMA MergeIsSound ==
    ASSUME NEW d, NEW m \in [NoteIds -> SUBSET Users], NEW a, Sound(d, m, a),
           NEW source \in PersonIds(d), NEW target \in PersonIds(d), source # target
    PROVE  /\ Sound(Merge(d, source, target), m, a)
           /\ PersonIds(Merge(d, source, target)) = PersonIds(d) \ {source}
           /\ \A u \in Users : d.accounts[u] # NoRow =>
                  /\ Merge(d, source, target).accounts[u] # NoRow
                  /\ Merge(d, source, target).accounts[u].person =
                         Now(d.accounts[u].person, source, target)
<1> DEFINE e == Merge(d, source, target)
<1>1. d \in Database /\ AllHaveAccounts(d) /\ HistoriesTell(d) /\ SubjectsKept(d, m, a)
  BY DEF Sound
<1>2. source \in Ids /\ target \in Ids
  BY DEF PersonIds
<1>3. /\ \A u \in Users : e.accounts[u] =
             IF d.accounts[u] = NoRow THEN NoRow
             ELSE [d.accounts[u] EXCEPT !.person = Now(@, source, target)]
      /\ \A n \in NoteIds : e.notes[n] = NowNote(d.notes[n], source, target)
      /\ \A n \in NoteIds : e.log[n] = NowEntries(d.log[n], source, target)
      /\ e.seq = d.seq /\ e.members = d.members
      /\ e.people \in [Ids -> Person \cup {NoRow}]
      /\ e.accounts = [u \in Users |-> e.accounts[u]]
      /\ e.notes = [n \in NoteIds |-> e.notes[n]]
      /\ e.log = [n \in NoteIds |-> e.log[n]]
      /\ e = [people |-> e.people, accounts |-> e.accounts, members |-> e.members,
              notes |-> e.notes, log |-> e.log, seq |-> e.seq]
      /\ PersonIds(e) = PersonIds(d) \ {source}
  BY <1>1, MergeParts
<1> HIDE DEF e
<1>4. ASSUME NEW u \in Users
      PROVE  /\ e.accounts[u] \in Account \cup {NoRow}
             /\ e.accounts[u] = NoRow <=> d.accounts[u] = NoRow
             /\ d.accounts[u] # NoRow =>
                    e.accounts[u].person = Now(d.accounts[u].person, source, target)
  <2>1. CASE d.accounts[u] = NoRow
    BY <2>1, <1>3
  <2>2. CASE d.accounts[u] # NoRow
    <3> DEFINE p == Now(d.accounts[u].person, source, target)
    <3>1. d.accounts[u] \in Account
      BY <1>1, <2>2, RowsAre
    <3>2. p \in Ids
      BY <1>2, <3>1 DEF Now, Account
    <3>3. e.accounts[u] = [d.accounts[u] EXCEPT !.person = p]
      BY <1>3, <2>2
    <3> HIDE DEF p
    <3>4. e.accounts[u] \in Account /\ e.accounts[u].person = p
      BY <3>1, <3>2, <3>3 DEF Account
    <3> QED BY <3>4, <2>2, NoRowIsNone DEF p
  <2> QED BY <2>1, <2>2
<1>5. ASSUME NEW n \in NoteIds
      PROVE  /\ e.log[n] \in Seq(Entry)
             /\ e.notes[n] \in Note \cup {NoRow}
             /\ e.notes[n] = NoRow <=> d.notes[n] = NoRow
             /\ d.notes[n] # NoRow => e.notes[n].about = Now(d.notes[n].about, source, target)
             /\ Tells(e.log[n], e.notes[n])
             /\ e.log[n] = << >> <=> d.log[n] = << >>
  <2>1. Tells(d.log[n], d.notes[n])
    BY <1>1 DEF HistoriesTell
  <2>2. d.log[n] \in Seq(Entry) /\ d.notes[n] \in Note \cup {NoRow}
    BY <1>1, DatabaseFields
  <2>3. /\ NowEntries(d.log[n], source, target) \in Seq(Entry)
        /\ NowEntries(d.log[n], source, target) = << >> <=> d.log[n] = << >>
        /\ NowNote(d.notes[n], source, target) \in Note \cup {NoRow}
        /\ NowNote(d.notes[n], source, target) = NoRow <=> d.notes[n] = NoRow
        /\ d.notes[n] # NoRow => NowNote(d.notes[n], source, target).about
                                     = Now(d.notes[n].about, source, target)
        /\ Tells(NowEntries(d.log[n], source, target), NowNote(d.notes[n], source, target))
    BY <1>2, <2>1, <2>2, TellsOfMerged
  <2>4. /\ e.notes[n] = NowNote(d.notes[n], source, target)
        /\ e.log[n] = NowEntries(d.log[n], source, target)
    BY <1>3
  <2> QED BY <2>3, <2>4
<1>6. e \in Database
  <2>1. e.accounts \in [Users -> Account \cup {NoRow}]
    BY <1>3, <1>4
  <2>2. e.notes \in [NoteIds -> Note \cup {NoRow}]
    BY <1>3, <1>5
  <2>3. e.log \in [NoteIds -> Seq(Entry)]
    BY <1>3, <1>5
  <2>4. e.members \in SUBSET (Chats \X Users) /\ e.seq \in 0 .. MaxNote
    BY <1>1, <1>3, DatabaseFields
  <2> QED BY <1>3, <2>1, <2>2, <2>3, <2>4 DEF Database
<1>7. \A p : AccountsOf(d, p) \subseteq AccountsOf(e, Now(p, source, target))
  BY <1>4 DEF AccountsOf
<1>8. \A p \in PersonIds(d) : Now(p, source, target) \in PersonIds(e)
  BY <1>3 DEF Now
<1>9. AllHaveAccounts(e)
  <2>1. \A u \in Users : e.accounts[u] # NoRow => e.accounts[u].person \in PersonIds(e)
    BY <1>1, <1>4, <1>8 DEF AllHaveAccounts
  <2>2. ASSUME NEW p \in PersonIds(e) PROVE AccountsOf(e, p) # {}
    <3>1. p \in PersonIds(d) /\ Now(p, source, target) = p
      BY <1>3 DEF Now
    <3> QED BY <1>1, <1>7, <3>1 DEF AllHaveAccounts
  <2> QED BY <2>1, <2>2 DEF AllHaveAccounts
<1>10. HistoriesTell(e)
  <2> SUFFICES ASSUME NEW n \in NoteIds
               PROVE  /\ Tells(e.log[n], e.notes[n])
                      /\ n > e.seq => e.notes[n] = NoRow /\ e.log[n] = << >>
    BY DEF HistoriesTell
  <2>1. n > e.seq => d.notes[n] = NoRow /\ d.log[n] = << >>
    BY <1>1, <1>3 DEF HistoriesTell
  <2> QED BY <1>5, <2>1
<1>11. SubjectsKept(e, m, a)
  <2> SUFFICES ASSUME NEW n \in NoteIds, e.notes[n] # NoRow, e.notes[n].about # None
               PROVE  /\ e.notes[n].about \in PersonIds(e)
                      /\ \/ m[n] \cap a # {}
                         \/ m[n] \subseteq AccountsOf(e, e.notes[n].about)
    BY DEF SubjectsKept
  <2>1. d.notes[n] # NoRow /\ e.notes[n].about = Now(d.notes[n].about, source, target)
    BY <1>5
  <2>2. d.notes[n].about # None
    BY <2>1, <1>2, Bounds DEF Now, None, Ids
  <2>3. /\ d.notes[n].about \in PersonIds(d)
        /\ \/ m[n] \cap a # {}
           \/ m[n] \subseteq AccountsOf(d, d.notes[n].about)
    BY <1>1, <2>1, <2>2 DEF SubjectsKept
  <2> QED BY <1>7, <1>8, <2>1, <2>3
<1>12. Sound(e, m, a)
  BY <1>6, <1>9, <1>10, <1>11 DEF Sound
<1> QED BY <1>3, <1>4, <1>12 DEF e

\* The owner makes an account somebody else's, whose old notes stay behind.
LEMMA MoveAccountIsSound ==
    ASSUME NEW d, NEW m \in [NoteIds -> SUBSET Users], NEW a, Sound(d, m, a),
           NEW u \in Users, d.accounts[u] # NoRow,
           NEW target \in PersonIds(d) \ {PersonIdFor(d, u)}
    PROVE  /\ Sound(MoveAccount(d, u, target), m, a \cup {u})
           /\ MoveAccount(d, u, target).accounts[u] # NoRow
<1> DEFINE old == d.accounts[u].person
           e == MoveAccount(d, u, target)
<1>1. d \in Database /\ AllHaveAccounts(d)
  BY DEF Sound
<1>2. old \in PersonIds(d) /\ old # target /\ old = PersonIdFor(d, u)
      /\ target \in PersonIds(d) /\ target \in Ids
  BY <1>1 DEF AllHaveAccounts, PersonIdFor, PersonIds
<1>3. CASE AccountsOf(d, old) = {u}
  <2>1. e = Merge(d, old, target)
    BY <1>3 DEF MoveAccount
  <2> HIDE DEF e, old
  <2>2. Sound(e, m, a) /\ e.accounts[u] # NoRow
    BY <1>2, <2>1, MergeIsSound
  <2>3. SubjectsKept(e, m, a \cup {u})
    BY <2>2 DEF Sound, SubjectsKept
  <2>4. Sound(e, m, a \cup {u})
    BY <2>2, <2>3 DEF Sound
  <2> QED BY <2>2, <2>4 DEF e
<1>4. CASE AccountsOf(d, old) # {u}
  <2> DEFINE r == [d.accounts[u] EXCEPT !.person = target]
  <2>1. e = [d EXCEPT !.accounts = [d.accounts EXCEPT ![u] = r]]
    BY <1>1, <1>4 DEF MoveAccount, Database
  <2>2. d.accounts[u] \in Account
    BY <1>1, RowsAre
  <2>3. r \in Account /\ r.person = target
    BY <1>2, <2>2 DEF Account
  <2> HIDE DEF r
  <2>4. /\ e.accounts = [d.accounts EXCEPT ![u] = r] /\ e.people = d.people
        /\ e.notes = d.notes /\ e.log = d.log /\ e.seq = d.seq
    BY <1>1, <2>1 DEF Database
  <2>5. [d.accounts EXCEPT ![u] = r] \in [Users -> Account \cup {NoRow}]
    BY <1>1, <2>3, DatabaseFields
  <2>6. e \in Database
    BY <1>1, <2>1, <2>5 DEF Database
  <2> HIDE DEF e
  <2>7. PersonIds(e) = PersonIds(d)
    BY <2>4 DEF PersonIds
  <2>8. /\ \A v \in Users \ {u} : e.accounts[v] = d.accounts[v]
        /\ e.accounts[u] = r /\ r # NoRow
    BY <1>1, <2>3, <2>4, DatabaseFields, NoRowIsNone
  <2>9. ASSUME NEW p \in PersonIds(d) PROVE AccountsOf(e, p) # {}
    <3>1. CASE p = target
      <4>1. u \in AccountsOf(e, p)
        BY <2>3, <2>8, <3>1 DEF AccountsOf
      <4> QED BY <4>1
    <3>2. CASE p # target
      <4>1. \E v \in AccountsOf(d, p) : v # u
        <5>1. p = old => u \in AccountsOf(d, p)
          BY DEF AccountsOf
        <5>2. p # old => u \notin AccountsOf(d, p)
          BY DEF AccountsOf
        <5>3. AccountsOf(d, p) # {}
          BY <1>1 DEF AllHaveAccounts
        <5> QED BY <1>4, <5>1, <5>2, <5>3
      <4> QED BY <2>8, <4>1 DEF AccountsOf
    <3> QED BY <3>1, <3>2
  <2>10. AllHaveAccounts(e)
    BY <1>1, <1>2, <2>3, <2>7, <2>8, <2>9 DEF AllHaveAccounts
  <2>11. Follows(d, e, {u})
    BY <2>4, <2>6, <2>7, <2>8, <2>10 DEF Follows
  <2>12. Sound(e, m, a \cup {u})
    BY <2>11, FollowsKeepsSound
  <2> QED BY <2>8, <2>12 DEF e
<1> QED BY <1>3, <1>4

-----------------------------------------------------------------------------
(* Notes and their histories *)

\* An entry more: only a lock or an unlock tells something new of the lock.
LEMMA OneMoreEntry ==
    ASSUME NEW es \in Seq(Entry), NEW r \in Entry,
           \A i, j \in DOMAIN es : es[i].chat = es[j].chat,
           es # << >> => es[Len(es)].chat = r.chat
    PROVE  /\ Append(es, r) \in Seq(Entry) /\ Append(es, r) # << >>
           /\ Append(es, r)[Len(Append(es, r))] = r
           /\ \A i, j \in DOMAIN Append(es, r) :
                  Append(es, r)[i].chat = Append(es, r)[j].chat
           /\ r.action = "locked" => EndsLocked(Append(es, r))
           /\ r.action = "unlocked" => ~EndsLocked(Append(es, r))
           /\ r.action \notin {"locked", "unlocked"} =>
                  (EndsLocked(Append(es, r)) <=> EndsLocked(es))
<1> DEFINE fs == Append(es, r)
           k == Len(es)
<1>1. /\ fs \in Seq(Entry) /\ Len(fs) = k + 1 /\ k \in Nat
      /\ DOMAIN es = 1 .. k /\ DOMAIN fs = 1 .. (k + 1)
      /\ fs[k + 1] = r /\ \A i \in 1 .. k : fs[i] = es[i]
  OBVIOUS
<1>2. es # << >> => k \in 1 .. k
  BY <1>1
<1> HIDE DEF fs, k
<1>3. k + 1 \in 1 .. (k + 1) /\ \A i \in 1 .. k : k + 1 > i
  BY <1>1
<1>4. fs # << >>
  BY <1>1, <1>3
<1>5. \A i \in 1 .. k : es[i].chat = r.chat
  <2> SUFFICES ASSUME NEW i \in 1 .. k PROVE es[i].chat = r.chat
    OBVIOUS
  <2>1. es # << >> /\ k \in DOMAIN es
    BY <1>1
  <2>2. es[k].chat = r.chat
    BY <2>1 DEF k
  <2> QED BY <1>1, <2>1, <2>2
<1>6. \A i, j \in DOMAIN fs : fs[i].chat = fs[j].chat
  <2>1. \A i \in DOMAIN fs : fs[i].chat = r.chat
    <3> SUFFICES ASSUME NEW i \in 1 .. (k + 1) PROVE fs[i].chat = r.chat
      BY <1>1
    <3>1. i = k + 1 \/ i \in 1 .. k
      BY <1>1
    <3> QED BY <1>1, <1>5, <3>1
  <2> QED BY <2>1
<1>7. r.action = "locked" => EndsLocked(fs)
  <2>1. \A j \in 1 .. (k + 1) : ~(j > k + 1)
    BY <1>1
  <2> QED BY <1>1, <1>3, <2>1 DEF EndsLocked
<1>8. ASSUME r.action = "unlocked" PROVE ~EndsLocked(fs)
  <2> SUFFICES ASSUME NEW i \in DOMAIN fs, fs[i].action = "locked",
                      \A j \in DOMAIN fs : j > i => fs[j].action # "unlocked"
               PROVE  FALSE
    BY DEF EndsLocked
  <2>1. i = k + 1 \/ k + 1 > i
    BY <1>1
  <2> QED BY <1>1, <1>3, <1>8, <2>1
<1>9. ASSUME r.action \notin {"locked", "unlocked"}
      PROVE  EndsLocked(fs) <=> EndsLocked(es)
  <2>1. ASSUME NEW i \in DOMAIN fs, fs[i].action = "locked",
               \A j \in DOMAIN fs : j > i => fs[j].action # "unlocked"
        PROVE  EndsLocked(es)
    <3>1. i \in 1 .. k
      BY <1>1, <1>9, <2>1
    <3>2. es[i].action = "locked" /\ \A j \in 1 .. k : j > i => es[j].action # "unlocked"
      BY <1>1, <2>1, <3>1
    <3> QED BY <1>1, <3>1, <3>2 DEF EndsLocked
  <2>2. ASSUME NEW i \in DOMAIN es, es[i].action = "locked",
               \A j \in DOMAIN es : j > i => es[j].action # "unlocked"
        PROVE  EndsLocked(fs)
    <3>1. i \in 1 .. (k + 1) /\ fs[i].action = "locked"
      BY <1>1, <2>2
    <3>2. ASSUME NEW j \in 1 .. (k + 1), j > i PROVE fs[j].action # "unlocked"
      <4>1. j = k + 1 \/ j \in 1 .. k
        BY <1>1
      <4> QED BY <1>1, <1>9, <2>2, <3>2, <4>1
    <3> QED BY <1>1, <3>1, <3>2 DEF EndsLocked
  <2> QED BY <2>1, <2>2 DEF EndsLocked
<1>10. Len(fs) = k + 1 /\ fs[k + 1] = r
  BY <1>1
<1> QED BY <1>1, <1>4, <1>6, <1>7, <1>8, <1>9, <1>10 DEF fs

\* Who was meant is who the row is about, or was moved by the owner.
Meant(d, line, who, a) ==
    (line # NoRow /\ line.about # None) =>
        /\ line.about \in PersonIds(d)
        /\ \/ who \cap a # {}
           \/ who \subseteq AccountsOf(d, line.about)

\* One note and its history become row and es.
NoteChanged(d, n, line, es, s) ==
    [d EXCEPT !.notes = [@ EXCEPT ![n] = line], !.log = [@ EXCEPT ![n] = es], !.seq = s]

LEMMA NoteChangedIsSound ==
    ASSUME NEW d, NEW m \in [NoteIds -> SUBSET Users], NEW a, Sound(d, m, a),
           NEW n \in NoteIds, NEW line \in Note \cup {NoRow}, NEW es \in Seq(Entry),
           Tells(es, line), NEW s \in 0 .. MaxNote, d.seq <= s, n <= s,
           NEW w \in [NoteIds -> SUBSET Users],
           \A k \in NoteIds \ {n} : w[k] = m[k],
           Meant(d, line, w[n], a)
    PROVE  Sound(NoteChanged(d, n, line, es, s), w, a)
<1> DEFINE e == NoteChanged(d, n, line, es, s)
<1>1. d \in Database /\ AllHaveAccounts(d) /\ HistoriesTell(d) /\ SubjectsKept(d, m, a)
  BY DEF Sound
<1>2. /\ [d.notes EXCEPT ![n] = line] \in [NoteIds -> Note \cup {NoRow}]
      /\ [d.log EXCEPT ![n] = es] \in [NoteIds -> Seq(Entry)]
  BY <1>1, DatabaseFields
<1>3. /\ e \in Database
      /\ e.people = d.people /\ e.accounts = d.accounts /\ e.seq = s
      /\ e.notes = [d.notes EXCEPT ![n] = line] /\ e.log = [d.log EXCEPT ![n] = es]
  BY <1>1, <1>2 DEF NoteChanged, Database
<1> HIDE DEF e
<1>4. /\ e.notes[n] = line /\ e.log[n] = es
      /\ \A k \in NoteIds \ {n} : e.notes[k] = d.notes[k] /\ e.log[k] = d.log[k]
  BY <1>1, <1>3, DatabaseFields
<1>5. PersonIds(e) = PersonIds(d) /\ \A p : AccountsOf(e, p) = AccountsOf(d, p)
  BY <1>3 DEF PersonIds, AccountsOf
<1>6. AllHaveAccounts(e)
  BY <1>1, <1>3, <1>5 DEF AllHaveAccounts
<1>7. HistoriesTell(e)
  <2>1. d.seq \in Nat /\ s \in Nat /\ \A k \in NoteIds : k > s => k > d.seq /\ k # n
    BY <1>1, Bounds, DatabaseFields DEF NoteIds
  <2> QED BY <1>1, <1>3, <1>4, <2>1 DEF HistoriesTell
<1>8. SubjectsKept(e, w, a)
  <2> SUFFICES ASSUME NEW k \in NoteIds PROVE Meant(e, e.notes[k], w[k], a)
    BY DEF SubjectsKept, Meant
  <2>1. CASE k = n
    BY <2>1, <1>4, <1>5 DEF Meant
  <2>2. CASE k # n
    BY <2>2, <1>1, <1>4, <1>5 DEF Meant, SubjectsKept
  <2> QED BY <2>1, <2>2
<1> QED BY <1>3, <1>6, <1>7, <1>8 DEF Sound, e

\* The entry _log() writes of a note
EntryOf(note, action) ==
    [chat |-> note.chat, action |-> action, content |-> note.content, about |-> note.about]

LEMMA EntryOfNote ==
    ASSUME NEW note \in Note,
           NEW action \in {"created", "updated", "deleted", "locked", "unlocked"}
    PROVE  /\ EntryOf(note, action) \in Entry
           /\ EntryOf(note, action).action = action
           /\ EntryOf(note, action).chat = note.chat
           /\ EntryOf(note, action).content = note.content
           /\ EntryOf(note, action).about = note.about
BY DEF EntryOf, Entry, Note

\* What a note's history is before and after an entry of it
LEMMA HistoryOfNote ==
    ASSUME NEW d \in Database, HistoriesTell(d), NEW n \in NoteIds, d.notes[n] # NoRow
    PROVE  /\ d.notes[n] \in Note /\ d.log[n] \in Seq(Entry)
           /\ d.log[n] # << >>
           /\ \A i, j \in DOMAIN d.log[n] : d.log[n][i].chat = d.log[n][j].chat
           /\ d.log[n][Len(d.log[n])].chat = d.notes[n].chat
           /\ d.notes[n].locked <=> EndsLocked(d.log[n])
           /\ n <= d.seq /\ d.seq \in 0 .. MaxNote
<1>1. d.notes[n] \in Note /\ d.log[n] \in Seq(Entry) /\ d.seq \in 0 .. MaxNote
  BY DatabaseFields
<1>2. Tells(d.log[n], d.notes[n]) /\ ~(n > d.seq)
  BY DEF HistoriesTell
<1>3. n <= d.seq
  BY <1>1, <1>2, Bounds DEF NoteIds
<1>4. /\ d.log[n] # << >>
      /\ \A i, j \in DOMAIN d.log[n] : d.log[n][i].chat = d.log[n][j].chat
      /\ <<d.log[n][Len(d.log[n])].chat, d.log[n][Len(d.log[n])].content,
           d.log[n][Len(d.log[n])].about>>
         = <<d.notes[n].chat, d.notes[n].content, d.notes[n].about>>
      /\ d.notes[n].locked <=> EndsLocked(d.log[n])
  BY <1>2 DEF Tells
<1> QED BY <1>1, <1>3, <1>4

LEMMA AddNoteIsSound ==
    ASSUME NEW d, NEW m \in [NoteIds -> SUBSET Users], NEW a, Sound(d, m, a),
           d.seq < MaxNote, NEW c \in Chats, NEW content \in Facts,
           NEW about \in PersonIds(d) \cup {None},
           NEW w \in [NoteIds -> SUBSET Users],
           \A k \in NoteIds \ {d.seq + 1} : w[k] = m[k],
           about # None => w[d.seq + 1] = AccountsOf(d, about)
    PROVE  /\ Sound(AddNote(d, c, content, about), w, a)
           /\ d.seq + 1 \in NoteIds /\ d.notes[d.seq + 1] = NoRow
           /\ AddNote(d, c, content, about).notes[d.seq + 1] # NoRow
           /\ AddNote(d, c, content, about).notes[d.seq + 1].about = about
           /\ \A k \in NoteIds \ {d.seq + 1} :
                  AddNote(d, c, content, about).notes[k] = d.notes[k]
<1> DEFINE id == d.seq + 1
           note == [chat |-> c, content |-> content, about |-> about, locked |-> FALSE]
           r == EntryOf(note, "created")
           es == Append(d.log[id], r)
           e == AddNote(d, c, content, about)
<1>1. d \in Database /\ HistoriesTell(d)
  BY DEF Sound
<1>2. id \in NoteIds /\ id \in 0 .. MaxNote /\ id > d.seq /\ d.seq <= id /\ id <= id
  BY <1>1, Bounds, DatabaseFields DEF NoteIds
<1>3. d.notes[id] = NoRow /\ d.log[id] = << >>
  BY <1>1, <1>2 DEF HistoriesTell
<1>4. note \in Note /\ note # NoRow /\ note.locked = FALSE
      /\ note.chat = c /\ note.about = about /\ note.content = content
  <2>1. about \in Ids \cup {None}
    BY DEF PersonIds
  <2>2. note \in Note
    BY <2>1 DEF Note
  <2> QED BY <2>2, NoRowIsNone
<1>5. e = NoteChanged(d, id, note, es, id)
  <2>1. e = Logged([d EXCEPT !.seq = id, !.notes[id] = note], id, note, "created")
    BY Zenon DEF AddNote
  <2> HIDE DEF note, id, e, es, r
  <2>2. Logged([d EXCEPT !.seq = id, !.notes[id] = note], id, note, "created")
            = NoteChanged(d, id, note, Append(d.log[id], EntryOf(note, "created")), id)
    BY <1>1, <1>2 DEF Logged, NoteChanged, EntryOf, Database
  <2> QED BY <2>1, <2>2 DEF es, r
<1> HIDE DEF note, id
<1>6. /\ r \in Entry /\ r.action = "created" /\ r.chat = note.chat
      /\ r.content = note.content /\ r.about = note.about
  BY <1>4, EntryOfNote
<1> HIDE DEF r
<1>7. /\ es \in Seq(Entry) /\ es # << >> /\ es[Len(es)] = r
      /\ \A i, j \in DOMAIN es : es[i].chat = es[j].chat
      /\ EndsLocked(es) <=> EndsLocked(d.log[id])
  <2>1. d.log[id] \in Seq(Entry) /\ \A i, j \in DOMAIN d.log[id] :
            d.log[id][i].chat = d.log[id][j].chat
    BY <1>3
  <2> QED BY <1>3, <1>6, <2>1, OneMoreEntry
<1>8. ~EndsLocked(d.log[id])
  BY <1>3 DEF EndsLocked
<1> HIDE DEF es
<1>9. Tells(es, note)
  BY <1>4, <1>6, <1>7, <1>8 DEF Tells
<1>10. Meant(d, note, w[id], a)
  BY <1>4 DEF Meant, id
<1>11. \A k \in NoteIds \ {id} : w[k] = m[k]
  BY DEF id
<1>12. Sound(e, w, a)
  BY <1>2, <1>4, <1>5, <1>7, <1>9, <1>10, <1>11, NoteChangedIsSound
<1>13. e.notes = [d.notes EXCEPT ![id] = note]
  BY <1>1, <1>5 DEF NoteChanged, Database
<1> HIDE DEF e
<1>14. e.notes[id] = note /\ \A k \in NoteIds \ {id} : e.notes[k] = d.notes[k]
  BY <1>1, <1>2, <1>13, DatabaseFields
<1> QED BY <1>2, <1>3, <1>4, <1>12, <1>14 DEF id, e

\* A note that changes with an entry of its own
LEMMA RewrittenIsSound ==
    ASSUME NEW d, NEW m \in [NoteIds -> SUBSET Users], NEW a, Sound(d, m, a),
           NEW n \in NoteIds, d.notes[n] # NoRow, NEW note \in Note,
           note.chat = d.notes[n].chat,
           NEW action \in {"updated", "locked", "unlocked"},
           note.locked <=> (action = "locked" \/ (action = "updated" /\ d.notes[n].locked)),
           NEW w \in [NoteIds -> SUBSET Users],
           \A k \in NoteIds \ {n} : w[k] = m[k],
           Meant(d, note, w[n], a)
    PROVE  Sound(Logged([d EXCEPT !.notes[n] = note], n, note, action), w, a)
<1> DEFINE r == EntryOf(note, action)
           es == Append(d.log[n], r)
<1>1. d \in Database /\ HistoriesTell(d)
  BY DEF Sound
<1>2. /\ d.log[n] \in Seq(Entry) /\ d.log[n] # << >>
      /\ \A i, j \in DOMAIN d.log[n] : d.log[n][i].chat = d.log[n][j].chat
      /\ d.log[n][Len(d.log[n])].chat = d.notes[n].chat
      /\ d.notes[n].locked <=> EndsLocked(d.log[n])
      /\ n <= d.seq /\ d.seq \in 0 .. MaxNote /\ d.seq <= d.seq
  BY <1>1, HistoryOfNote
<1>3. Logged([d EXCEPT !.notes[n] = note], n, note, action)
          = NoteChanged(d, n, note, es, d.seq)
  BY <1>1 DEF Logged, NoteChanged, EntryOf, Database
<1>4. /\ r \in Entry /\ r.action = action /\ r.chat = note.chat
      /\ r.content = note.content /\ r.about = note.about
  BY EntryOfNote
<1> HIDE DEF r
<1>5. /\ es \in Seq(Entry) /\ es # << >> /\ es[Len(es)] = r
      /\ \A i, j \in DOMAIN es : es[i].chat = es[j].chat
      /\ r.action = "locked" => EndsLocked(es)
      /\ r.action = "unlocked" => ~EndsLocked(es)
      /\ r.action \notin {"locked", "unlocked"} =>
             (EndsLocked(es) <=> EndsLocked(d.log[n]))
  <2>1. d.log[n][Len(d.log[n])].chat = r.chat
    BY <1>2, <1>4
  <2> QED BY <1>2, <1>4, <2>1, OneMoreEntry
<1> HIDE DEF es
<1>6. note.locked <=> EndsLocked(es)
  <2>1. CASE action = "locked"
    BY <1>4, <1>5, <2>1
  <2>2. CASE action = "unlocked"
    BY <1>4, <1>5, <2>2
  <2>3. CASE action = "updated"
    BY <1>2, <1>4, <1>5, <2>3
  <2> QED BY <2>1, <2>2, <2>3
<1>7. Tells(es, note)
  BY <1>4, <1>5, <1>6, NoRowIsNone DEF Tells
<1>8. Sound(NoteChanged(d, n, note, es, d.seq), w, a)
  BY <1>2, <1>5, <1>7, NoteChangedIsSound
<1> QED BY <1>3, <1>8

\* update() of content and subject, and what the note was meant to be about
LEMMA UpdateNoteIsSound ==
    ASSUME NEW d, NEW m \in [NoteIds -> SUBSET Users], NEW a, Sound(d, m, a),
           NEW n \in NoteIds, d.notes[n] # NoRow, NEW content \in Facts,
           NEW about \in PersonIds(d) \cup {None},
           NEW w \in [NoteIds -> SUBSET Users],
           \A k \in NoteIds \ {n} : w[k] = m[k],
           \/ about = d.notes[n].about /\ w[n] = m[n]
           \/ about # None => w[n] = AccountsOf(d, about)
    PROVE  /\ Sound(UpdateNote(d, n, content, about), w, a)
           /\ \A k \in NoteIds \ {n} :
                  UpdateNote(d, n, content, about).notes[k] = d.notes[k]
           /\ UpdateNote(d, n, content, about).notes[n] # NoRow
           /\ UpdateNote(d, n, content, about).notes[n].about = about
<1> DEFINE note == [d.notes[n] EXCEPT !.content = content, !.about = about]
           e == UpdateNote(d, n, content, about)
<1>1. d \in Database /\ HistoriesTell(d) /\ SubjectsKept(d, m, a) /\ AllHaveAccounts(d)
  BY DEF Sound
<1>2. d.notes[n] \in Note
  BY <1>1, RowsAre
<1>3. /\ note \in Note /\ note.chat = d.notes[n].chat /\ note.about = about
      /\ note.locked = d.notes[n].locked /\ note # NoRow
  <2>1. about \in Ids \cup {None}
    BY DEF PersonIds
  <2>2. note \in Note
    BY <1>2, <2>1 DEF Note
  <2>3. note.chat = d.notes[n].chat /\ note.about = about
        /\ note.locked = d.notes[n].locked
    BY <1>2 DEF Note
  <2> QED BY <2>2, <2>3, NoRowIsNone
<1>4. UpdateNote(d, n, content, about) =
          IF note = d.notes[n] THEN d
          ELSE Logged([d EXCEPT !.notes[n] = note], n, note, "updated")
  BY DEF UpdateNote
<1> HIDE DEF note
<1>5. Meant(d, note, w[n], a)
  BY <1>1, <1>3 DEF Meant, SubjectsKept
<1>6. CASE note = d.notes[n]
  <2>1. e = d
    BY <1>4, <1>6
  <2>2. SubjectsKept(d, w, a)
    BY <1>1, <1>5, <1>6 DEF SubjectsKept, Meant
  <2>3. Sound(d, w, a)
    BY <1>1, <2>2 DEF Sound
  <2> QED BY <1>3, <1>6, <2>1, <2>3
<1>7. CASE note # d.notes[n]
  <2> DEFINE f == Logged([d EXCEPT !.notes[n] = note], n, note, "updated")
  <2>1. e = f
    BY <1>4, <1>7
  <2>2. note.locked <=> ("updated" = "locked" \/ ("updated" = "updated" /\ d.notes[n].locked))
    BY <1>3
  <2>3. Sound(f, w, a)
    BY <1>3, <1>5, <2>2, RewrittenIsSound
  <2>4. f.notes = [d.notes EXCEPT ![n] = note]
    BY <1>1 DEF Logged, Database
  <2> HIDE DEF f, e
  <2>5. f.notes[n] = note /\ \A k \in NoteIds \ {n} : f.notes[k] = d.notes[k]
    BY <1>1, <2>4, DatabaseFields
  <2> QED BY <1>3, <2>1, <2>3, <2>5 DEF e
<1> QED BY <1>6, <1>7

LEMMA SetLockedIsSound ==
    ASSUME NEW d, NEW m \in [NoteIds -> SUBSET Users], NEW a, Sound(d, m, a),
           NEW n \in NoteIds, d.notes[n] # NoRow, NEW locked \in BOOLEAN
    PROVE  Sound(SetLocked(d, n, locked), m, a)
<1> DEFINE note == [d.notes[n] EXCEPT !.locked = locked]
           action == IF locked THEN "locked" ELSE "unlocked"
<1>1. d \in Database /\ SubjectsKept(d, m, a)
  BY DEF Sound
<1>2. d.notes[n] \in Note
  BY <1>1, RowsAre
<1>3. note \in Note
  BY <1>2 DEF Note
<1>4. note.chat = d.notes[n].chat /\ note.about = d.notes[n].about
  BY <1>2 DEF Note
<1>5. note.locked = locked
  BY <1>2 DEF Note
<1>6. SetLocked(d, n, locked) =
          IF note = d.notes[n] THEN d
          ELSE Logged([d EXCEPT !.notes[n] = note], n, note, action)
  BY DEF SetLocked
<1>7. action \in {"updated", "locked", "unlocked"}
  OBVIOUS
<1>8. note.locked <=> (action = "locked" \/ (action = "updated" /\ d.notes[n].locked))
  <2>1. CASE locked
    BY <1>5, <2>1
  <2>2. CASE ~locked
    BY <1>5, <2>2
  <2> QED BY <2>1, <2>2
<1>9. Meant(d, note, m[n], a)
  BY <1>1, <1>4 DEF Meant, SubjectsKept
<1> HIDE DEF note, action
<1>10. Sound(Logged([d EXCEPT !.notes[n] = note], n, note, action), m, a)
  BY <1>3, <1>4, <1>7, <1>8, <1>9, RewrittenIsSound
<1> QED BY <1>6, <1>10

LEMMA DeleteNoteIsSound ==
    ASSUME NEW d, NEW m \in [NoteIds -> SUBSET Users], NEW a, Sound(d, m, a),
           NEW n \in NoteIds, d.notes[n] # NoRow
    PROVE  Sound(DeleteNote(d, n), m, a)
<1> DEFINE r == EntryOf(d.notes[n], "deleted")
           es == Append(d.log[n], r)
<1>1. d \in Database /\ HistoriesTell(d)
  BY DEF Sound
<1>2. /\ d.notes[n] \in Note
      /\ d.log[n] \in Seq(Entry) /\ d.log[n] # << >>
      /\ \A i, j \in DOMAIN d.log[n] : d.log[n][i].chat = d.log[n][j].chat
      /\ d.log[n][Len(d.log[n])].chat = d.notes[n].chat
      /\ n <= d.seq /\ d.seq \in 0 .. MaxNote /\ d.seq <= d.seq
  BY <1>1, HistoryOfNote
<1>3. DeleteNote(d, n) = NoteChanged(d, n, NoRow, es, d.seq)
  BY <1>1 DEF DeleteNote, Logged, NoteChanged, EntryOf, Database
<1>4. r \in Entry /\ r.action = "deleted" /\ r.chat = d.notes[n].chat
  BY <1>2, EntryOfNote
<1> HIDE DEF r
<1>5. /\ es \in Seq(Entry) /\ es # << >> /\ es[Len(es)] = r
      /\ \A i, j \in DOMAIN es : es[i].chat = es[j].chat
  <2>1. d.log[n][Len(d.log[n])].chat = r.chat
    BY <1>2, <1>4
  <2> QED BY <1>2, <1>4, <2>1, OneMoreEntry
<1> HIDE DEF es
<1>6. Tells(es, NoRow) /\ Meant(d, NoRow, m[n], a)
  BY <1>4, <1>5 DEF Tells, Meant
<1>7. NoRow \in Note \cup {NoRow} /\ \A k \in NoteIds \ {n} : m[k] = m[k]
  OBVIOUS
<1>8. Sound(NoteChanged(d, n, NoRow, es, d.seq), m, a)
  BY <1>2, <1>5, <1>6, <1>7, NoteChangedIsSound
<1> QED BY <1>3, <1>8

LEMMA DeleteForChatIsSound ==
    ASSUME NEW d, NEW m \in [NoteIds -> SUBSET Users], NEW a, Sound(d, m, a),
           NEW c \in Chats
    PROVE  Sound(DeleteForChat(d, c), m, a)
<1> DEFINE e == DeleteForChat(d, c)
           notes == [n \in NoteIds |-> IF n \in ForChat(d, c) THEN NoRow ELSE d.notes[n]]
           entries == [n \in NoteIds |->
                      IF \E i \in DOMAIN d.log[n] : d.log[n][i].chat = c THEN << >>
                      ELSE d.log[n]]
<1>1. d \in Database /\ AllHaveAccounts(d) /\ HistoriesTell(d) /\ SubjectsKept(d, m, a)
  BY DEF Sound
<1>2. e = [d EXCEPT !.notes = notes, !.log = entries]
  BY DEF DeleteForChat
<1>3. notes \in [NoteIds -> Note \cup {NoRow}] /\ entries \in [NoteIds -> Seq(Entry)]
  BY <1>1, DatabaseFields
<1>4. ASSUME NEW n \in NoteIds
      PROVE  /\ notes[n] = NoRow \/ notes[n] = d.notes[n]
             /\ Tells(entries[n], notes[n])
             /\ n > d.seq => notes[n] = NoRow /\ entries[n] = << >>
  <2>1. Tells(d.log[n], d.notes[n]) /\ (n > d.seq => d.notes[n] = NoRow /\ d.log[n] = << >>)
    BY <1>1 DEF HistoriesTell
  <2>2. CASE \E i \in DOMAIN d.log[n] : d.log[n][i].chat = c
    <3>1. entries[n] = << >>
      BY <2>2
    <3>2. d.notes[n] # NoRow => d.notes[n].chat = c
      <4> SUFFICES ASSUME d.notes[n] # NoRow PROVE d.notes[n].chat = c
        OBVIOUS
      <4>1. /\ d.log[n] \in Seq(Entry) /\ d.log[n] # << >>
            /\ \A i, j \in DOMAIN d.log[n] : d.log[n][i].chat = d.log[n][j].chat
            /\ d.log[n][Len(d.log[n])].chat = d.notes[n].chat
        BY <1>1, HistoryOfNote
      <4>2. Len(d.log[n]) \in DOMAIN d.log[n]
        BY <4>1
      <4> QED BY <2>2, <4>1, <4>2
    <3>3. notes[n] = NoRow
      BY <3>2 DEF ForChat
    <3> QED BY <3>1, <3>3 DEF Tells
  <2>3. CASE ~ \E i \in DOMAIN d.log[n] : d.log[n][i].chat = c
    <3>1. entries[n] = d.log[n]
      BY <2>3
    <3>2. ~(d.notes[n] # NoRow /\ d.notes[n].chat = c)
      <4> SUFFICES ASSUME d.notes[n] # NoRow, d.notes[n].chat = c PROVE FALSE
        OBVIOUS
      <4>1. /\ d.log[n] \in Seq(Entry) /\ d.log[n] # << >>
            /\ d.log[n][Len(d.log[n])].chat = d.notes[n].chat
        BY <1>1, HistoryOfNote
      <4>2. Len(d.log[n]) \in DOMAIN d.log[n]
        BY <4>1
      <4> QED BY <2>3, <4>1, <4>2
    <3>3. notes[n] = d.notes[n]
      BY <3>2 DEF ForChat
    <3> QED BY <2>1, <3>1, <3>3
  <2> QED BY <2>2, <2>3
<1> HIDE DEF notes, entries
<1>5. /\ e \in Database
      /\ e.people = d.people /\ e.accounts = d.accounts /\ e.seq = d.seq
      /\ e.notes = notes /\ e.log = entries
  BY <1>1, <1>2, <1>3 DEF Database
<1> HIDE DEF e
<1>6. PersonIds(e) = PersonIds(d) /\ \A p : AccountsOf(e, p) = AccountsOf(d, p)
  BY <1>5 DEF PersonIds, AccountsOf
<1>7. AllHaveAccounts(e)
  BY <1>1, <1>5, <1>6 DEF AllHaveAccounts
<1>8. HistoriesTell(e)
  BY <1>4, <1>5 DEF HistoriesTell
<1>9. SubjectsKept(e, m, a)
  BY <1>1, <1>4, <1>5, <1>6 DEF SubjectsKept
<1> QED BY <1>5, <1>7, <1>8, <1>9 DEF Sound, e

-----------------------------------------------------------------------------
(* Whom a text names *)

\* resolve_about() finds somebody there is, or nobody.
LEMMA ResolveAboutFinds ==
    ASSUME NEW d \in Database, AllHaveAccounts(d), NEW c, NEW text
    PROVE  ResolveAbout(d, c, text) \in PersonIds(d) \cup {None}
<1> DEFINE found == {d.accounts[u].person : u \in MatchMembers(d, MembersOf(d, c), text)}
<1>1. MatchMembers(d, MembersOf(d, c), text) \subseteq MembersOf(d, c)
  BY DEF MatchMembers
<1>2. found \subseteq PersonIds(d)
  BY <1>1 DEF MembersOf, AllHaveAccounts
<1>3. ResolveAbout(d, c, text) = IF Cardinality(found) = 1 THEN Max(found) ELSE None
  BY DEF ResolveAbout
<1> HIDE DEF found
<1>4. CASE Cardinality(found) = 1
  <2>1. IsFiniteSet(Ids) /\ found \subseteq Ids
    BY <1>2, Bounds, FS_Interval DEF Ids, PersonIds
  <2>2. IsFiniteSet(found)
    BY <2>1, FS_Subset
  <2>3. PICK x : found = {x}
    BY <1>4, <2>2, FS_Singleton
  <2>4. x \in Int
    BY <2>1, <2>3 DEF Ids
  <2>5. \E y \in found : \A z \in found : y >= z
    BY <2>3, <2>4
  <2>6. Max(found) \in found
    BY <2>5 DEF Max
  <2> QED BY <1>2, <1>3, <1>4, <2>6
<1>5. CASE Cardinality(found) # 1
  BY <1>3, <1>5
<1> QED BY <1>4, <1>5

-----------------------------------------------------------------------------
(* The actions *)

LEMMA InitSound == PeopleInit => MemoryInv
<1> SUFFICES ASSUME PeopleInit PROVE MemoryInv
  OBVIOUS
<1>1. db = Empty /\ meant = [n \in NoteIds |-> {}] /\ apart = {}
  BY DEF PeopleInit
<1>2. /\ \A p \in Ids : Empty.people[p] = NoRow
      /\ \A u \in Users : Empty.accounts[u] = NoRow
      /\ \A n \in NoteIds : Empty.notes[n] = NoRow /\ Empty.log[n] = << >>
  BY DEF Empty
<1>3. Empty \in Database
  <2>1. 0 \in 0 .. MaxNote /\ << >> \in Seq(Entry)
    BY Bounds
  <2>2. Empty.people \in [Ids -> Person \cup {NoRow}]
        /\ Empty.accounts \in [Users -> Account \cup {NoRow}]
        /\ Empty.notes \in [NoteIds -> Note \cup {NoRow}]
    BY DEF Empty
  <2>3. [n \in NoteIds |-> << >>] \in [NoteIds -> Seq(Entry)]
    BY <2>1
  <2> QED BY <2>1, <2>2, <2>3 DEF Empty, Database
<1>4. AllHaveAccounts(Empty)
  BY <1>2 DEF AllHaveAccounts, PersonIds
<1>5. HistoriesTell(Empty)
  BY <1>2 DEF HistoriesTell, Tells
<1>6. SubjectsKept(Empty, meant, apart)
  BY <1>2 DEF SubjectsKept
<1>7. Waiting
  BY DEF PeopleInit, Waiting
<1> QED BY <1>1, <1>3, <1>4, <1>5, <1>6, <1>7 DEF MemoryInv, Sound

\* Accounts come with a message or with an export: upsert_live() and
\* upsert_imported() of an account there is.
LEMMA UpsertsFollow ==
    ASSUME NEW d \in Database, AllHaveAccounts(d), NEW c \in Chats, NEW u \in Users,
           d.accounts[u] # NoRow
    PROVE  Follows(d, UpsertLive(d, c, u), {}) /\ Follows(d, UpsertImported(d, c, u), {})
<1>1. Live[u] \in Names /\ Export[u] \in Names
  BY PeopleNotesAssumption
<1>2. Follows(d, TouchLive(d, u, Live[u]), {})
      /\ Follows(d, TouchImported(d, u, Export[u]), {})
  BY <1>1, TouchLiveFollows, TouchImportedFollows
<1> DEFINE e == TouchLive(d, u, Live[u])
           f == TouchImported(d, u, Export[u])
<1>3. e \in Database /\ AllHaveAccounts(e) /\ f \in Database /\ AllHaveAccounts(f)
  BY <1>2 DEF Follows
<1> HIDE DEF e, f
<1>4. Follows(e, Roster(e, c, u), {}) /\ Follows(f, Roster(f, c, u), {})
  BY <1>3, RosterFollows
<1>5. Follows(d, Roster(e, c, u), {} \cup {}) /\ Follows(d, Roster(f, c, u), {} \cup {})
  <2>1. Follows(d, e, {}) /\ Follows(d, f, {})
    BY <1>2 DEF e, f
  <2> QED BY <1>4, <2>1, FollowsOn
<1>6. {} \cup {} = {}
  OBVIOUS
<1> QED BY <1>5, <1>6 DEF e, f, UpsertLive, UpsertImported

\* ... and of one that is new.
LEMMA InsertedUpsertsFollow ==
    ASSUME NEW d \in Database, AllHaveAccounts(d), NEW c \in Chats, NEW u \in Users,
           NewId(d) \in Ids
    PROVE  /\ Follows(d, UpsertLive(InsertPerson(d, u), c, u), {})
           /\ Follows(d, UpsertImported(InsertPerson(d, u), c, u), {})
<1> DEFINE e == InsertPerson(d, u)
<1>1. Follows(d, e, {}) /\ e.accounts[u] # NoRow
  BY InsertPersonFollows
<1>2. e \in Database /\ AllHaveAccounts(e)
  BY <1>1 DEF Follows
<1> HIDE DEF e
<1>3. Follows(e, UpsertLive(e, c, u), {}) /\ Follows(e, UpsertImported(e, c, u), {})
  BY <1>1, <1>2, UpsertsFollow
<1>4. Follows(d, UpsertLive(e, c, u), {} \cup {})
      /\ Follows(d, UpsertImported(e, c, u), {} \cup {})
  BY <1>1, <1>3, FollowsOn
<1>5. {} \cup {} = {}
  OBVIOUS
<1> QED BY <1>4, <1>5 DEF e

\* An account that comes, or a change of people, keeps the invariant.
LEMMA FollowingKeeps ==
    ASSUME MemoryInv, Follows(db, db', {}), Waiting', meant' = meant, apart' = apart
    PROVE  MemoryInv'
<1>1. Sound(db, meant, apart) /\ meant \in [NoteIds -> SUBSET Users]
  BY DEF MemoryInv, Waiting
<1>2. apart \subseteq apart /\ {} \subseteq apart
  OBVIOUS
<1>3. Sound(db', meant, apart)
  BY <1>1, <1>2, FollowsKeepsSound
<1> QED BY <1>3 DEF MemoryInv

LEMMA AccountsComeSoundly ==
    ASSUME MemoryInv,
           \/ \E c \in Chats, u \in Users : Writes(c, u) \/ Imports(c, u)
           \/ LiveInserts
           \/ \E c \in Chats : ImportInserts(c)
    PROVE  MemoryInv'
<1>1. /\ db \in Database /\ AllHaveAccounts(db) /\ Waiting
  BY DEF MemoryInv, Sound
<1>2. Follows(db, db, {})
  BY <1>1, FollowsItself
<1>3. ASSUME NEW c \in Chats, NEW u \in Users, Writes(c, u) PROVE MemoryInv'
  <2>1. Waiting' /\ meant' = meant /\ apart' = apart
    BY <1>1, <1>3 DEF Writes, Waiting, Acts
  <2>2. Follows(db, db', {})
    BY <1>1, <1>2, <1>3, PersonOfAccount, UpsertsFollow DEF Writes
  <2> QED BY <2>1, <2>2, FollowingKeeps
<1>4. ASSUME NEW c \in Chats, NEW u \in Users, Imports(c, u) PROVE MemoryInv'
  <2>1. Waiting' /\ meant' = meant /\ apart' = apart
    BY <1>1, <1>4 DEF Imports, Waiting, Acts
  <2>2. Follows(db, db', {})
    BY <1>1, <1>2, <1>4, PersonOfAccount, UpsertsFollow DEF Imports
  <2> QED BY <2>1, <2>2, FollowingKeeps
<1>5. ASSUME LiveInserts PROVE MemoryInv'
  <2>1. Waiting' /\ meant' = meant /\ apart' = apart
    BY <1>1, <1>5 DEF LiveInserts, Waiting
  <2>2. loop[1] \in Chats /\ loop[2] \in Users /\ NewId(db) \in Ids
    BY <1>1, <1>5 DEF LiveInserts, Waiting
  <2>3. Follows(db, InsertPerson(db, loop[2]), {})
    BY <1>1, <2>2, InsertPersonFollows
  <2>4. Follows(db, UpsertLive(InsertPerson(db, loop[2]), loop[1], loop[2]), {})
    BY <1>1, <2>2, InsertedUpsertsFollow
  <2>5. Follows(db, db', {})
    BY <1>5, <2>3, <2>4 DEF LiveInserts
  <2> QED BY <2>1, <2>5, FollowingKeeps
<1>6. ASSUME NEW c \in Chats, ImportInserts(c) PROVE MemoryInv'
  <2>1. Waiting' /\ meant' = meant /\ apart' = apart
    BY <1>1, <1>6 DEF ImportInserts, Waiting
  <2>2. thread \in Users /\ NewId(db) \in Ids
    BY <1>1, <1>6 DEF ImportInserts, Waiting
  <2>3. Follows(db, InsertPerson(db, thread), {})
    BY <1>1, <2>2, InsertPersonFollows
  <2>4. Follows(db, UpsertImported(InsertPerson(db, thread), c, thread), {})
    BY <1>1, <2>2, InsertedUpsertsFollow
  <2>5. Follows(db, db', {})
    BY <1>6, <2>3, <2>4 DEF ImportInserts
  <2> QED BY <2>1, <2>5, FollowingKeeps
<1> QED BY <1>3, <1>4, <1>5, <1>6

\* apply_identities() of one sender
LEMMA NamedFollows ==
    ASSUME NEW d \in Database, AllHaveAccounts(d), NEW p \in Ids,
           NEW name \in Names \cup {NoName}, NEW merged
    PROVE  Follows(d, Named(d, p, name, merged), {})
BY FollowsItself, SetNameFollows DEF Named

LEMMA IdentityIsSound ==
    ASSUME MemoryInv, NEW u \in Users, NEW target \in Ids \cup {None},
           NEW name \in Chosen \cup {NoName}, Identity(u, target, name)
    PROVE  MemoryInv'
<1> DEFINE e == InsertPerson(db, u)
           known == TouchImported(e, u, Export[u])
           p == PersonIdFor(known, u)
           merged == target \in PersonIds(known) \ {p}
           moved == IF merged THEN MoveAccount(known, u, target) ELSE known
           b == IF merged THEN apart \cup {u} ELSE apart
           last == Named(moved, PersonIdFor(moved, u), name, merged)
<1>1. /\ Sound(db, meant, apart) /\ db \in Database /\ AllHaveAccounts(db)
      /\ Waiting /\ meant \in [NoteIds -> SUBSET Users] /\ apart \subseteq Users
  BY DEF MemoryInv, Sound, Waiting
<1>2. /\ db' = last /\ apart' = b
      /\ meant' = meant /\ loop' = loop /\ thread' = thread /\ page' = page
      /\ PersonIdFor(db, u) # None \/ NewId(db) \in Ids
  BY DEF Identity, Changes
<1>3. db.accounts[u] # NoRow \/ NewId(db) \in Ids
  BY <1>1, <1>2, PersonOfAccount
<1>4. Follows(db, e, {}) /\ e.accounts[u] # NoRow
  BY <1>1, <1>3, InsertPersonFollows
<1>5. e \in Database /\ AllHaveAccounts(e)
  BY <1>4 DEF Follows
<1> HIDE DEF e
<1>6. Follows(e, known, {})
  <2>1. Export[u] \in Names
    BY PeopleNotesAssumption
  <2> QED BY <1>4, <1>5, <2>1, TouchImportedFollows
<1> HIDE DEF known
<1>7. /\ known.accounts[u] # NoRow
      /\ known \in Database /\ AllHaveAccounts(known)
  BY <1>4, <1>6 DEF Follows
<1>8. Sound(known, meant, apart)
  <2>1. Sound(e, meant, apart)
    BY <1>1, <1>4, FollowsKeepsSound
  <2> QED BY <1>1, <1>6, <2>1, FollowsKeepsSound
<1>9. Sound(moved, meant, b) /\ moved.accounts[u] # NoRow
  <2>1. CASE merged
    BY <1>1, <1>7, <1>8, <2>1, MoveAccountIsSound
  <2>2. CASE ~merged
    BY <1>7, <1>8, <2>2
  <2> QED BY <2>1, <2>2
<1> HIDE DEF moved, b, merged
<1>10. moved \in Database /\ AllHaveAccounts(moved)
  BY <1>9 DEF Sound
<1>11. PersonIdFor(moved, u) \in Ids /\ name \in Names \cup {NoName}
  BY <1>9, <1>10, PersonOfAccount, PeopleNotesAssumption
<1>12. Follows(moved, last, {})
  BY <1>10, <1>11, NamedFollows
<1> HIDE DEF last
<1>13. Sound(last, meant, b)
  BY <1>1, <1>9, <1>12, FollowsKeepsSound
<1>14. Waiting'
  <2>1. b \subseteq Users
    BY <1>1 DEF b
  <2> QED BY <1>1, <1>2, <2>1 DEF Waiting
<1> QED BY <1>2, <1>13, <1>14 DEF MemoryInv

\* The owner's and the members' changes of people
LEMMA PeopleChangeSoundly ==
    ASSUME MemoryInv,
           \/ \E p \in Ids, n \in Chosen \cup {NoName} : Rename(p, n)
           \/ \E p \in Ids, a \in Chosen : AliasSet(p, a) \/ AliasGone(p, a)
           \/ \E c \in Chats : AliasesCleared(c)
           \/ \E p, target \in Ids : MergeAsked(p, target)
           \/ MergeConfirmed
           \/ \E u \in Users : SplitOff(u)
    PROVE  MemoryInv'
<1>1. /\ Sound(db, meant, apart) /\ db \in Database /\ AllHaveAccounts(db)
      /\ Waiting /\ meant \in [NoteIds -> SUBSET Users] /\ apart \subseteq Users
  BY DEF MemoryInv, Sound, Waiting
<1>2. Chosen \subseteq Names
  BY PeopleNotesAssumption
<1>3. ASSUME NEW p \in Ids, NEW n \in Chosen \cup {NoName}, Rename(p, n)
      PROVE  MemoryInv'
  <2>1. Waiting' /\ meant' = meant /\ apart' = apart /\ db' = SetName(db, p, n)
    BY <1>1, <1>3 DEF Rename, Changes, Waiting
  <2>2. Follows(db, db', {})
    BY <1>1, <1>2, <2>1, SetNameFollows
  <2> QED BY <2>1, <2>2, FollowingKeeps
<1>4. ASSUME NEW p \in Ids, NEW a \in Chosen, AliasSet(p, a) \/ AliasGone(p, a)
      PROVE  MemoryInv'
  <2>1. /\ Waiting' /\ meant' = meant /\ apart' = apart
        /\ db' = AddAlias(db, p, a) \/ db' = RemoveAlias(db, p, a)
    BY <1>1, <1>4 DEF AliasSet, AliasGone, Changes, Waiting
  <2>2. Follows(db, AddAlias(db, p, a), {}) /\ Follows(db, RemoveAlias(db, p, a), {})
    BY <1>1, <1>2, AliasFollows
  <2>3. Follows(db, db', {})
    BY <2>1, <2>2
  <2> QED BY <2>1, <2>3, FollowingKeeps
<1>5. ASSUME NEW c \in Chats, AliasesCleared(c) PROVE MemoryInv'
  <2>1. /\ Waiting' /\ meant' = meant /\ apart' = apart
        /\ db' = ClearAliases(db, {db.accounts[u].person : u \in MembersOf(db, c)})
    BY <1>1, <1>5 DEF AliasesCleared, Changes, Waiting
  <2>2. Follows(db, db', {})
    BY <1>1, <2>1, ClearAliasesFollows
  <2> QED BY <2>1, <2>2, FollowingKeeps
<1>6. ASSUME NEW p \in Ids, NEW target \in Ids, MergeAsked(p, target)
      PROVE  MemoryInv'
  <2>1. page' = <<p, target>> /\ p # target
    BY <1>6 DEF MergeAsked
  <2>2. /\ db' = db /\ meant' = meant /\ apart' = apart
        /\ loop' = loop /\ thread' = thread
    BY <1>6 DEF MergeAsked, Changes
  <2>3. Waiting'
    BY <1>1, <2>1, <2>2 DEF Waiting
  <2> QED BY <1>1, <2>2, <2>3 DEF MemoryInv
<1>7. ASSUME MergeConfirmed PROVE MemoryInv'
  <2>1. /\ Waiting' /\ meant' = meant /\ apart' = apart
        /\ db' = Merge(db, page[1], page[2])
    BY <1>1, <1>7 DEF MergeConfirmed, Changes, Waiting
  <2>2. page[1] \in PersonIds(db) /\ page[2] \in PersonIds(db) /\ page[1] # page[2]
    BY <1>1, <1>7 DEF MergeConfirmed, Waiting
  <2>3. Sound(db', meant, apart)
    BY <1>1, <2>1, <2>2, MergeIsSound
  <2> QED BY <2>1, <2>3 DEF MemoryInv
<1>8. ASSUME NEW u \in Users, SplitOff(u) PROVE MemoryInv'
  <2>1. /\ Waiting' /\ meant' = meant /\ apart' = apart \cup {u}
        /\ db' = Split(db, u) /\ CanSplit(db, u) /\ NewId(db) \in Ids
    BY <1>1, <1>8 DEF SplitOff, Changes, Waiting
  <2>2. Follows(db, db', {u})
    BY <1>1, <2>1, SplitFollows
  <2>3. Sound(db', meant, apart \cup {u})
    BY <1>1, <2>2, FollowsKeepsSound
  <2> QED BY <2>1, <2>3 DEF MemoryInv
<1> QED BY <1>3, <1>4, <1>5, <1>6, <1>7, <1>8

-----------------------------------------------------------------------------
(* Notes that are added, changed and deleted *)

\* Whom a note is about, as Subject() notes it
LEMMA SubjectNoted ==
    ASSUME Waiting, NEW n \in NoteIds, NEW about,
           meant' = [meant EXCEPT ![n] = AccountsOf(db, about)]
    PROVE  /\ meant' \in [NoteIds -> SUBSET Users]
           /\ meant'[n] = AccountsOf(db, about)
           /\ \A k \in NoteIds \ {n} : meant'[k] = meant[k]
BY DEF Waiting, AccountsOf

\* Somebody the owner can choose for a note
LEMMA MembersAreThere ==
    ASSUME AllHaveAccounts(db), NEW c,
           NEW about \in {db.accounts[u].person : u \in MembersOf(db, c)} \cup {None}
    PROVE  about \in PersonIds(db) \cup {None}
BY DEF MembersOf, AllHaveAccounts

LEMMA KeptWaiting ==
    ASSUME Waiting, loop' = loop, thread' = thread, page' = page, apart' = apart,
           meant' \in [NoteIds -> SUBSET Users]
    PROVE  Waiting'
BY DEF Waiting

LEMMA OwnersNotesSoundly ==
    ASSUME MemoryInv,
           \/ \E c \in Chats : OwnerClearsNotes(c)
           \/ \E c \in Chats, f \in Facts, p \in Ids \cup {None}, l \in BOOLEAN :
                  OwnerAdds(c, f, p, l)
           \/ \E n \in NoteIds, f \in Facts, p \in Ids \cup {None} : OwnerEdits(n, f, p)
           \/ \E n \in NoteIds : OwnerLocks(n) \/ OwnerDeletes(n)
    PROVE  MemoryInv'
<1>1. /\ Sound(db, meant, apart) /\ db \in Database /\ AllHaveAccounts(db)
      /\ Waiting /\ meant \in [NoteIds -> SUBSET Users]
  BY DEF MemoryInv, Sound, Waiting
<1>2. ASSUME NEW c \in Chats, OwnerClearsNotes(c) PROVE MemoryInv'
  <2>1. Sound(db', meant', apart') /\ Waiting'
    BY <1>1, <1>2, DeleteForChatIsSound, KeptWaiting DEF OwnerClearsNotes, Keeps
  <2> QED BY <2>1 DEF MemoryInv
<1>3. ASSUME NEW c \in Chats, NEW f \in Facts, NEW p \in Ids \cup {None},
             NEW l \in BOOLEAN, OwnerAdds(c, f, p, l)
      PROVE  MemoryInv'
  <2> DEFINE id == db.seq + 1
             e == AddNote(db, c, f, p)
  <2>1. /\ db.seq < MaxNote /\ p \in PersonIds(db) \cup {None}
        /\ db' = SetLocked(e, id, l)
        /\ meant' = [meant EXCEPT ![id] = AccountsOf(db, p)]
        /\ loop' = loop /\ thread' = thread /\ page' = page /\ apart' = apart
    BY <1>1, <1>3, MembersAreThere DEF OwnerAdds, Keeps, Subject
  <2>2. id \in NoteIds
    BY <1>1, <2>1, Bounds, DatabaseFields DEF NoteIds
  <2>3. /\ meant' \in [NoteIds -> SUBSET Users] /\ meant'[id] = AccountsOf(db, p)
        /\ \A k \in NoteIds \ {id} : meant'[k] = meant[k]
    BY <1>1, <2>1, <2>2, SubjectNoted
  <2>4. Sound(e, meant', apart) /\ e.notes[id] # NoRow
    <3>1. db.seq < MaxNote /\ p \in PersonIds(db) \cup {None}
      BY <2>1
    <3> QED BY <1>1, <2>3, <3>1, AddNoteIsSound
  <2> HIDE DEF e, id
  <2>5. Sound(db', meant', apart)
    BY <2>1, <2>2, <2>3, <2>4, SetLockedIsSound
  <2>6. Waiting'
    BY <1>1, <2>1, <2>3, KeptWaiting
  <2> QED BY <2>1, <2>5, <2>6 DEF MemoryInv
<1>4. ASSUME NEW n \in NoteIds, NEW f \in Facts, NEW p \in Ids \cup {None},
             OwnerEdits(n, f, p)
      PROVE  MemoryInv'
  <2>1. /\ db.notes[n] # NoRow /\ p \in PersonIds(db) \cup {None}
        /\ db' = UpdateNote(db, n, f, p)
        /\ \/ p = db.notes[n].about /\ meant' = meant
           \/ meant' = [meant EXCEPT ![n] = AccountsOf(db, p)]
        /\ loop' = loop /\ thread' = thread /\ page' = page /\ apart' = apart
    BY <1>1, <1>4, MembersAreThere DEF OwnerEdits, Keeps, Subject, MayChange
  <2>2. /\ meant' \in [NoteIds -> SUBSET Users]
        /\ \A k \in NoteIds \ {n} : meant'[k] = meant[k]
        /\ (p = db.notes[n].about /\ meant'[n] = meant[n]) \/ meant'[n] = AccountsOf(db, p)
    BY <1>1, <2>1, SubjectNoted
  <2>3. Sound(db', meant', apart)
    BY <1>1, <2>1, <2>2, UpdateNoteIsSound
  <2>4. Waiting'
    BY <1>1, <2>1, <2>2, KeptWaiting
  <2> QED BY <2>1, <2>3, <2>4 DEF MemoryInv
<1>5. ASSUME NEW n \in NoteIds, OwnerLocks(n) PROVE MemoryInv'
  <2>1. /\ db.notes[n] # NoRow /\ db' = SetLocked(db, n, ~db.notes[n].locked)
        /\ meant' = meant
        /\ loop' = loop /\ thread' = thread /\ page' = page /\ apart' = apart
    BY <1>5 DEF OwnerLocks, Keeps
  <2>2. (~db.notes[n].locked) \in BOOLEAN
    OBVIOUS
  <2>3. Sound(db', meant', apart')
    BY <1>1, <2>1, <2>2, SetLockedIsSound
  <2>4. Waiting'
    BY <1>1, <2>1, KeptWaiting
  <2> QED BY <2>3, <2>4 DEF MemoryInv
<1>6. ASSUME NEW n \in NoteIds, OwnerDeletes(n) PROVE MemoryInv'
  <2>1. /\ db.notes[n] # NoRow /\ db' = DeleteNote(db, n) /\ meant' = meant
        /\ loop' = loop /\ thread' = thread /\ page' = page /\ apart' = apart
    BY <1>6 DEF OwnerDeletes, Keeps, MayChange
  <2>2. Sound(db', meant', apart')
    BY <1>1, <2>1, DeleteNoteIsSound
  <2>3. Waiting'
    BY <1>1, <2>1, KeptWaiting
  <2> QED BY <2>2, <2>3 DEF MemoryInv
<1> QED BY <1>2, <1>3, <1>4, <1>5, <1>6

\* What the keeper's proposal may change: nothing, a new note, or one note of
\* the chat that is not locked.
ProposalsChange(d, c, act) ==
    \/ ApplyNoteAction(d, c, act) = d
    \/ /\ act.kind = "add"
       /\ \E about \in PersonIds(d) \cup {None} :
              ApplyNoteAction(d, c, act) = AddNote(d, c, act.content, about)
    \/ /\ act.kind # "add" /\ act.id \in NoteIds
       /\ d.notes[act.id] # NoRow /\ ~d.notes[act.id].locked
       /\ \E about \in PersonIds(d) \cup {None} :
              ApplyNoteAction(d, c, act) = UpdateNote(d, act.id, act.content, about)

LEMMA ProposalApplied ==
    ASSUME NEW d, NEW m, NEW a, Sound(d, m, a), NEW c \in Chats, NEW act \in Proposal
    PROVE  ProposalsChange(d, c, act)
<1> DEFINE about == IF act.about = NoName THEN None ELSE ResolveAbout(d, c, act.about)
<1>1. d \in Database /\ AllHaveAccounts(d)
  BY DEF Sound
<1>2. about \in PersonIds(d) \cup {None}
  BY <1>1, ResolveAboutFinds
<1>3. CASE act.kind = "add"
  <2>1. ApplyNoteAction(d, c, act) = d
        \/ ApplyNoteAction(d, c, act) = AddNote(d, c, act.content, about)
    BY <1>3 DEF ApplyNoteAction
  <2> QED BY <1>2, <1>3, <2>1 DEF ProposalsChange
<1>4. CASE act.kind # "add"
  <2> DEFINE new == IF act.about = NoName THEN d.notes[act.id].about ELSE about
  <2>1. CASE ~(act.id \in ForChat(d, c) /\ MayChange(d, act.id, FALSE))
    BY <1>4, <2>1 DEF ApplyNoteAction, ProposalsChange
  <2>2. CASE act.id \in ForChat(d, c) /\ MayChange(d, act.id, FALSE)
    <3>1. ApplyNoteAction(d, c, act) = UpdateNote(d, act.id, act.content, new)
      BY <1>4, <2>2 DEF ApplyNoteAction
    <3>2. /\ act.id \in NoteIds /\ d.notes[act.id] # NoRow
          /\ ~d.notes[act.id].locked
      BY <2>2 DEF ForChat, MayChange
    <3>3. d.notes[act.id].about \in PersonIds(d) \cup {None}
      BY <3>2 DEF Sound, SubjectsKept
    <3>4. new \in PersonIds(d) \cup {None}
      BY <1>2, <3>3
    <3> HIDE DEF new, about
    <3> QED BY <1>4, <3>1, <3>2, <3>4 DEF ProposalsChange
  <2> QED BY <2>1, <2>2
<1> QED BY <1>3, <1>4

LEMMA ProposesSoundly ==
    ASSUME MemoryInv, NEW c \in Chats, NEW act \in Proposal, Proposes(c, act)
    PROVE  MemoryInv'
<1>1. /\ Sound(db, meant, apart) /\ db \in Database /\ AllHaveAccounts(db)
      /\ Waiting /\ meant \in [NoteIds -> SUBSET Users]
  BY DEF MemoryInv, Sound, Waiting
<1>2. /\ act.kind = "add" => db.seq < MaxNote
      /\ db' = ApplyNoteAction(db, c, act)
      /\ loop' = loop /\ thread' = thread /\ page' = page /\ apart' = apart
      /\ meant' = [n \in NoteIds |->
                      IF db'.notes[n] = NoRow \/ db'.notes[n] = db.notes[n] THEN meant[n]
                      ELSE AccountsOf(db, db'.notes[n].about)]
  BY DEF Proposes, Keeps
<1>3. /\ meant' \in [NoteIds -> SUBSET Users]
      /\ \A n \in NoteIds : db'.notes[n] = db.notes[n] => meant'[n] = meant[n]
      /\ \A n \in NoteIds : (db'.notes[n] # NoRow /\ db'.notes[n] # db.notes[n]) =>
             meant'[n] = AccountsOf(db, db'.notes[n].about)
  BY <1>1, <1>2 DEF AccountsOf
<1>4. act.content \in Facts
  BY DEF Proposal
<1>5. Waiting'
  BY <1>1, <1>2, <1>3, KeptWaiting
<1>6. CASE db' = db
  <2>1. SubjectsKept(db, meant', apart)
    BY <1>1, <1>3, <1>6 DEF Sound, SubjectsKept
  <2>2. Sound(db', meant', apart')
    BY <1>1, <1>2, <1>6, <2>1 DEF Sound
  <2> QED BY <1>5, <2>2 DEF MemoryInv
<1>7. ASSUME act.kind = "add", NEW about \in PersonIds(db) \cup {None},
             db' = AddNote(db, c, act.content, about)
      PROVE  MemoryInv'
  <2> DEFINE id == db.seq + 1
             e == AddNote(db, c, act.content, about)
             w == [meant EXCEPT ![id] = AccountsOf(db, about)]
  <2>1. id \in NoteIds /\ db.seq < MaxNote
    BY <1>1, <1>2, <1>7, Bounds, DatabaseFields DEF NoteIds
  <2>2. /\ w \in [NoteIds -> SUBSET Users] /\ w[id] = AccountsOf(db, about)
        /\ \A k \in NoteIds \ {id} : w[k] = meant[k]
    BY <1>1, <2>1 DEF AccountsOf
  <2> HIDE DEF w
  <2>3. /\ db.notes[id] = NoRow /\ e.notes[id] # NoRow /\ e.notes[id].about = about
        /\ \A k \in NoteIds \ {id} : e.notes[k] = db.notes[k]
    BY <1>1, <1>4, <2>1, <2>2, AddNoteIsSound
  <2>4. /\ meant'[id] = AccountsOf(db, about)
        /\ \A k \in NoteIds \ {id} : meant'[k] = meant[k]
    BY <1>3, <1>7, <2>1, <2>3
  <2>5. Sound(db', meant', apart)
    BY <1>1, <1>3, <1>4, <1>7, <2>1, <2>4, AddNoteIsSound
  <2> QED BY <1>2, <1>5, <2>5 DEF MemoryInv
<1>8. ASSUME NEW n \in NoteIds, db.notes[n] # NoRow, NEW f \in Facts,
             NEW about \in PersonIds(db) \cup {None},
             db' = UpdateNote(db, n, f, about)
      PROVE  MemoryInv'
  <2> DEFINE w == [meant EXCEPT ![n] = AccountsOf(db, about)]
  <2>1. /\ w \in [NoteIds -> SUBSET Users] /\ w[n] = AccountsOf(db, about)
        /\ \A k \in NoteIds \ {n} : w[k] = meant[k]
    BY <1>1, <1>8 DEF AccountsOf
  <2> HIDE DEF w
  <2>2. /\ \A k \in NoteIds \ {n} : db'.notes[k] = db.notes[k]
        /\ db'.notes[n] # NoRow /\ db'.notes[n].about = about
    BY <1>1, <1>4, <1>8, <2>1, UpdateNoteIsSound
  <2>3. /\ \A k \in NoteIds \ {n} : meant'[k] = meant[k]
        /\ \/ about = db.notes[n].about /\ meant'[n] = meant[n]
           \/ meant'[n] = AccountsOf(db, about)
    BY <1>3, <1>8, <2>2
  <2>4. Sound(db', meant', apart)
    BY <1>1, <1>3, <1>4, <1>8, <2>3, UpdateNoteIsSound
  <2> QED BY <1>2, <1>5, <2>4 DEF MemoryInv
<1> QED BY <1>1, <1>2, <1>4, <1>6, <1>7, <1>8, ProposalApplied DEF ProposalsChange

LEMMA BotSoundly ==
    ASSUME MemoryInv, Bot
    PROVE  MemoryInv'
<1>1. /\ Sound(db, meant, apart) /\ db \in Database /\ AllHaveAccounts(db)
      /\ Waiting /\ meant \in [NoteIds -> SUBSET Users]
  BY DEF MemoryInv, Sound, Waiting
<1>2. ASSUME NEW c \in Chats, NEW f \in Facts, NEW text \in Names \cup {NoName},
             Remembers(c, f, text)
      PROVE  MemoryInv'
  <2> DEFINE about == IF text = NoName THEN None ELSE ResolveAbout(db, c, text)
             id == db.seq + 1
  <2>1. about \in PersonIds(db) \cup {None}
    BY <1>1, ResolveAboutFinds
  <2>2. /\ db.seq < MaxNote /\ db' = AddNote(db, c, f, about)
        /\ meant' = [meant EXCEPT ![id] = AccountsOf(db, about)]
        /\ loop' = loop /\ thread' = thread /\ page' = page /\ apart' = apart
    BY <1>2 DEF Remembers, Keeps, Subject
  <2> HIDE DEF about
  <2>3. id \in NoteIds
    BY <1>1, <2>2, Bounds, DatabaseFields DEF NoteIds
  <2>4. /\ meant' \in [NoteIds -> SUBSET Users] /\ meant'[id] = AccountsOf(db, about)
        /\ \A k \in NoteIds \ {id} : meant'[k] = meant[k]
    BY <1>1, <2>2, <2>3, SubjectNoted
  <2>5. Sound(db', meant', apart)
    <3>1. Sound(AddNote(db, c, f, about), meant', apart)
      <4>1. db.seq < MaxNote
        BY <2>2
      <4> QED BY <1>1, <2>1, <2>4, <4>1, AddNoteIsSound
    <3> QED BY <2>2, <3>1
  <2>6. Waiting'
    BY <1>1, <2>2, <2>4, KeptWaiting
  <2> QED BY <2>2, <2>5, <2>6 DEF MemoryInv
<1>3. ASSUME NEW c \in Chats, NEW n \in NoteIds, NEW f \in Facts,
             NEW text \in Names \cup {NoName}, Replaces(c, n, f, text)
      PROVE  MemoryInv'
  <2> DEFINE about == IF text = NoName THEN db.notes[n].about
                      ELSE ResolveAbout(db, c, text)
  <2>1. /\ db.notes[n] # NoRow /\ db' = UpdateNote(db, n, f, about)
        /\ \/ about = db.notes[n].about /\ meant' = meant
           \/ meant' = [meant EXCEPT ![n] = AccountsOf(db, about)]
        /\ loop' = loop /\ thread' = thread /\ page' = page /\ apart' = apart
    BY <1>3 DEF Replaces, Keeps, Subject, MayChange
  <2>2. about \in PersonIds(db) \cup {None}
    <3>1. db.notes[n].about \in PersonIds(db) \cup {None}
      BY <1>1, <2>1 DEF Sound, SubjectsKept
    <3> QED BY <1>1, <3>1, ResolveAboutFinds
  <2> HIDE DEF about
  <2>3. /\ meant' \in [NoteIds -> SUBSET Users]
        /\ \A k \in NoteIds \ {n} : meant'[k] = meant[k]
        /\ \/ about = db.notes[n].about /\ meant'[n] = meant[n]
           \/ meant'[n] = AccountsOf(db, about)
    BY <1>1, <2>1, SubjectNoted
  <2>4. Sound(db', meant', apart)
    BY <1>1, <2>1, <2>2, <2>3, UpdateNoteIsSound
  <2>5. Waiting'
    BY <1>1, <2>1, <2>3, KeptWaiting
  <2> QED BY <2>1, <2>4, <2>5 DEF MemoryInv
<1>4. ASSUME NEW c \in Chats, NEW n \in NoteIds, Forgets(c, n) PROVE MemoryInv'
  <2>1. /\ db.notes[n] # NoRow /\ db' = DeleteNote(db, n) /\ meant' = meant
        /\ loop' = loop /\ thread' = thread /\ page' = page /\ apart' = apart
    BY <1>4 DEF Forgets, Keeps, MayChange
  <2>2. Sound(db', meant', apart')
    BY <1>1, <2>1, DeleteNoteIsSound
  <2>3. Waiting'
    BY <1>1, <2>1, KeptWaiting
  <2> QED BY <2>2, <2>3 DEF MemoryInv
<1> QED BY <1>2, <1>3, <1>4, ProposesSoundly DEF Bot

LEMMA OwnerSoundly ==
    ASSUME MemoryInv, Owner
    PROVE  MemoryInv'
BY PeopleChangeSoundly, OwnersNotesSoundly, IdentityIsSound DEF Owner

LEMMA NextSoundly == MemoryInv /\ [PeopleNext]_peopleVars => MemoryInv'
<1> SUFFICES ASSUME MemoryInv, [PeopleNext]_peopleVars PROVE MemoryInv'
  OBVIOUS
<1>1. CASE PeopleNext
  BY <1>1, AccountsComeSoundly, OwnerSoundly, BotSoundly DEF PeopleNext
<1>2. CASE UNCHANGED peopleVars
  BY <1>2 DEF peopleVars, MemoryInv, Waiting
<1> QED BY <1>1, <1>2

\* The inductive invariant holds in every state.
THEOREM Invariance == PeopleSpec => []MemoryInv
BY InitSound, NextSoundly, PTL DEF PeopleSpec

-----------------------------------------------------------------------------
(* The properties *)

LEMMA MemoryInvIsSound == MemoryInv => MemoryIsSound
<1> SUFFICES ASSUME MemoryInv PROVE MemoryIsSound
  OBVIOUS
<1>1. /\ Sound(db, meant, apart) /\ db \in Database /\ AllHaveAccounts(db) /\ Waiting
      /\ HistoriesTell(db) /\ SubjectsKept(db, meant, apart)
  BY DEF MemoryInv, Sound
<1>2. PeopleTypeOK
  <2>1. db.people \in [Ids -> [name : Names \cup {NoName}, aliases : SUBSET Names] \cup {NoRow}]
    BY <1>1, DatabaseFields DEF Person
  <2>2. /\ \A u \in Users : db.accounts[u] = NoRow \/ db.accounts[u] \in Account
        /\ db.members \subseteq Chats \X Users
        /\ \A n \in NoteIds : db.notes[n] = NoRow \/ db.notes[n] \in Note
        /\ \A n \in NoteIds : \A i \in DOMAIN db.log[n] : db.log[n][i] \in Entry
        /\ db.seq \in 0 .. MaxNote
    BY <1>1, DatabaseFields
  <2>3. /\ loop = NoPage \/ loop \in Chats \X Users
        /\ thread \in Users \cup {NoAccount}
        /\ page = NoPage \/ page \in Ids \X Ids
        /\ meant \in [NoteIds -> SUBSET Users] /\ apart \subseteq Users
    BY <1>1 DEF Waiting
  <2> QED BY <2>1, <2>2, <2>3 DEF PeopleTypeOK
<1>3. EveryoneHasAnAccount
  BY <1>1 DEF AllHaveAccounts, EveryoneHasAnAccount
<1>4. HistoryTellsAll
  BY <1>1 DEF HistoriesTell, HistoryTellsAll
<1>5. NotesKeepTheirSubject
  BY <1>1 DEF SubjectsKept, NotesKeepTheirSubject
<1> QED BY <1>2, <1>3, <1>4, <1>5 DEF MemoryIsSound

\* What is remembered has a subject and a past (memory/notes.py,
\* db/people.py): nobody is without an account, no note is about nobody or a
\* stranger, and every history tells what the note says and whether it is
\* locked, whatever members, the owner, the model, the keeper and an import's
\* thread do, and in whatever order.
THEOREM MemoryStaysSound == PeopleSpec => []MemoryIsSound
BY Invariance, MemoryInvIsSound, PTL

\* What the model calls or proposes changes no locked note.
LEMMA BotLeavesLocked ==
    ASSUME MemoryInv, Bot, NEW n \in NoteIds, db.notes[n] # NoRow, db.notes[n].locked
    PROVE  db'.notes[n] = db.notes[n]
<1>1. /\ Sound(db, meant, apart) /\ db \in Database /\ AllHaveAccounts(db)
      /\ HistoriesTell(db)
  BY DEF MemoryInv, Sound
<1>2. n <= db.seq
  BY <1>1, HistoryOfNote
<1>3. ASSUME NEW c \in Chats, NEW f, NEW about, db' = AddNote(db, c, f, about)
      PROVE  db'.notes[n] = db.notes[n]
  <2> DEFINE id == db.seq + 1
             note == [chat |-> c, content |-> f, about |-> about, locked |-> FALSE]
  <2>1. n # id
    BY <1>1, <1>2, Bounds, DatabaseFields DEF NoteIds
  <2>2. db'.notes = [db.notes EXCEPT ![id] = note]
    BY <1>1, <1>3 DEF AddNote, Logged, Database
  <2> HIDE DEF id, note
  <2> QED BY <1>1, <2>1, <2>2, DatabaseFields
<1>4. ASSUME NEW k \in NoteIds, ~db.notes[k].locked, NEW f, NEW about,
             db' = UpdateNote(db, k, f, about) \/ db' = DeleteNote(db, k)
      PROVE  db'.notes[n] = db.notes[n]
  <2> DEFINE note == [db.notes[k] EXCEPT !.content = f, !.about = about]
  <2>1. n # k
    BY <1>4
  <2>2. \/ db' = db
        \/ db' = Logged([db EXCEPT !.notes[k] = note], k, note, "updated")
        \/ db' = DeleteNote(db, k)
    BY <1>4 DEF UpdateNote
  <2> HIDE DEF note
  <2>3. db' = db \/ \E line : db'.notes = [db.notes EXCEPT ![k] = line]
    BY <1>1, <2>2 DEF Logged, DeleteNote, Database
  <2> QED BY <1>1, <2>1, <2>3, DatabaseFields
<1>5. ASSUME NEW c \in Chats, NEW act \in Proposal, Proposes(c, act)
      PROVE  db'.notes[n] = db.notes[n]
  <2>1. db' = ApplyNoteAction(db, c, act)
    BY <1>5 DEF Proposes, Keeps
  <2>2. ProposalsChange(db, c, act)
    BY <1>1, ProposalApplied
  <2> QED BY <2>1, <2>2, <1>3, <1>4 DEF ProposalsChange
<1>6. ASSUME NEW c \in Chats, NEW f \in Facts, NEW text, Remembers(c, f, text)
      PROVE  db'.notes[n] = db.notes[n]
  BY <1>3, <1>6 DEF Remembers, Keeps
<1>7. ASSUME NEW c \in Chats, NEW k \in NoteIds, NEW f \in Facts, NEW text,
             Replaces(c, k, f, text)
      PROVE  db'.notes[n] = db.notes[n]
  BY <1>4, <1>7 DEF Replaces, Keeps, MayChange
<1>8. CASE \E c \in Chats, f \in Facts, text \in Names \cup {NoName} : Remembers(c, f, text)
  BY <1>6, <1>8
<1>9. CASE \E c \in Chats, k \in NoteIds, f \in Facts, text \in Names \cup {NoName} :
               Replaces(c, k, f, text)
  BY <1>7, <1>9
<1>10. CASE \E c \in Chats, k \in NoteIds : Forgets(c, k)
  BY <1>4, <1>10 DEF Forgets, Keeps, MayChange
<1>11. CASE \E c \in Chats, act \in Proposal : Proposes(c, act)
  BY <1>5, <1>11
<1> QED BY <1>8, <1>9, <1>10, <1>11 DEF Bot

\* No locked note is changed by the model's tools or by a proposal of the
\* digest keeper (memory/notes.py, agent/tools/memory.py), in any behaviour.
THEOREM LockedNotesAreKept == PeopleSpec => LockedNotesStay
<1>1. MemoryInv /\ [PeopleNext]_peopleVars =>
          [Bot => \A n \in NoteIds :
              (db.notes[n] # NoRow /\ db.notes[n].locked) => db'.notes[n] = db.notes[n]]_peopleVars
  BY BotLeavesLocked
<1> QED BY <1>1, Invariance, PTL DEF PeopleSpec, LockedNotesStay
=============================================================================
