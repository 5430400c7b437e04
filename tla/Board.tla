-------------------------------- MODULE Board ---------------------------------
(***************************************************************************)
(* A group's board (naruto/db/board.py, tg/board.py): its plans and open   *)
(* questions are stored, and shown in one pinned message.  The model       *)
(* changes it in a run (agent/tools/group.py), the owner in the web admin  *)
(* (web/board.py), a member has it sent again with /board                  *)
(* (tg/skill_commands.py).  Nothing keeps one publication from starting    *)
(* while another waits for Telegram.                                       *)
(*                                                                         *)
(* An action is the code between two waits; Telegram does what it is asked *)
(* at the moment its answer arrives.  A call may also be refused, or time  *)
(* out after it was done ("unclear").                                      *)
(***************************************************************************)
EXTENDS Integers, FiniteSets, Functions

CONSTANTS Plans, Questions,   \* names a plan may have, and questions
          MaxItems,           \* MAX_ITEMS_PER_SECTION
          MaxChars,           \* MAX_BOARD_CHARS, in items
          MaxBoards,        \* bound: board messages sent
          MaxChanges,         \* bound: changes of the board and of its title
          MaxPublishers       \* bound: publications under way at once

ASSUME BoardAssumption ==
    {MaxItems, MaxChars, MaxBoards, MaxChanges, MaxPublishers} \subseteq Nat

VARIABLES
    row,         \* the chat's row in the table boards
    messages,    \* the board messages in the group
    publishing,  \* publications and clearings that wait for Telegram
    form,        \* the board as the owner's form was loaded with it
    changes,
    titled,      \* the plans that were there when the title was given
    unshown,     \* the board was changed and not published since
    overlapped,  \* two were under way at once
    refused      \* Telegram refused a call, or left it unclear

boardVars == <<row, messages, publishing, form, changes, titled, unshown, overlapped, refused>>

NoBoard == << >>
NoMessage == 0
Titles == {"", "title"}   \* "" is NULL: the title is built from the plans
Items == [plans : SUBSET Plans, questions : SUBSET Questions]
Content == [items : Items, title : Titles]
Row == [items : Items, title : Titles, message : 0 .. MaxBoards, pinned : BOOLEAN]

\* A board without a row: get() builds an empty one.
NoItems == [plans |-> {}, questions |-> {}]
GetBoard == IF row = NoBoard THEN [items |-> NoItems, title |-> "", message |-> NoMessage, pinned |-> FALSE]
            ELSE row
Shown(board) == [items |-> board.items, title |-> board.title]

\* A message of the group, whoever deletes it.
BoardMessage == [shows : Content, pinned : BOOLEAN, gone : BOOLEAN]

\* board: what publish() read; id: the message it has sent.
Publishing == [step : {"edit", "send", "html", "pin", "unpin", "clear"}, board : Row,
               id : 0 .. MaxBoards]

\* board_chars()
BoardChars(items, title) ==
    Cardinality(items.plans) + Cardinality(items.questions) + IF title = "" THEN 0 ELSE 1

\* The board also never outgrows one Telegram message, whichever section grew.
BoardTypeOK ==
    /\ row = NoBoard \/ (row \in Row /\ BoardChars(row.items, row.title) <= MaxChars)
    /\ \A m \in DOMAIN messages : messages[m] \in BoardMessage
    /\ publishing \subseteq Publishing
    /\ form = NoBoard \/ form \in Content
    /\ changes \in 0 .. MaxChanges
    /\ titled \subseteq Plans
    /\ unshown \in BOOLEAN /\ overlapped \in BOOLEAN /\ refused \in BOOLEAN

BoardInit ==
    /\ row = NoBoard /\ messages = << >> /\ publishing = {} /\ form = NoBoard /\ changes = 0
    /\ titled = {} /\ unshown = FALSE /\ overlapped = FALSE /\ refused = FALSE

-----------------------------------------------------------------------------
(* The repository *)

\* check_size(): of the section, and of the board as a whole
FitsBoard(items, title) ==
    /\ Cardinality(items.plans) <= MaxItems
    /\ Cardinality(items.questions) <= MaxItems
    /\ BoardChars(items, title) <= MaxChars

\* The title set_sections() saves: the one given, else the one there, unless
\* it was written for other plans.
TitleFor(items, title, given) ==
    IF given THEN title ELSE IF items.plans = GetBoard.items.plans THEN GetBoard.title ELSE ""

\* set_sections(), _save_sections()
SetSections(items, title, given) ==
    LET name == TitleFor(items, title, given)
    IN  /\ FitsBoard(items, name)
        /\ row' = [GetBoard EXCEPT !.items = items, !.title = name]
        /\ titled' = IF given THEN items.plans ELSE titled

\* set_message(): an UPDATE, which finds no row after the board was cleared.
SetMessage(id, pinned) ==
    row' = IF row = NoBoard THEN NoBoard ELSE [row EXCEPT !.message = id, !.pinned = pinned]

-----------------------------------------------------------------------------
(* Publishing *)

Sent == Cardinality(DOMAIN messages)
Pending == Cardinality({t \in publishing : t.step \in {"edit", "send", "html"}})
MaySend == Sent + Pending < MaxBoards

\* publish(): the board's message is edited, or a new one sent and pinned.
Publication(board, fresh) ==
    [step |-> IF board.message # NoMessage /\ ~fresh THEN "edit" ELSE "send",
     board |-> board, id |-> NoMessage]

Begins(t) ==
    /\ MaySend /\ Cardinality(publishing) < MaxPublishers /\ t \notin publishing
    /\ publishing' = publishing \cup {t}
    /\ overlapped' = (overlapped \/ publishing # {})

Goes(t, step) == publishing' = (publishing \ {t}) \cup {[t EXCEPT !.step = step]}
Over(t) == publishing' = publishing \ {t}
Others == UNCHANGED <<form, changes, titled, unshown, overlapped>>

\* _edit(), of a message that may be deleted by now
Edit(t) ==
    LET m == t.board.message
    IN  /\ t \in publishing /\ t.step = "edit"
        /\ \/ \* done
              /\ ~messages[m].gone
              /\ messages' = [messages EXCEPT ![m].shows = Shown(t.board)]
              /\ SetMessage(m, t.board.pinned) /\ Over(t) /\ UNCHANGED refused
           \/ \* BadRequest "not modified"
              /\ ~messages[m].gone /\ messages[m].shows = Shown(t.board)
              /\ Over(t) /\ UNCHANGED <<row, messages, refused>>
           \/ \* another BadRequest: a new message is sent
              /\ messages[m].gone
              /\ Goes(t, "send") /\ UNCHANGED <<row, messages, refused>>
           \/ \* another error
              /\ refused' = TRUE /\ Over(t) /\ UNCHANGED <<row, messages>>
        /\ Others

Appear(board) ==
    messages' = [m \in 1 .. Sent + 1 |->
                    IF m <= Sent THEN messages[m]
                    ELSE [shows |-> Shown(board), pinned |-> FALSE, gone |-> FALSE]]

\* What follows the sending: the new message is pinned.
Follow(t) == publishing' = (publishing \ {t}) \cup {[t EXCEPT !.step = "pin", !.id = Sent + 1]}

\* _send(): a rich message, if refused one in HTML, even if the first came through.
Send(t) ==
    /\ t \in publishing /\ t.step \in {"send", "html"}
    /\ \/ \* done
          Appear(t.board) /\ Follow(t) /\ UNCHANGED refused
       \/ \* the rich message is refused
          t.step = "send" /\ Goes(t, "html") /\ UNCHANGED <<messages, refused>>
       \/ \* it times out after all
          /\ t.step = "send" /\ MaySend
          /\ Appear(t.board) /\ Goes(t, "html") /\ refused' = TRUE
       \/ \* no
          Over(t) /\ refused' = TRUE /\ UNCHANGED messages
    /\ UNCHANGED row /\ Others

\* _send_new(): the old board message is unpinned once the new one is pinned.
\* Mutant: the old one stays pinned.
PinAlone(t) ==
    /\ t \in publishing /\ t.step = "pin" /\ ~messages[t.id].gone
    /\ messages' = [messages EXCEPT ![t.id].pinned = TRUE]
    /\ Over(t) /\ SetMessage(t.id, TRUE)
    /\ UNCHANGED refused /\ Others
Pin(t) ==
    /\ t \in publishing /\ t.step = "pin"
    /\ \/ \* pinned
          /\ ~messages[t.id].gone
          /\ messages' = [messages EXCEPT ![t.id].pinned = TRUE]
          /\ IF t.board.message # NoMessage /\ t.board.pinned
             THEN Goes(t, "unpin") /\ UNCHANGED row
             ELSE Over(t) /\ SetMessage(t.id, TRUE)
          /\ UNCHANGED refused
       \/ \* not an admin with "Pin messages"
          /\ refused' = TRUE /\ Over(t) /\ SetMessage(t.id, FALSE) /\ UNCHANGED messages
    /\ Others

Unpin(t) ==
    /\ t \in publishing /\ t.step = "unpin"
    /\ \E ok \in BOOLEAN :
          /\ messages' = [messages EXCEPT ![t.board.message].pinned = messages[t.board.message].pinned /\ ~ok]
          /\ refused' = (refused \/ ~ok)
    /\ Over(t) /\ SetMessage(t.id, TRUE)
    /\ Others

-----------------------------------------------------------------------------
(* Who changes the board *)

Changes == changes < MaxChanges /\ changes' = changes + 1

\* update_board(): one section, with a title for new plans or without; then
\* it is published.
BotUpdates(section, names, title) ==
    LET items == [GetBoard.items EXCEPT ![section] = names]
    IN  /\ Changes
        /\ SetSections(items, title, title # "")
        /\ LET board == [GetBoard EXCEPT !.items = items,
                                    !.title = TitleFor(items, title, title # "")]
           IN  Begins(Publication(board, FALSE))
        /\ unshown' = FALSE
        /\ UNCHANGED <<messages, form, refused>>

\* The owner loads the page, and saves it later: both sections and the title.
FormLoads ==
    /\ form # Shown(GetBoard)
    /\ form' = Shown(GetBoard)
    /\ UNCHANGED <<row, messages, publishing, changes, titled, unshown, overlapped, refused>>

\* save_board(): published or not
OwnerSaves(section, names, title, publish) ==
    LET items == [form.items EXCEPT ![section] = names]
    IN  /\ form # NoBoard /\ Changes
        /\ SetSections(items, title, TRUE)
        /\ IF publish
           THEN Begins(Publication([GetBoard EXCEPT !.items = items, !.title = title], FALSE))
           ELSE UNCHANGED <<publishing, overlapped>>
        /\ unshown' = ~publish
        /\ form' = NoBoard
        /\ UNCHANGED <<messages, refused>>

\* publish_board(), show_board(): /board, of a board with something on it
Publishes(fresh) ==
    /\ GetBoard.items # NoItems
    /\ Changes
    /\ Begins(Publication(GetBoard, fresh))
    /\ unshown' = FALSE
    /\ UNCHANGED <<row, messages, form, titled, refused>>

\* clear_board(): the message is unpinned first, and the row deleted after.
ClearBegins ==
    /\ row # NoBoard /\ Changes /\ Cardinality(publishing) < MaxPublishers
    /\ IF row.message # NoMessage /\ row.pinned
       THEN /\ publishing' = publishing \cup {[step |-> "clear", board |-> row, id |-> NoMessage]}
            /\ overlapped' = (overlapped \/ publishing # {})
            /\ UNCHANGED row
       ELSE row' = NoBoard /\ overlapped' = (overlapped \/ publishing # {}) /\ UNCHANGED publishing
    /\ UNCHANGED <<messages, form, titled, unshown, refused>>

ClearEnds(t) ==
    /\ t \in publishing /\ t.step = "clear"
    /\ \E ok \in BOOLEAN :
          /\ messages' = [messages EXCEPT ![t.board.message].pinned = messages[t.board.message].pinned /\ ~ok]
          /\ refused' = (refused \/ ~ok)
    /\ row' = NoBoard /\ Over(t)
    /\ Others

\* Somebody deletes the board's message.
MemberDeletes(m) ==
    /\ Changes
    /\ m \in DOMAIN messages /\ ~messages[m].gone
    /\ messages' = [messages EXCEPT ![m].gone = TRUE, ![m].pinned = FALSE]
    /\ unshown' = TRUE
    /\ UNCHANGED <<row, publishing, form, titled, overlapped, refused>>

Step(t) == Edit(t) \/ Send(t) \/ Pin(t) \/ Unpin(t) \/ ClearEnds(t)

BoardNext ==
    \/ \E names \in SUBSET Plans, title \in Titles :
          \/ BotUpdates("plans", names, title)
          \/ \E publish \in BOOLEAN : OwnerSaves("plans", names, title, publish)
    \/ \E names \in SUBSET Questions : BotUpdates("questions", names, "")
    \/ FormLoads \/ ClearBegins
    \/ \E fresh \in BOOLEAN : Publishes(fresh)
    \/ \E m \in 1 .. MaxBoards : MemberDeletes(m)
    \/ \E t \in publishing : Step(t)

BoardSpec == BoardInit /\ [][BoardNext]_boardVars

-----------------------------------------------------------------------------
(* Properties *)

\* A title is shown over the plans it was given for, and no others.
TitleFitsPlans == row # NoBoard /\ row.title # "" => row.items.plans = titled

Pinned == {m \in DOMAIN messages : messages[m].pinned}

\* Once nothing is under way, exactly the message the board is kept in is
\* pinned, and it shows what is saved: unless a change was not published,
\* Telegram refused something, or two publications were under way at once.
OneTrueBoard ==
    publishing = {} /\ row # NoBoard /\ ~unshown /\ ~overlapped /\ ~refused
        => /\ row.message # NoMessage
           /\ Pinned = {row.message}
           /\ messages[row.message].shows = Shown(row)

\* What is pinned in the group is what is saved, it fits a message, and its
\* title fits its plans.
BoardIsTrue == BoardTypeOK /\ TitleFitsPlans /\ OneTrueBoard
=============================================================================
