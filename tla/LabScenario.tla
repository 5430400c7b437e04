----------------------------- MODULE LabScenario ------------------------------
(***************************************************************************)
(* Scenarios of the prompt lab (naruto/lab/scenario.py): a chat and turns  *)
(* that address the bot, written with or without IDs and dates.  Parsing   *)
(* gives every message its ID and its date, in the order of the            *)
(* conversation, or refuses the scenario.                                  *)
(*                                                                         *)
(* Of a message is kept what IDs, dates and addressing depend on; 0 stands *)
(* for what is not given.                                                  *)
(***************************************************************************)
EXTENDS Integers, SequencesExt

CONSTANTS Minute, DefaultStart   \* MINUTE, DEFAULT_START

ASSUME LabScenarioAssumption == {Minute, DefaultStart} \subseteq Nat \ {0}

Unset == 0
Or(given, default) == IF given # Unset THEN given ELSE default

\* What a scenario says; a turn is a message with more fields.
RawMessage == [id : Nat, date : Nat, bot : BOOLEAN, to : Nat]
RawTurn == [id : Nat, date : Nat, bot : {FALSE}, to : Nat,
            after : Nat, answer : BOOLEAN,       \* reply_to_answer
            mention : BOOLEAN, command : {"", "summary", "catchup", "usage"},
            before : Seq(RawMessage),            \* messages
            expect : SUBSET {"answers", "silence", "no_reply", "text", "tool", "none pending"}]
RawScenario == [time : Nat, messages : Seq(RawMessage), turns : Seq(RawTurn),
                reminders : SUBSET Nat,          \* of its state: when they are due
                requires : SUBSET {"vision", "web_search"},
                simulate : {"works", "error", "forbidden", "network", "timeout"},
                continues : BOOLEAN]

\* A parsed message, and which turn it is, if any.
Parsed == [id : Nat, date : Int, bot : BOOLEAN, to : Nat, turn : Nat]

-----------------------------------------------------------------------------
(* The builder *)

\* made: the messages so far; next: the next ID; ok: nothing was refused.
Builder(firstId) == [made |-> << >>, next |-> firstId, ok |-> TRUE]
Ids(b) == {b.made[i].id : i \in DOMAIN b.made}
LastDate(b) == IF b.made = << >> THEN Unset ELSE Last(b.made).date

\* message(): the ID given, or the next free one; replies go to earlier
\* messages.
IdFor(b, given) ==
    Or(given, CHOOSE id \in b.next .. b.next + Len(b.made) :
                  /\ id \notin Ids(b)
                  /\ \A other \in b.next .. id - 1 : other \in Ids(b))

AddMessage(b, raw, default, turn) ==
    LET id == IdFor(b, raw.id)
        date == Or(Or(raw.date, default), DefaultStart)
    IN  IF ~b.ok \/ id \in Ids(b) \/ (raw.to # Unset /\ raw.to \notin Ids(b))
        THEN [b EXCEPT !.ok = FALSE]
        ELSE [b EXCEPT !.made = Append(b.made, [id |-> id, date |-> date,
                                               bot |-> raw.bot, to |-> raw.to, turn |-> turn]),
                       !.next = IF id >= b.next THEN id + 1 ELSE b.next]

\* dated_run(): a minute apart, forwards from start, or backwards so that the
\* last is a minute before end.
DatedRun(b, raws, start, end) ==
    LET after[i \in 0 .. Len(raws)] ==
            IF i = 0 THEN b
            ELSE AddMessage(after[i - 1], raws[i],
                     IF start = Unset /\ end # Unset THEN end - (Len(raws) + 1 - i) * Minute
                     ELSE IF i = 1 THEN start ELSE LastDate(after[i - 1]) + Minute, Unset)
    IN  after[Len(raws)]

-----------------------------------------------------------------------------
(* Turns *)

\* _addresses_bot()
AddressesBot(b, raw) ==
    \/ raw.mention \/ raw.answer
    \/ \E i \in DOMAIN b.made : b.made[i].id = raw.to /\ b.made[i].bot

\* When a turn takes place, and the chat before it.
TurnDates(b, raw, time, turnDate) ==
    LET explicit == IF raw.date # Unset THEN raw.date
                    ELSE IF raw.after # Unset THEN turnDate + raw.after ELSE Unset
        ran == DatedRun(b, raw.before, IF explicit = Unset THEN turnDate + Minute ELSE Unset,
                        explicit)
    IN  IF turnDate = Unset   \* the first
        THEN [built |-> b,
              when |-> Or(Or(raw.date, time),
                          IF b.made # << >> THEN LastDate(b) + Minute ELSE DefaultStart)]
        ELSE [built |-> ran,
              when |-> Or(explicit, Minute + IF raw.before # << >> THEN LastDate(ran)
                                             ELSE turnDate)]

\* A turn is not earlier than the one before, and addresses the bot unless it
\* is there to see that the bot stays quiet.
AddTurn(b, raw, turn, time, continues) ==
    LET turnDate == IF turn = 1 THEN Unset ELSE LastDate(b)
        dates == TurnDates(b, raw, time, turnDate)
        added == AddMessage(dates.built, raw, dates.when, turn)
        allowed == /\ dates.when >= turnDate
                   /\ ~(raw.answer /\ turn = 1 /\ ~continues)
                   /\ turn = 1 => raw.before = << >> /\ raw.after = Unset
                   /\ \/ raw.command # "" \/ "silence" \in raw.expect
                      \/ AddressesBot(added, raw)
    IN  IF added.ok /\ allowed THEN added ELSE [added EXCEPT !.ok = FALSE]

\* The messages before the first turn
ChatBefore(raw, firstId, time) ==
    LET anchor == Or(raw.turns[1].date, time)
    IN  IF anchor # Unset
        THEN DatedRun(Builder(firstId), raw.messages, Unset, anchor)
        ELSE DatedRun(Builder(firstId), raw.messages, DefaultStart, Unset)

AddTurns(chat, raw, time) ==
    LET after[turn \in 0 .. Len(raw.turns)] ==
            IF turn = 0 THEN chat
            ELSE IF after[turn - 1].ok
            THEN AddTurn(after[turn - 1], raw.turns[turn], turn, time, raw.continues)
            ELSE after[turn - 1]
    IN  after[Len(raw.turns)]

\* parse_scenario(): turns is a list of a scenario's turns, never empty.
ParseScenario(raw, firstId, time) ==
    LET built == AddTurns(ChatBefore(raw, firstId, time), raw, time)
    IN  [built EXCEPT !.ok = built.ok /\ (raw.continues => raw.reminders = {})]
=============================================================================
