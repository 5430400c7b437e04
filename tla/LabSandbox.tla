------------------------------ MODULE LabSandbox ------------------------------
(***************************************************************************)
(* A sandbox of the prompt lab (naruto/lab/sandbox.py, lab/checks.py,      *)
(* lab/executor.py _run_attempt): one attempt plays a scenario on the      *)
(* scenario's own clock, with the bot's recorder, responder and reminder   *)
(* job and a stand-in for Telegram, judges each turn, and keeps the chat   *)
(* for an attempt that continues it.                                       *)
(*                                                                         *)
(* What the model answers is any of Answers; an action is the play of one  *)
(* message, reminder delivery or turn.                                     *)
(***************************************************************************)
EXTENDS LabScenario, FiniteSets

CONSTANTS Played,        \* what is played, in any order: \subseteq RawScenario
          Continuations, \* what continues it
          Answers,       \* how a turn may be answered: \subseteq TurnAnswer
          BotBase, BotGap,   \* 100_000, 10_000
          RetryBase,     \* RETRY_BASE_SECONDS
          MaxReminders,  \* bound: reminders in a conversation
          MaxPlayed      \* bound: attempts of a conversation

\* how: the run's end; fits: its text is as expected; needed: what became of
\* the tool the turn needs; sets: a reminder is set for so much later, if any;
\* blind: the model refused the images; lacking: an image was asked for that
\* the scenario does not have.
Hows == {"answer", "silent", "infra", "stuck", "notrun", "raised"}
TurnAnswer == [how : Hows, fits : BOOLEAN, needed : {"done", "failed", "not called"},
               sets : Nat, blind : BOOLEAN, lacking : BOOLEAN]

ASSUME LabSandboxAssumption ==
    /\ {BotBase, BotGap, RetryBase, MaxReminders, MaxPlayed} \subseteq Nat \ {0}
    /\ Played \cup Continuations \subseteq RawScenario /\ Answers \subseteq TurnAnswer
    /\ \A s \in Played \cup Continuations : s.turns # << >> /\ IsFiniteSet(s.reminders)

VARIABLES
    raw, script,   \* the scenario, and its messages
    pos,           \* the next of them
    stage,
    clock,         \* the sandbox's clock
    chat,          \* message ID -> when it was said and whether by the bot
    heard,         \* how many messages were stored
    reminders,     \* those pending: when they are due, when they are tried again
    nextBot,       \* the next ID of a bot's message
    lastAnswer,    \* the message a reply to the answer goes to
    turns,         \* the results so far
    outcome,       \* of the attempt, once it is over
    saved,         \* the state kept for a continuation
    played,        \* how many attempts the conversation has had
    dated,         \* a scenario gave dates of its own
    named          \* a scenario that continued another gave IDs of its own

sandboxVars == <<raw, script, pos, stage, clock, chat, heard, reminders, nextBot, lastAnswer,
                turns, outcome, saved, played, dated, named>>

NotStarted == << >>
AttemptOutcomes == {"pass", "fail", "action_failed", "error", "skipped", "unjudged"}

TurnResult == [how : Hows \cup {"usage", "not addressed"},
               fits : BOOLEAN, needed : {"done", "failed", "not called"},
               blind : BOOLEAN, lacking : BOOLEAN, sent : BOOLEAN, outcome : AttemptOutcomes]

Stages == {"idle", "playing", "asking", "ending", "over"}
Reminder == [due : Int, next : Int]

SandboxTypeOK ==
    /\ stage \in Stages /\ pos \in Nat /\ clock \in Int
    /\ \A id \in DOMAIN chat : id \in Nat \ {Unset} /\ chat[id].date \in Int
    /\ heard \in Nat /\ nextBot \in Nat /\ lastAnswer \in DOMAIN chat \cup {Unset}
    /\ \A r \in reminders : r \in Reminder
    /\ \A i \in DOMAIN turns : turns[i] \in TurnResult
    /\ outcome \in AttemptOutcomes \cup {""} /\ played \in 0 .. MaxPlayed
    /\ dated \in BOOLEAN /\ named \in BOOLEAN

SandboxInit ==
    /\ raw = NotStarted /\ script = << >> /\ pos = 1 /\ stage = "idle" /\ clock = 0
    /\ chat = [id \in {} |-> 0] /\ heard = 0 /\ reminders = {} /\ nextBot = 0
    /\ lastAnswer = Unset /\ turns = << >> /\ outcome = "" /\ saved = NotStarted
    /\ played = 0 /\ dated = FALSE /\ named = FALSE

-----------------------------------------------------------------------------
(* The stand-in for Telegram, and the recorder *)


\* _set_time()
Later(when) == Max({clock, when})

\* A message stored under an ID that is taken replaces the one there.
Stored(c, id, date, bot) ==
    [k \in DOMAIN c \cup {id} |-> IF k = id THEN [date |-> date, bot |-> bot] ELSE c[k]]

\* _failure(): what a reminder is tried again after
Passing == {"network", "timeout"}

\* send_message() n times, stored by record_sent()
SendsMessages(n, at) ==
    /\ chat' = [k \in DOMAIN chat \cup nextBot .. nextBot + n - 1 |->
                   IF k >= nextBot /\ k < nextBot + n THEN [date |-> at, bot |-> TRUE]
                   ELSE chat[k]]
    /\ heard' = heard + n
    /\ nextBot' = nextBot + n

-----------------------------------------------------------------------------
(* Judging a turn *)

CheckOf(holds) == IF holds THEN "right" ELSE "wrong"

\* check_tool_calls(): a tool that was called but failed is no wrong answer.
ToolCheck(r) == IF r.needed = "failed" THEN "action" ELSE CheckOf(r.needed = "done")

\* run_checks(), on the model's text or the one that explains the command
TextCheck(r) == CheckOf(r.how \in {"answer", "usage"} /\ r.fits)

\* check_state(): here, that no reminder is pending
StateCheck(pending) == CheckOf(pending = {})

\* The checks a turn asks for.
Checks(expect, r, pending) ==
    {CheckOf(r.sent) : e \in expect \cap {"answers"}}
    \cup {CheckOf(~r.sent) : e \in expect \cap {"silence", "no_reply"}}
    \cup {TextCheck(r) : e \in expect \cap {"text"}}
    \cup {ToolCheck(r) : e \in expect \cap {"tool"}}
    \cup {StateCheck(pending) : e \in expect \cap {"none pending"}}
    \cup (IF r.how = "stuck" THEN {"wrong"} ELSE {})

TurnOutcome(checks) ==
    IF "action" \in checks THEN "action_failed"
    ELSE IF "wrong" \in checks THEN "fail"
    ELSE IF "right" \in checks THEN "pass" ELSE "unjudged"

\* Mutant: canned answers are judged as the model's.
VerdictOfText(expect, r, pending) ==
    LET checks == Checks(expect, r, pending)
    IN  IF r.how \in {"raised", "notrun"} THEN "error"
        ELSE IF r.blind /\ "vision" \in raw.requires THEN "skipped"
        ELSE IF r.lacking /\ checks \cap {"wrong", "action"} # {} THEN "skipped"
        ELSE TurnOutcome(checks)
Verdict(expect, r, pending) ==
    LET checks == Checks(expect, r, pending)
    IN  IF r.how \in {"raised", "infra", "notrun"} THEN "error"
        ELSE IF r.blind /\ "vision" \in raw.requires THEN "skipped"
        ELSE IF r.lacking /\ checks \cap {"wrong", "action"} # {} THEN "skipped"
        ELSE TurnOutcome(checks)

\* combine(): the first of PRECEDENCE, turns without checks left aside
Combine(outcomes) ==
    LET checked == IF outcomes = {"unjudged"} THEN outcomes ELSE outcomes \ {"unjudged"}
        Precedence == <<"error", "action_failed", "fail", "skipped", "unjudged", "pass">>
    IN  Precedence[Min({i \in DOMAIN Precedence : Precedence[i] \in checked})]

-----------------------------------------------------------------------------
(* An attempt begins *)

MessageIds(made) == {made[i].id : i \in DOMAIN made}
OwnDates(s) == \/ s.time # Unset
               \/ \E i \in DOMAIN s.messages : s.messages[i].date # Unset
               \/ \E t \in DOMAIN s.turns :
                     \/ s.turns[t].date # Unset
                     \/ \E i \in DOMAIN s.turns[t].before : s.turns[t].before[i].date # Unset
OwnIds(s) == \/ \E i \in DOMAIN s.messages : s.messages[i].id # Unset
             \/ \E t \in DOMAIN s.turns :
                   \/ s.turns[t].id # Unset
                   \/ \E i \in DOMAIN s.turns[t].before : s.turns[t].before[i].id # Unset

\* Sandbox(), setup(): the clock begins with the conversation, or goes on.
\* Mutant: the bot's IDs begin anew.
FirstBotIdAnew(made, kept) == BotBase
FirstBotId(made, kept) ==
    Max({BotBase, Max(MessageIds(made) \cup {kept.maxId}) + BotGap, kept.nextBot})

Kept == IF saved = NotStarted
        THEN [clock |-> 0, maxId |-> 0, nextBot |-> 0, lastAnswer |-> Unset] ELSE saved

\* _seed_state(), of a conversation that begins
Seeded(s) == {[due |-> due, next |-> 0] : due \in s.reminders}

\* run(): a scenario that needs what this version lacks is not played.
Opens(s, made) ==
    LET spoken == {i \in DOMAIN made : made[i].turn = Unset /\ \A j \in 1 .. i : made[j].turn = Unset}
        earliest == IF spoken = {} THEN made[1].date
                    ELSE Min({made[i].date : i \in spoken})
    IN  /\ raw' = s /\ script' = made /\ pos' = 1 /\ turns' = << >>
        /\ played' = played + 1
        /\ IF "web_search" \in s.requires
           THEN /\ stage' = "over" /\ outcome' = "skipped" /\ saved' = NotStarted
                /\ UNCHANGED <<clock, nextBot, reminders, lastAnswer>>
           ELSE /\ stage' = "playing" /\ outcome' = ""
                /\ reminders' = IF played = 0 /\ made[1].turn = 1 THEN Seeded(s)
                                ELSE reminders
                /\ clock' = IF saved = NotStarted THEN earliest ELSE saved.clock
                /\ nextBot' = FirstBotId(made, Kept)
                /\ lastAnswer' = IF Kept.lastAnswer \in DOMAIN chat THEN Kept.lastAnswer ELSE Unset
                /\ UNCHANGED saved
        /\ dated' = (dated \/ OwnDates(s))
        /\ named' = (named \/ (saved # NotStarted /\ OwnIds(s)))
        /\ UNCHANGED <<chat, heard>>

Refused(s) ==
    /\ raw' = s /\ stage' = "over" /\ outcome' = "skipped" /\ played' = played + 1
    /\ saved' = NotStarted
    /\ UNCHANGED <<script, pos, clock, chat, heard, reminders, nextBot, lastAnswer, turns,
                   dated, named>>

\* _run_attempt(): the first of a conversation
Begin(s) ==
    /\ stage = "idle"
    /\ LET b == ParseScenario(s, 1, s.time)
       IN  IF b.ok THEN Opens(s, b.made) ELSE Refused(s)

\* _scenario_for(): IDs go on after those stored, the time after the last turn.
FirstId(k) == k.maxId + 1
Continue(s) ==
    /\ stage = "over" /\ saved # NotStarted /\ played < MaxPlayed
    /\ LET time == IF s.time = Unset /\ s.turns[1].date = Unset
                   THEN saved.clock + 2 * Minute ELSE s.time
           b == ParseScenario(s, FirstId(saved), time)
       IN  IF b.ok THEN Opens(s, b.made) ELSE Refused(s)

-----------------------------------------------------------------------------
(* The conversation goes on *)

Coming == script[pos]
RawTurnAt(m) == raw.turns[m.turn]
Due(until) == {r \in reminders : r.due <= until}

\* _deliver_reminders(), one round: the clock moves to the first due, and
\* send_due() sends those whose time has come, unless they failed just now.
Sendable(at) == {r \in reminders : r.due <= at /\ r.next <= at}
DeliverReminders ==
    /\ stage = "playing" /\ pos <= Len(script) /\ Due(Coming.date) # {}
    /\ LET at == Later(Min({r.due : r \in Due(Coming.date)}))
           sendable == Sendable(at)
       IN  /\ clock' = at
           /\ CASE raw.simulate = "works" ->
                     /\ SendsMessages(Cardinality(sendable), at)
                     /\ reminders' = reminders \ sendable
                [] OTHER ->
                     /\ reminders' = (reminders \ sendable)
                            \cup {[r EXCEPT !.next = at + RetryBase] :
                                     r \in {s \in sendable : raw.simulate \in Passing}}
                     /\ UNCHANGED <<chat, heard, nextBot>>
    /\ UNCHANGED <<raw, script, pos, stage, lastAnswer, turns, outcome, saved, played, dated,
                   named>>

\* The last of the messages before the first turn: the state is seeded after.
SetupEnds == pos < Len(script) /\ script[pos + 1].turn = 1

\* _receive(): a message arrives.
Receive ==
    /\ stage = "playing" /\ pos <= Len(script) /\ Coming.turn = Unset /\ Due(Coming.date) = {}
    /\ clock' = Later(Coming.date)
    /\ chat' = Stored(chat, Coming.id, Coming.date, Coming.bot) /\ heard' = heard + 1
    /\ pos' = pos + 1
    /\ reminders' = IF SetupEnds /\ played = 1 THEN reminders \cup Seeded(raw) ELSE reminders
    /\ UNCHANGED <<raw, script, stage, nextBot, lastAnswer, turns, outcome, saved, played,
                   dated, named>>

\* run_turn(): a catch-up is not stored.
Ask ==
    /\ stage = "playing" /\ pos <= Len(script) /\ Coming.turn # Unset /\ Due(Coming.date) = {}
    /\ clock' = Later(Coming.date)
    /\ IF RawTurnAt(Coming).command = "catchup" THEN UNCHANGED <<chat, heard>>
       ELSE chat' = Stored(chat, Coming.id, Coming.date, FALSE) /\ heard' = heard + 1
    /\ stage' = "asking"
    /\ UNCHANGED <<raw, script, pos, reminders, nextBot, lastAnswer, turns, outcome, saved,
                   played, dated, named>>

\* tg_message(), _tg(): what a message replies to, if that was stored
Target(m) == LET to == IF RawTurnAt(m).answer /\ lastAnswer # Unset THEN lastAnswer ELSE m.to
             IN  {to} \cap DOMAIN chat

\* _addressed(): whether the turn is one for the bot
Addressed(m) == RawTurnAt(m).mention \/ \E to \in Target(m) : chat[to].bot

\* _answer(), _command(): the run, and the sending of its answer.  An answer
\* that cannot be sent is an error.
Answered(t, a) ==
    LET texts == {"answer", "infra", "stuck"}
        quiet == t.command = "" /\ "silence" \in t.expect /\ ~Addressed(Coming)
        how == IF quiet THEN "not addressed"
               ELSE IF t.command = "usage"
               THEN (IF raw.simulate = "works" THEN "usage" ELSE "raised")
               ELSE IF a.how \in texts /\ t.command # "catchup" /\ raw.simulate # "works"
               THEN "raised" ELSE a.how
    IN  [how |-> how, fits |-> a.fits, needed |-> a.needed, blind |-> a.blind,
         lacking |-> a.lacking, sent |-> how \in texts \cup {"usage"}, outcome |-> "unjudged"]

\* What a reply to the answer goes to: not to a usage text, and not to one
\* only the asker saw.
LastAnswer(t, r) ==
    IF r.sent /\ r.how # "usage" /\ t.command # "catchup" THEN nextBot ELSE lastAnswer

\* A usage text takes an ID, and is not stored.
AnswerTurn(a) ==
    /\ stage = "asking"
    /\ LET t == RawTurnAt(Coming)
           r == Answered(t, a)
           ran == r.how \in Hows \ {"notrun"}
           set == IF ran /\ a.sets # 0 /\ Cardinality(reminders) < MaxReminders
                  THEN {[due |-> clock + a.sets, next |-> 0]} ELSE {}
           result == [r EXCEPT !.outcome = Verdict(t.expect, r, reminders \cup set)]
           said == r.sent /\ t.command # "catchup"
       IN  /\ turns' = Append(turns, result)
           /\ reminders' = reminders \cup set
           /\ IF r.how = "usage" THEN nextBot' = nextBot + 1 /\ UNCHANGED <<chat, heard>>
              ELSE SendsMessages(IF said THEN 1 ELSE 0, clock)
           /\ lastAnswer' = LastAnswer(t, r)
           /\ stage' = IF result.outcome = "error" \/ pos = Len(script)
                       THEN "ending" ELSE "playing"
    /\ pos' = pos + 1
    /\ UNCHANGED <<raw, script, clock, outcome, saved, played, dated, named>>

\* run(), save(): the attempt's outcome, and the state a continuation needs
AttemptOutcome ==
    Combine({turns[i].outcome : i \in DOMAIN turns}
            \cup IF Len(turns) < Len(raw.turns) THEN {"error"} ELSE {})
Finish ==
    /\ stage = "ending"
    /\ outcome' = AttemptOutcome /\ stage' = "over"
    /\ saved' = [clock |-> clock, maxId |-> Max(DOMAIN chat \cup {0}), nextBot |-> nextBot,
                 lastAnswer |-> lastAnswer]
    /\ UNCHANGED <<raw, script, pos, clock, chat, heard, reminders, nextBot, lastAnswer, turns,
                   played, dated, named>>

SandboxNext ==
    \/ \E s \in Played : Begin(s)
    \/ \E s \in Continuations : Continue(s)
    \/ DeliverReminders \/ Receive \/ Ask
    \/ \E a \in Answers : AnswerTurn(a)
    \/ Finish

SandboxSpec == SandboxInit /\ [][SandboxNext]_sandboxVars

\* The task of the attempt goes on, and every run of the agent ends.
SandboxFairness == WF_sandboxVars(DeliverReminders \/ Receive \/ Ask \/ Finish
                                   \/ \E a \in Answers : AnswerTurn(a))
FairSandbox == SandboxSpec /\ SandboxFairness

-----------------------------------------------------------------------------
(* Properties *)

\* No message takes another's ID, over all attempts of a conversation:
\* what was said is what the model reads later, unless a scenario that
\* continues another names IDs itself.
NothingIsOverwritten == ~named => Cardinality(DOMAIN chat) = heard

\* A turn is answered at its own time, when all that was due by then has
\* been sent: "now" in the prompt fits the chat it shows, unless a scenario
\* gives dates of its own.
AnsweredInItsTime ==
    stage = "asking" /\ ~dated => clock = Coming.date /\ \A r \in reminders : r.due > clock

\* The chat a model reads in a sandbox is what was said there by then.
ChatIsTrue == SandboxTypeOK /\ NothingIsOverwritten /\ AnsweredInItsTime

\* A candidate does not look better because less was evaluated, nor worse
\* because the model server failed: an attempt passes when every turn was
\* played to an end of its own and one of them was checked, and fails by
\* the model's answers alone.
OutcomeIsTheModels ==
    stage = "over" /\ turns # << >> =>
        /\ outcome = "pass" =>
              /\ Len(turns) = Len(raw.turns)
              /\ \A i \in DOMAIN turns :
                    /\ turns[i].how \in {"answer", "silent", "usage", "not addressed"}
                    /\ "tool" \in raw.turns[i].expect => turns[i].needed = "done"
                    /\ "text" \in raw.turns[i].expect => turns[i].fits
              /\ \E i \in DOMAIN turns : raw.turns[i].expect # {}
        /\ outcome \in {"fail", "action_failed"} =>
              \A i \in DOMAIN turns : turns[i].how \notin {"infra", "notrun", "raised"}
        /\ (\E i \in DOMAIN turns : turns[i].outcome \in {"fail", "action_failed"})
              => outcome # "pass"
=============================================================================
