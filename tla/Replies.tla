------------------------------- MODULE Replies --------------------------------
(***************************************************************************)
(* How the bot answers (naruto/tg/responder.py, tg/progress.py,            *)
(* tg/sending.py, tg/skill_commands.py): a request waits for the chat's    *)
(* lock, the agent runs, and its answer is sent.  A slow skill shows a     *)
(* placeholder meanwhile, which two tasks post and edit while the run goes *)
(* on; it is deleted when the answer is in the chat and becomes the error  *)
(* when there is none.  The owner may disable the chat, and the group may  *)
(* be upgraded, at any wait.                                               *)
(*                                                                         *)
(* An action is the code between two waits.  A call of Telegram is done,   *)
(* refused, or done with the answer lost ("unclear").                      *)
(***************************************************************************)
EXTENDS AgentRun

CONSTANTS Triggers,     \* the requests
          SkillOf,      \* the skill each starts with
          Results,      \* what the model may answer
          MaxToggles,   \* bound: how often the chat is disabled or enabled
          MaxUpgrades   \* bound: upgrades of the group, 0 or 1

ASSUME RepliesAssumption ==
    /\ SkillOf \in [Triggers -> Skills]
    /\ Results \subseteq Result
    /\ MaxToggles \in Nat /\ MaxUpgrades \in 0 .. 1

VARIABLES
    job,        \* per request: its handler
    place,      \* per request: the progress message
    said,       \* per request: what the group got in answer
    line,       \* per chat ID: who holds the chat's lock, and who waits for it
    enabled, upgraded, toggles,
    trouble     \* requests Telegram refused something for, or left it unclear

chat == <<enabled, upgraded, toggles>>
vars == <<job, place, said, line, chat, trouble>>

Slow == {"plan"}       \* skills with a placeholder
ChatIds == {"old", "new"}
NoRun == << >>
Private == {"ephemeral", "dm", "group"}
Steps == {"new", "waiting", "running", "stopping", "showing", "sending", "sorry",
          "discarding", "done"} \cup Private

\* What matters of a run once it has ended.  "dropped": not run, or its answer
\* not sent, as the chat was disabled.
Hows == {"answer", "silent", "notrun", "failed", "raised", "dropped"}
How(a) == IF a.at \in Fallbacks THEN "failed" ELSE IF a.at = "stopped" THEN "notrun" ELSE a.at

Job == [at : Steps, key : ChatIds, run : Run \cup {NoRun},
        how : Hows \cup {None}, idle : BOOLEAN]

\* timer: the task that posts the placeholder.  known: its message is
\* remembered.  shown: what the code takes it to show; seen: what it shows.
Place == [timer : {"on", "sending", "over"}, known : BOOLEAN, moved : BOOLEAN,
          shown : Stages \cup {"working"}, editing : Stages,
          seen : Stages \cup {"working", "error", "deleted"}]
Fresh == [timer |-> "over", known |-> FALSE, moved |-> FALSE,
          shown |-> None, editing |-> None, seen |-> None]

RunOK(a) ==
    /\ DOMAIN a = DOMAIN Begin("plan") /\ Waits(a)
    /\ a.requests \in 1 .. a.max /\ a.max \in {MaxRequests, MaxRequests + 1}
    /\ a.tools \in 0 .. MaxToolCalls /\ a.done \subseteq ToolNames
    /\ a.skill \in Skills /\ a.stage \in Stages /\ a.text \in Texts

TypeOK ==
    /\ \A t \in Triggers :
          /\ job[t].at \in Steps /\ job[t].key \in ChatIds
          /\ job[t].how \in Hows \cup {None}
          /\ job[t].run = NoRun \/ RunOK(job[t].run)
    /\ place \in [Triggers -> Place]
    /\ said \in [Triggers -> SUBSET {"answer", "error", "part", "post"}]
    /\ DOMAIN line = ChatIds
    /\ \A k \in ChatIds : \A i \in DOMAIN line[k] : line[k][i] \in Triggers
    /\ enabled \in BOOLEAN /\ upgraded \in BOOLEAN /\ toggles \in 0 .. MaxToggles
    /\ trouble \subseteq Triggers

Init ==
    /\ job = [t \in Triggers |-> [at |-> "new", key |-> "old", run |-> NoRun,
                                  how |-> None, idle |-> FALSE]]
    /\ place = [t \in Triggers |-> Fresh]
    /\ said = [t \in Triggers |-> {}]
    /\ line = [k \in ChatIds |-> << >>]
    /\ enabled = TRUE /\ upgraded = FALSE /\ toggles = 0 /\ trouble = {}

At(t, step) == job[t].at = step
Goes(t, step) == job' = [job EXCEPT ![t].at = step]

\* The handler returns, and the chat's lock goes to the next.
\* Mutant: not after a crash.
ReleaseUnlessRaised(t) ==
    line' = [line EXCEPT ![job[t].key] = IF job[t].how = "raised" THEN @
                                         ELSE Tail(@)]
Release(t) == line' = [line EXCEPT ![job[t].key] = Tail(@)]
GoesAs(t, step, how) ==
    /\ job' = [job EXCEPT ![t] = [@ EXCEPT !.at = step, !.run = NoRun, !.how = how]]
    /\ IF step = "done" THEN Release(t) ELSE UNCHANGED line
GoesOrReturns(t, step) == GoesAs(t, step, job[t].how)

-----------------------------------------------------------------------------
(* A request comes and waits its turn *)

\* on_message(), a command: the lock is that of the chat's ID now.
Arrives(t) ==
    LET key == IF upgraded THEN "new" ELSE "old"
    IN  /\ At(t, "new") /\ enabled
        /\ job' = [job EXCEPT ![t].at = "waiting", ![t].key = key]
        /\ line' = [line EXCEPT ![key] = Append(@, t)]
        /\ UNCHANGED <<place, said, chat, trouble>>

HasLock(t) == line[job[t].key] # << >> /\ Head(line[job[t].key]) = t

\* respond(), catchup(): the chat may have been disabled meanwhile.
Starts(t) ==
    /\ At(t, "waiting") /\ HasLock(t)
    /\ IF enabled
       THEN /\ job' = [job EXCEPT ![t].at = "running", ![t].run = Begin(SkillOf[t])]
            /\ place' = [place EXCEPT ![t].timer = IF SkillOf[t] = "catchup"
                                                   THEN "over" ELSE "on"]
            /\ UNCHANGED line
       ELSE GoesAs(t, "done", "dropped") /\ UNCHANGED place
    /\ UNCHANGED <<said, chat, trouble>>

-----------------------------------------------------------------------------
(* The run goes on *)

\* The run gets this far.  At its end stop() cancels the timer, and a
\* catch-up gives up the lock and is delivered only to who asked.
RunGetsTo(t, a) ==
    IF ~Ended(a) THEN /\ job' = [job EXCEPT ![t].run = a]
                      /\ UNCHANGED <<place, line>>
    ELSE LET idle == a.at = "silent" /\ (a.tools > 0 \/ a.wanted) /\ a.done \subseteq {"poll"}
             dropped == SkillOf[t] = "catchup" /\ ~enabled
             next == IF SkillOf[t] # "catchup" THEN "stopping"
                     ELSE IF enabled /\ a.at # "raised" THEN "ephemeral" ELSE "done"
         IN  /\ job' = [job EXCEPT ![t] = [@ EXCEPT !.at = next, !.run = NoRun,
                                                    !.how = IF dropped THEN "dropped" ELSE How(a),
                                                    !.idle = idle]]
             /\ place' = [place EXCEPT ![t].timer = IF @ = "on" THEN "over" ELSE @]
             /\ IF SkillOf[t] = "catchup" THEN Release(t) ELSE UNCHANGED line

ModelAnswers(t) ==
    /\ At(t, "running") /\ job[t].run.at \in {"asked", "again"}
    /\ \E r \in Results : RunGetsTo(t, Continue(AfterResult(job[t].run, r), enabled))
    /\ UNCHANGED <<said, chat, trouble>>

ToolPosts(t) ==
    /\ At(t, "running") /\ job[t].run.at \in Calling
    /\ \E ok \in BOOLEAN : \E a \in Answered(job[t].run, ok) :
          /\ RunGetsTo(t, Continue(a, enabled))
          /\ said' = [said EXCEPT ![t] = IF ok /\ job[t].run.at # "pin" THEN @ \cup {"post"} ELSE @]
    /\ UNCHANGED <<chat, trouble>>

RunFails(t) ==
    /\ At(t, "running")
    /\ \E how \in Failures(job[t].run) : RunGetsTo(t, Failed(job[t].run, how))
    /\ UNCHANGED <<said, chat, trouble>>

-----------------------------------------------------------------------------
(* The placeholder *)

PlaceholderDue(t) ==
    /\ place[t].timer = "on" /\ job[t].run.skill \in Slow
    /\ place' = [place EXCEPT ![t].timer = "sending"]
    /\ UNCHANGED <<job, said, line, chat, trouble>>

\* Sent to the chat ID of the request: in an upgraded group it is in another.
PlaceholderSent(t) ==
    /\ place[t].timer = "sending"
    /\ \E done \in {"yes", "no", "unclear"} :
          /\ place' = [place EXCEPT ![t] =
                [@ EXCEPT !.timer = "over", !.known = done = "yes",
                          !.moved = upgraded /\ job[t].key = "old",
                          !.shown = IF done = "yes" THEN "working" ELSE None,
                          !.seen = IF done = "no" THEN None ELSE "working"]]
          /\ trouble' = IF done = "unclear" THEN trouble \cup {t} ELSE trouble
    /\ UNCHANGED <<job, said, line, chat>>

\* A stage the placeholder does not show yet is edited in, until the run ends.
StageEdit(t) ==
    LET stage == IF At(t, "running") THEN job[t].run.stage ELSE None
    IN  /\ place[t].known /\ place[t].editing = None
        /\ stage # None /\ stage # place[t].shown
        /\ place' = [place EXCEPT ![t].editing = stage]
        /\ UNCHANGED <<job, said, line, chat, trouble>>

StageEdited(t) ==
    /\ place[t].editing # None
    /\ \E done \in BOOLEAN :
          place' = [place EXCEPT ![t] =
              [@ EXCEPT !.shown = place[t].editing, !.editing = None,
                        !.seen = IF done THEN place[t].editing ELSE place[t].seen]]
    /\ UNCHANGED <<job, said, line, chat, trouble>>

-----------------------------------------------------------------------------
(* The answer *)

\* stop() has waited for what was being sent.
Stopped(t) == place[t].timer # "sending" /\ place[t].editing = None

\* What respond() goes on with: _crashed(), still_enabled(), deliver().
\* Mutant: the chat is not looked up after the run.
AfterRunUnchecked(t) ==
    LET how == job[t].how
        drop == IF place[t].known THEN "discarding" ELSE "done"
    IN  IF how = "raised" THEN (IF ~enabled \/ ~place[t].known THEN drop ELSE "showing")
        ELSE IF how \in {"silent", "notrun"} THEN drop
        ELSE IF how = "failed" /\ place[t].known THEN "showing" ELSE "sending"
AfterRun(t) ==
    LET how == job[t].how
        drop == IF place[t].known THEN "discarding" ELSE "done"
    IN  IF ~enabled \/ (how = "raised" /\ ~place[t].known) THEN drop
        ELSE IF how \in {"silent", "notrun"} THEN drop
        ELSE IF how \in {"failed", "raised"} /\ place[t].known THEN "showing"
        ELSE "sending"

Settles(t) ==
    /\ At(t, "stopping") /\ Stopped(t)
    /\ GoesAs(t, AfterRun(t), IF enabled THEN job[t].how ELSE "dropped")
    /\ UNCHANGED <<place, said, chat, trouble>>

\* show(): the placeholder becomes the error, and is forgotten if that worked.
Shows(t, done, next) ==
    /\ place' = [place EXCEPT ![t] =
          [@ EXCEPT !.known = place[t].known /\ done # "yes",
                    !.seen = IF done = "no" THEN place[t].seen ELSE "error"]]
    /\ said' = [said EXCEPT ![t] = IF done = "no" THEN @ ELSE @ \cup {"error"}]
    /\ trouble' = IF done = "yes" THEN trouble ELSE trouble \cup {t}
    /\ GoesOrReturns(t, IF done = "yes" THEN "done" ELSE next)
    /\ UNCHANGED chat

\* An error that cannot be shown there is sent anew; after a crash it is not.
ShowsError(t) ==
    /\ At(t, "showing")
    /\ \E done \in {"yes", "no", "unclear"} :
          Shows(t, done, IF job[t].how = "raised" THEN "done" ELSE "sending")

\* NOT_SENT_TEXT
SaysSorry(t) ==
    /\ At(t, "sorry")
    /\ \E done \in {"yes", "no", "unclear"} : Shows(t, done, "done")

\* deliver(): a long answer may be refused after its first part.
Sends(t) ==
    /\ At(t, "sending")
    /\ \E done \in {"yes", "no", "part"} :
          LET text == IF job[t].how = "answer" THEN "answer" ELSE "error"
              next == IF ~place[t].known THEN "done"
                      ELSE IF done = "yes" THEN "discarding" ELSE "sorry"
          IN  /\ said' = [said EXCEPT ![t] = CASE done = "yes" -> @ \cup {text}
                                               [] done = "no" -> @
                                               [] done = "part" -> @ \cup {"part"}]
              /\ trouble' = IF done = "yes" \/ place[t].known THEN trouble
                            ELSE trouble \cup {t}
              /\ GoesOrReturns(t, next)
    /\ UNCHANGED <<place, chat>>

\* discard(), delete_sent(): not a message of another chat ID.
Discards(t) ==
    /\ At(t, "discarding")
    /\ \E done \in BOOLEAN :
          /\ place' = [place EXCEPT ![t].known = FALSE,
                                    ![t].seen = IF done /\ ~place[t].moved
                                                THEN "deleted" ELSE @]
          /\ trouble' = IF done THEN trouble ELSE trouble \cup {t}
    /\ GoesOrReturns(t, "done")
    /\ UNCHANGED <<said, chat>>

\* _deliver_privately(): ephemeral, else a message to the user, else the group.
DeliversPrivately(t) ==
    /\ job[t].at \in Private
    /\ \E done \in BOOLEAN :
          LET text == IF job[t].how \in {"answer", "silent"} THEN "answer" ELSE "error"
              next == CASE done \/ At(t, "group") -> "done"
                        [] ~done /\ At(t, "ephemeral") -> "dm"
                        [] ~done /\ At(t, "dm") -> "group"
          IN  /\ Goes(t, next)
              /\ said' = [said EXCEPT ![t] = IF done THEN @ \cup {text} ELSE @]
              /\ trouble' = IF ~done /\ next = "done" THEN trouble \cup {t} ELSE trouble
    /\ UNCHANGED <<place, line, chat>>

-----------------------------------------------------------------------------
(* What happens meanwhile *)

Toggles ==
    /\ toggles < MaxToggles /\ toggles' = toggles + 1 /\ enabled' = ~enabled
    /\ UNCHANGED <<job, place, said, line, upgraded, trouble>>

Upgrades ==
    /\ MaxUpgrades > 0 /\ ~upgraded /\ upgraded' = TRUE
    /\ UNCHANGED <<job, place, said, line, enabled, toggles, trouble>>

Progresses(t) ==
    \/ Starts(t) \/ ModelAnswers(t) \/ ToolPosts(t) \/ RunFails(t)
    \/ PlaceholderSent(t) \/ StageEdited(t)
    \/ Settles(t) \/ ShowsError(t) \/ SaysSorry(t) \/ Sends(t) \/ Discards(t)
    \/ DeliversPrivately(t)

Next ==
    \/ \E t \in Triggers : Arrives(t) \/ PlaceholderDue(t) \/ StageEdit(t) \/ Progresses(t)
    \/ Toggles
    \/ Upgrades

Spec == Init /\ [][Next]_vars

\* Every call of Telegram and of the model ends, a tool makes finitely many,
\* and a run has a deadline.
Fairness ==
    \A t \in Triggers :
        /\ WF_vars(Starts(t))
        /\ WF_vars(ModelAnswers(t) \/ ToolPosts(t) \/ RunFails(t))
        /\ WF_vars(PlaceholderSent(t))
        /\ WF_vars(StageEdited(t))
        /\ WF_vars(\/ Settles(t) \/ ShowsError(t) \/ SaysSorry(t) \/ Sends(t)
                   \/ Discards(t) \/ DeliversPrivately(t))
FairSpec == Spec /\ Fairness

-----------------------------------------------------------------------------
(* Properties *)

Done(t) == At(t, "done")

\* An answered request leaves no "working on it" line: it is deleted, or it
\* shows the error.  Unless Telegram refused or left unclear what it did, or
\* the group was upgraded before the line was posted.
PlaceholderSettled ==
    \A t \in Triggers :
        Done(t) /\ t \notin trouble /\ ~place[t].moved
            => place[t].seen \in {None, "error", "deleted"} /\ ~place[t].known

\* The error a placeholder shows stays there: no stage comes over it.
ErrorsStay ==
    [][\A t \in Triggers : place[t].seen = "error" /\ t \notin trouble
                             => place'[t].seen = "error"]_vars

\* In a chat that was disabled no request, no tool call and no answer is begun,
\* even when the model was already asked.  A call begun before goes on, and the
\* one that shows the board may mention who is asked afterwards: runner.py:231
\* promises more than that.
NothingAfterDisabling ==
    [][~enabled =>
        \A t \in Triggers :
            /\ job'[t].at = "sending" => job[t].at \in {"sending", "showing"}
            /\ job'[t].run # NoRun =>
                 /\ job[t].run # NoRun /\ job'[t].run.tools = job[t].run.tools
                 /\ job'[t].run.at \in Calling
                      => \/ job'[t].run.at = job[t].run.at
                         \/ job'[t].run.at = "ping" /\ job[t].run.at = "board"]_vars

\* Whoever asked gets an answer, an error or a post.  A run that ends silently
\* either called for no tool, so that the model had nothing to say, or it did
\* something else: a reminder, a note, a pin, a change of the board.  A poll
\* that did not come up and what was looked up in vain are no excuse.  Others
\* are that the chat was disabled, the request cancelled, that the run crashed,
\* or that Telegram refused the last word.
NobodyIsIgnored ==
    \A t \in Triggers :
        Done(t) /\ said[t] = {} /\ t \notin trouble
            => \/ job[t].how \in {"dropped", "notrun", "raised"}
               \/ job[t].how = "silent" /\ ~job[t].idle

\* The requests of a chat ID stand in its line, each once, and who is worked on
\* is at its head.
Working == {"running", "stopping", "showing", "sending", "sorry", "discarding"}
InLine(t, k) == \E i \in DOMAIN line[k] : line[k][i] = t
InTurn ==
    /\ \A t \in Triggers : job[t].at \in Working => HasLock(t)
    /\ \A k \in ChatIds, t \in Triggers :
          InLine(t, k) <=> job[t].key = k /\ job[t].at \in Working \cup {"waiting"}
    /\ \A k \in ChatIds : \A i, j \in DOMAIN line[k] : line[k][i] = line[k][j] => i = j

\* One request of the group is worked on at a time.  Two may be if the group was
\* upgraded and they came under its two IDs, whose locks differ: responder.py:3
\* promises more than that.
OneAtATime ==
    \A t, u \in Triggers :
        t # u /\ job[t].at \in Working /\ job[u].at \in Working
            => upgraded /\ job[t].key # job[u].key

\* Every request comes to its end, and the chat's lock to the next.
RequestsEnd == \A t \in Triggers : At(t, "waiting") ~> Done(t)

\* What is over stays over: an error that is shown, and the chat's permission.
EndsAreKept == ErrorsStay /\ NothingAfterDisabling

\* Requests of a chat come one after the other, and nobody who asked is left
\* with silence, or with a line that says the bot is still at work.
RequestsAreSettled ==
    TypeOK /\ InTurn /\ OneAtATime /\ PlaceholderSettled /\ NobodyIsIgnored
=============================================================================
