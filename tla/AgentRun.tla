------------------------------- MODULE AgentRun -------------------------------
(***************************************************************************)
(* One run of the agent (naruto/agent/runner.py): the model is asked, its  *)
(* tool calls run, and it is asked again, until it answers or a limit is   *)
(* reached.  A run is a record, and each operator below is the code        *)
(* between two waits: for the model or for Telegram.                       *)
(*                                                                         *)
(* What a request says is left out, and of a result is kept whether its    *)
(* text answers, claims something was done, is internal JSON or is empty.  *)
(***************************************************************************)
EXTENDS Integers, Sequences

CONSTANTS MaxRequests,    \* agent.max_model_requests
          MaxToolCalls    \* agent.max_tool_calls

ASSUME AgentRunAssumption == MaxRequests \in Nat \ {0} /\ MaxToolCalls \in Nat

None == "none"

\* The tools, by what they do: read further back in the chat (search_chat),
\* post (update_board, create_poll), pin, unpin or delete messages, act without
\* Telegram (set_reminder, remember), hand over (use_skill).
ToolNames == {"read", "board", "poll", "pin", "act", "use_skill"}
Reading == {"read"}
Posting == {"board", "poll"}

\* Where a run waits for Telegram: update_board shows the board, then mentions
\* who is asked something in a message of its own.
Calling == {"board", "ping", "poll", "pin"}

\* What each skill may call; "plan" stands for the skills banter hands over to.
Tools == [banter |-> ToolNames, plan |-> {"read", "board", "poll", "pin"},
          catchup |-> {"read"}]
Skills == DOMAIN Tools

Texts == {None, "answer", "claim", "json"}
Result == [text : Texts, calls : Seq(ToolNames)]
Stages == {None, "reading", "writing"}

\* How a run ends.  With a fallback the group reads a canned text.
Fallbacks == {"stuck", "failed", "busy", "deadline"}
Ends == {"answer", "silent", "notrun", "stopped", "raised"} \cup Fallbacks

Run == [at : {"asked", "again", "calls"} \cup Calling \cup Ends,
        skill : Skills,
        requests : 0 .. MaxRequests + 1,
        max : {MaxRequests, MaxRequests + 1},
        calls : Seq(ToolNames),       \* those of the last result still to run
        tools : 0 .. MaxToolCalls,
        done : SUBSET ToolNames,      \* actions: what the run did
        posted : BOOLEAN,             \* some of it since these calls began
        to : Skills \cup {None},      \* switch_to_skill
        switching : BOOLEAN, switched : BOOLEAN,
        checked : BOOLEAN, read : BOOLEAN,
        wanted : BOOLEAN,             \* the last result called tools
        text : Texts,
        stage : Stages]               \* the latest one reported for this skill

Ended(a) == a.at \in Ends
LastRequest(a) == a.requests >= a.max

\* The next request starts; a stage is reported to the progress message.
Request(a, stage) ==
    [a EXCEPT !.at = "asked", !.requests = @ + 1,
              !.stage = IF stage = None THEN @ ELSE stage,
              !.text = None, !.wanted = FALSE, !.switching = FALSE, !.read = FALSE,
              !.posted = FALSE]

Begin(skill) ==
    Request([at |-> "asked", skill |-> skill, requests |-> 0, max |-> MaxRequests,
             calls |-> << >>, tools |-> 0, done |-> {}, posted |-> FALSE, to |-> None,
             switching |-> FALSE, switched |-> FALSE, checked |-> FALSE,
             read |-> FALSE, wanted |-> FALSE, text |-> None, stage |-> None], None)

-----------------------------------------------------------------------------
(* The answer *)

\* What the run comes to once no more is asked.  Silence is for a run that
\* did not look for anything, or has done something.
\* Mutant: an empty answer is silence, whatever was wanted.
FinishQuietly(a, posted) ==
    [a EXCEPT !.at = CASE a.text = "json" -> "stuck"
                       [] a.text = None -> "silent"
                       [] OTHER -> "answer"]
Finish(a, posted) ==
    [a EXCEPT !.at = CASE a.text = "json" -> "stuck"
                       [] a.text = None ->
                            IF (a.wanted /\ ~posted) \/ (a.tools > 0 /\ a.done = {})
                            THEN "stuck" ELSE "silent"
                       [] OTHER -> "answer"]

\* An answer in a background request's JSON format is asked for once more.
Answer(a, posted) ==
    IF a.text = "json" /\ ~a.wanted /\ a.requests < a.max
    THEN [a EXCEPT !.at = "again", !.requests = @ + 1]
    ELSE Finish(a, posted)

-----------------------------------------------------------------------------
(* The model's result *)

Received(a, r) == [a EXCEPT !.text = r.text, !.wanted = r.calls # << >>]

\* missing_actions(): the answer claims what no successful call did.
Missing(a) == a.text = "claim" /\ "act" \in Tools[a.skill] \ a.done

\* A call that still runs: on the last request only one that posts.
Runnable(a, tool) == LastRequest(a) => tool \in Posting

\* What follows the model's result.
AfterResult(a, r) ==
    LET b == Received(a, r)
        mayCheck == ~b.wanted /\ ~b.checked /\ b.requests + 2 <= b.max
        c == [b EXCEPT !.checked = @ \/ mayCheck]
        runnable == {i \in DOMAIN r.calls : Runnable(b, r.calls[i])}
    IN  IF b.at = "again" THEN Finish(b, FALSE)
        ELSE IF mayCheck /\ Missing(b) THEN Request(c, None)
        ELSE IF runnable = {} THEN Answer(c, FALSE)
        ELSE [c EXCEPT !.at = "calls", !.calls = r.calls, !.posted = FALSE, !.read = FALSE,
                       !.switching = /\ ~b.switched
                                     /\ \E i \in runnable : r.calls[i] = "use_skill"]

-----------------------------------------------------------------------------
(* Tool calls *)

\* actions grows.
Did(a, tool) == [a EXCEPT !.done = @ \cup {tool}, !.posted = TRUE]

\* execute(): an unknown tool is an error, and so is what is refused for its
\* arguments or a full board.  A change of the board counts as soon as it is
\* saved, what else waits for Telegram when it is done.
Execute(a, tool) ==
    IF tool \notin Tools[a.skill] THEN a
    ELSE CASE tool = "read" -> a
           [] tool = "act" -> Did(a, tool)
           [] tool = "board" -> [Did(a, tool) EXCEPT !.at = "board"]
           [] tool \in {"poll", "pin"} -> [a EXCEPT !.at = tool]
           [] tool = "use_skill" -> IF LastRequest(a) THEN a ELSE [a EXCEPT !.to = "plan"]

\* One call.  The chat is looked up before each.
Call(a, tool, enabled) ==
    LET b == [a EXCEPT !.calls = Tail(@)]
    IN  IF ~Runnable(a, tool) THEN b
        ELSE IF ~enabled THEN [a EXCEPT !.at = "stopped"]
        ELSE IF (a.switching /\ tool # "use_skill") \/ a.tools >= MaxToolCalls THEN b
        ELSE Execute([b EXCEPT !.tools = @ + 1,
                               !.read = @ \/ tool \in Reading,
                               !.stage = IF tool \in Reading THEN "reading" ELSE @], tool)

\* The calls up to one that waits.
Calls(a, enabled) ==
    LET after[i \in 0 .. Len(a.calls)] ==
            IF i > 0 /\ after[i - 1].at = "calls" THEN Call(after[i - 1], a.calls[i], enabled)
            ELSE IF i > 0 THEN after[i - 1] ELSE a
    IN  after[Len(a.calls)]

\* The hand-over to another skill does not use up a request.
HandOver(a) ==
    Request([a EXCEPT !.switched = TRUE, !.max = @ + 1, !.skill = a.to,
                      !.to = None, !.stage = None], None)

AfterCalls(a) ==
    IF LastRequest(a) THEN Answer(a, a.posted)
    ELSE IF a.to # None /\ ~a.switched THEN HandOver(a)
    ELSE LET lastCall == a.requests + 1 >= a.max \/ a.tools >= MaxToolCalls
         IN  Request(a, IF lastCall \/ ~a.read THEN "writing" ELSE None)

\* A run from here to its next wait.
Continue(a, enabled) ==
    IF a.at # "calls" THEN a
    ELSE LET b == Calls(a, enabled)
         IN  IF b.at = "calls" THEN AfterCalls(b) ELSE b

\* What a tool may go on to when Telegram has answered.  The board takes as
\* many calls as edits, formats, the upgrade and the pin make necessary (Board
\* has them), and what fails there is no error of the tool; the chat is not
\* looked up between them.  A poll, a pin or a deletion that is refused is one.
\* Mutant: a poll counts as soon as it is asked for.
AnsweredAnyway(a, ok) ==
    LET next == [a EXCEPT !.at = "calls"]
    IN  CASE a.at = "board" -> {a, [a EXCEPT !.at = "ping"], next}
          [] a.at = "ping" -> {next}
          [] a.at \in {"poll", "pin"} -> {Did(next, a.at)}
Answered(a, ok) ==
    LET next == [a EXCEPT !.at = "calls"]
    IN  CASE a.at = "board" -> {a, [a EXCEPT !.at = "ping"], next}
          [] a.at = "ping" -> {next}
          [] a.at \in {"poll", "pin"} -> {IF ok THEN Did(next, a.at) ELSE next}

-----------------------------------------------------------------------------
(* What else ends a run *)

Waits(a) == a.at \in {"asked", "again"} \cup Calling

\* A request that failed, was refused as the queue is full, or was cancelled.
\* The deadline may come at any wait; a tool's exception is a result.
Failed(a, how) == [a EXCEPT !.at = how]
Failures(a) == {"deadline"} \cup
               (IF a.at \in Calling THEN {} ELSE {"failed", "busy", "notrun", "raised"})
=============================================================================
