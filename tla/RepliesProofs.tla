----------------------------- MODULE RepliesProofs -----------------------------
(***************************************************************************)
(* Proofs about Replies, for any requests, results of the model, limits of *)
(* the agent and numbers of toggles: whoever asked is answered or excused, *)
(* no placeholder is left, one request of a chat ID is worked on at a time *)
(* (RequestsAreSettled), an error stays, and no run, call or answer is     *)
(* begun in a disabled chat (EndsAreKept); and about Transcript, for any   *)
(* messages, imports and windows: what is read of them and what is deleted *)
(* (TranscriptIsTrue).                                                     *)
(*                                                                         *)
(* First what the operators of AgentRun make of a run (Fits): its calls    *)
(* are a recursive function, whose steps are followed to the first that    *)
(* would go wrong.  Then, for one request, which steps its handler can be  *)
(* at while a task of its placeholder is under way (Fine), and how the     *)
(* chat's line grows at its end and shrinks at its head (LineFine).  For   *)
(* the transcript: sets in order by rank, what each operation does to the  *)
(* table, and that of the rows of one message only one may be read.        *)
(***************************************************************************)
EXTENDS Replies, Transcript, FiniteSetTheorems, SequenceTheorems, WellFoundedInduction, TLAPS

\* A set of natural numbers that is not empty has a least element.
LEMMA LeastNat ==
    ASSUME NEW S \in SUBSET Nat, S # {}
    PROVE  \E m \in S : \A n \in S : m <= n
<1>1. PICK m \in S : \A n \in S : <<n, m>> \notin OpToRel(<, Nat)
  BY NatLessThanWellFounded, WFMin
<1>2. \A n \in S : ~(n < m)
  BY <1>1 DEF OpToRel
<1> QED BY <1>2

-----------------------------------------------------------------------------
(* The tool calls, one after the other *)

Stepwise(f, a, on, k) ==
    f = [i \in 0 .. k |-> IF i > 0 /\ f[i - 1].at = "calls" THEN Call(f[i - 1], a.calls[i], on)
                          ELSE IF i > 0 THEN f[i - 1] ELSE a]

\* There is such a function, however many calls: the first number for which
\* there were none would follow one for which there is.
LEMMA StepwiseExists ==
    ASSUME NEW a, NEW on, NEW k \in Nat
    PROVE  \E f : Stepwise(f, a, on, k)
<1> DEFINE S == {n \in Nat : ~ \E f : Stepwise(f, a, on, n)}
<1> SUFFICES S = {}
  OBVIOUS
<1> SUFFICES ASSUME S # {} PROVE FALSE
  OBVIOUS
<1>1. PICK n \in S : \A m \in S : n <= m
  <2>1. S \in SUBSET Nat
    OBVIOUS
  <2> HIDE DEF S
  <2> QED BY <2>1, LeastNat
<1>2. CASE n = 0
  <2> DEFINE f == [i \in 0 .. 0 |-> a]
  <2>1. Stepwise(f, a, on, 0)
    BY DEF Stepwise
  <2> QED BY <1>1, <1>2, <2>1
<1>3. CASE n > 0
  <2>1. n - 1 \in Nat /\ n - 1 \notin S
    BY <1>1, <1>3
  <2>2. PICK g : Stepwise(g, a, on, n - 1)
    BY <2>1
  <2> DEFINE x == IF g[n - 1].at = "calls" THEN Call(g[n - 1], a.calls[n], on) ELSE g[n - 1]
             f == [i \in 0 .. n |-> IF i = n THEN x ELSE g[i]]
  <2> HIDE DEF x
  <2>3. \A i \in 0 .. n : f[i] = IF i = n THEN x ELSE g[i]
    OBVIOUS
  <2>4. \A i \in 0 .. (n - 1) :
            g[i] = IF i > 0 /\ g[i - 1].at = "calls" THEN Call(g[i - 1], a.calls[i], on)
                   ELSE IF i > 0 THEN g[i - 1] ELSE a
    BY <2>2, Zenon DEF Stepwise
  <2>5. ASSUME NEW i \in 0 .. n
        PROVE  f[i] = IF i > 0 /\ f[i - 1].at = "calls" THEN Call(f[i - 1], a.calls[i], on)
                      ELSE IF i > 0 THEN f[i - 1] ELSE a
    <3>1. CASE i = n
      <4>1. f[i] = x /\ f[i - 1] = g[n - 1] /\ i > 0
        BY <1>1, <1>3, <2>3, <3>1
      <4> QED BY <4>1, <3>1 DEF x
    <3>2. CASE i # n /\ i > 0
      <4>1. /\ i \in 0 .. (n - 1) /\ i - 1 \in 0 .. n /\ i - 1 # n
        BY <1>1, <3>2
      <4>2. f[i] = g[i] /\ f[i - 1] = g[i - 1]
        BY <2>3, <3>2, <4>1
      <4> QED BY <2>4, <3>2, <4>1, <4>2
    <3>3. CASE i # n /\ ~(i > 0)
      <4>1. i \in 0 .. (n - 1)
        BY <1>1, <3>3
      <4>2. f[i] = g[i]
        BY <2>3, <3>3
      <4> QED BY <2>4, <3>3, <4>1, <4>2
    <3> QED BY <3>1, <3>2, <3>3
  <2>6. f = [i \in 0 .. n |-> f[i]]
    OBVIOUS
  <2> HIDE DEF f
  <2>7. f = [i \in 0 .. n |->
                IF i > 0 /\ f[i - 1].at = "calls" THEN Call(f[i - 1], a.calls[i], on)
                ELSE IF i > 0 THEN f[i - 1] ELSE a]
    BY <2>5, <2>6
  <2>8. Stepwise(f, a, on, n)
    BY <2>7 DEF Stepwise
  <2> QED BY <1>1, <2>8
<1> QED BY <1>1, <1>2, <1>3

\* Calls() is the last of these steps.
LEMMA CallsAreStepwise ==
    ASSUME NEW a, NEW on, Len(a.calls) \in Nat
    PROVE  \E f : Stepwise(f, a, on, Len(a.calls)) /\ Calls(a, on) = f[Len(a.calls)]
<1> DEFINE n == Len(a.calls)
           after[i \in 0 .. n] ==
               IF i > 0 /\ after[i - 1].at = "calls" THEN Call(after[i - 1], a.calls[i], on)
               ELSE IF i > 0 THEN after[i - 1] ELSE a
<1>1. after = CHOOSE f : f = [i \in 0 .. n |->
                IF i > 0 /\ f[i - 1].at = "calls" THEN Call(f[i - 1], a.calls[i], on)
                ELSE IF i > 0 THEN f[i - 1] ELSE a]
  BY Zenon
<1>2. Calls(a, on) = after[n]
  BY Zenon DEF Calls
<1> HIDE DEF after
<1>3. \E f : f = [i \in 0 .. n |->
                IF i > 0 /\ f[i - 1].at = "calls" THEN Call(f[i - 1], a.calls[i], on)
                ELSE IF i > 0 THEN f[i - 1] ELSE a]
  <2>1. \E f : Stepwise(f, a, on, n)
    BY StepwiseExists
  <2> QED BY <2>1, Zenon DEF Stepwise
<1>4. after = [i \in 0 .. n |->
                IF i > 0 /\ after[i - 1].at = "calls" THEN Call(after[i - 1], a.calls[i], on)
                ELSE IF i > 0 THEN after[i - 1] ELSE a]
  BY <1>1, <1>3, Zenon
<1> QED BY <1>2, <1>4, Zenon DEF Stepwise

-----------------------------------------------------------------------------
(* A run between two waits *)

\* What a run is at every step: within its limits, and silent only if it did
\* something or called for nothing.
Fits(a) ==
    /\ a \in Run
    /\ a.max = IF a.switched THEN MaxRequests + 1 ELSE MaxRequests
    /\ a.requests \in 1 .. a.max
    /\ a.posted => a.done # {}
    /\ a.at = "silent" /\ (a.tools > 0 \/ a.wanted) => a.done # {}

\* From one of its states to another a run began no call and did nothing, or
\* no call in a disabled chat and nothing that is done only when Telegram agrees.
Same(a, b) == b.done = a.done /\ b.tools = a.tools
Begun(a, b, on) ==
    /\ "poll" \in b.done => "poll" \in a.done
    /\ ~on => b.tools = a.tools

LEMMA BeginFits ==
    ASSUME NEW skill \in Skills
    PROVE  Fits(Begin(skill)) /\ Begin(skill).at = "asked" /\ Begin(skill).done = {}
<1>1. MaxRequests \in Nat /\ MaxRequests > 0 /\ MaxToolCalls \in Nat
  BY AgentRunAssumption
<1>2. << >> \in Seq(ToolNames)
  OBVIOUS
<1> DEFINE first == [at |-> "asked", skill |-> skill, requests |-> 0, max |-> MaxRequests,
             calls |-> << >>, tools |-> 0, done |-> {}, posted |-> FALSE, to |-> None,
             switching |-> FALSE, switched |-> FALSE, checked |-> FALSE,
             read |-> FALSE, wanted |-> FALSE, text |-> None, stage |-> None]
<1>3. first \in Run
  BY <1>1, <1>2 DEF Run, None, Texts, Stages
<1>4. Begin(skill) = [first EXCEPT !.requests = 1]
  <2>1. Begin(skill) =
          [first EXCEPT !.at = "asked", !.requests = first.requests + 1,
                        !.stage = first.stage, !.text = None, !.wanted = FALSE,
                        !.switching = FALSE, !.read = FALSE, !.posted = FALSE]
    BY DEF Begin, Request
  <2>2. /\ first.at = "asked" /\ first.requests + 1 = 1 /\ first.text = None
        /\ first.wanted = FALSE /\ first.switching = FALSE /\ first.read = FALSE
        /\ first.posted = FALSE
    OBVIOUS
  <2> HIDE DEF first
  <2> QED BY <1>3, <2>1, <2>2 DEF Run
<1>5. first.max = MaxRequests /\ first.switched = FALSE /\ first.done = {} /\ first.tools = 0
      /\ first.at = "asked" /\ first.posted = FALSE
  OBVIOUS
<1> HIDE DEF first
<1>6. 1 \in 0 .. MaxRequests + 1
  BY <1>1
<1>7. Begin(skill) \in Run
  BY <1>1, <1>3, <1>4, <1>6 DEF Run
<1> QED BY <1>1, <1>3, <1>4, <1>5, <1>7 DEF Fits, Run

LEMMA RequestFits ==
    ASSUME NEW a, Fits(a), a.requests < a.max, NEW given \in Stages
    PROVE  /\ Fits(Request(a, given)) /\ Request(a, given).at = "asked"
           /\ Same(a, Request(a, given))
<1>1. MaxRequests \in Nat /\ MaxRequests > 0 /\ MaxToolCalls \in Nat
  BY AgentRunAssumption
<1>2. a.max \in Nat /\ a.requests \in Nat /\ a.requests + 1 \in 1 .. a.max
      /\ a.requests + 1 \in 0 .. MaxRequests + 1
  BY <1>1 DEF Fits
<1> DEFINE st == IF given = None THEN a.stage ELSE given
<1>3. st \in Stages
  BY DEF Fits, Run
<1>4. Request(a, given) =
        [a EXCEPT !.at = "asked", !.requests = a.requests + 1, !.stage = st, !.text = None,
                  !.wanted = FALSE, !.switching = FALSE, !.read = FALSE, !.posted = FALSE]
  BY DEF Request
<1> HIDE DEF st
<1>5. a \in Run /\ None \in Texts
  BY <1>1 DEF Fits, Texts
<1> HIDE DEF None
<1>6. Request(a, given) \in Run
  BY <1>1, <1>2, <1>3, <1>4, <1>5 DEF Run
<1>7. Same(a, Request(a, given))
  BY <1>4, <1>5 DEF Run, Same
<1>8. Fits(Request(a, given)) /\ Request(a, given).at = "asked"
  BY <1>1, <1>2, <1>4, <1>5, <1>6 DEF Fits, Run
<1> QED BY <1>7, <1>8

LEMMA FinishFits ==
    ASSUME NEW a, Fits(a), NEW posted \in BOOLEAN, posted => a.done # {}
    PROVE  /\ Fits(Finish(a, posted)) /\ Same(a, Finish(a, posted))
           /\ Finish(a, posted).at \in {"stuck", "silent", "answer"}
<1>1. MaxRequests \in Nat /\ MaxToolCalls \in Nat /\ a \in Run
  BY AgentRunAssumption DEF Fits
<1>2. PICK how \in {"stuck", "silent", "answer"} :
          /\ Finish(a, posted) = [a EXCEPT !.at = how]
          /\ how = "silent" /\ (a.tools > 0 \/ a.wanted) => a.done # {}
  BY DEF Finish
<1>3. how \in Ends
  BY <1>2 DEF Ends, Fallbacks
<1>4. [a EXCEPT !.at = how] \in Run
  BY <1>1, <1>3 DEF Run
<1> QED BY <1>1, <1>2, <1>4 DEF Fits, Run, Same

LEMMA AnswerFits ==
    ASSUME NEW a, Fits(a), NEW posted \in BOOLEAN, posted => a.done # {}
    PROVE  /\ Fits(Answer(a, posted)) /\ Same(a, Answer(a, posted))
           /\ Answer(a, posted).at \in {"again", "stuck", "silent", "answer"}
<1>1. MaxRequests \in Nat /\ MaxToolCalls \in Nat /\ a \in Run
  BY AgentRunAssumption DEF Fits
<1>2. CASE a.text = "json" /\ ~a.wanted /\ a.requests < a.max
  <2>1. Answer(a, posted) = [a EXCEPT !.at = "again", !.requests = @ + 1]
    BY <1>2 DEF Answer
  <2>2. a.requests + 1 \in 1 .. a.max /\ a.requests + 1 \in 0 .. MaxRequests + 1
    BY <1>1, <1>2 DEF Fits
  <2>3. [a EXCEPT !.at = "again", !.requests = @ + 1] \in Run
    BY <1>1, <2>2 DEF Run
  <2> QED BY <1>1, <2>1, <2>2, <2>3 DEF Fits, Run, Same
<1>3. CASE ~(a.text = "json" /\ ~a.wanted /\ a.requests < a.max)
  BY <1>3, FinishFits DEF Answer
<1> QED BY <1>2, <1>3

LEMMA ReceivedFits ==
    ASSUME NEW a, Fits(a), a.at \in {"asked", "again"}, NEW r \in Result
    PROVE  /\ Fits(Received(a, r)) /\ Received(a, r).at = a.at
           /\ Same(a, Received(a, r))
<1>1. MaxRequests \in Nat /\ MaxToolCalls \in Nat /\ a \in Run
  BY AgentRunAssumption DEF Fits
<1>2. r.text \in Texts /\ (r.calls # << >>) \in BOOLEAN
  BY DEF Result
<1>3. Received(a, r) \in Run
  BY <1>1, <1>2, Zenon DEF Received, Run
<1> QED BY <1>1, <1>2, <1>3 DEF Fits, Run, Received, Same

\* What follows a result: another request, the tool calls, or an end.
LEMMA AfterResultFits ==
    ASSUME NEW a, Fits(a), a.at \in {"asked", "again"}, NEW r \in Result
    PROVE  LET b == AfterResult(a, r)
           IN  /\ Fits(b) /\ Same(a, b)
               /\ b.at \in {"asked", "again", "calls", "stuck", "silent", "answer"}
<1> DEFINE b == Received(a, r)
           mayCheck == ~b.wanted /\ ~b.checked /\ b.requests + 2 <= b.max
           c == [b EXCEPT !.checked = @ \/ mayCheck]
           runnable == {i \in DOMAIN r.calls : Runnable(b, r.calls[i])}
           sw == /\ ~b.switched /\ \E i \in runnable : r.calls[i] = "use_skill"
           e == [c EXCEPT !.at = "calls", !.calls = r.calls, !.posted = FALSE,
                          !.read = FALSE, !.switching = sw]
<1>1. MaxRequests \in Nat /\ MaxToolCalls \in Nat /\ a \in Run
  BY AgentRunAssumption DEF Fits
<1>2. Fits(b) /\ b \in Run /\ Same(a, b)
  BY ReceivedFits DEF Fits
<1>3. r.calls \in Seq(ToolNames)
  BY DEF Result
<1> HIDE DEF b
<1>4. Fits(c) /\ (mayCheck => c.requests < c.max) /\ Same(a, c)
  <2>1. (b.checked \/ mayCheck) \in BOOLEAN
    BY <1>2, Zenon DEF Run
  <2> DEFINE m == b.checked \/ mayCheck
  <2>2. c = [b EXCEPT !.checked = m]
    OBVIOUS
  <2> HIDE DEF m
  <2>3. c \in Run
    BY <1>2, <2>1, <2>2 DEF Run, m
  <2>4. Fits(c) /\ c.requests = b.requests /\ c.max = b.max /\ Same(a, c)
    BY <1>2, <2>2, <2>3 DEF Fits, Run, Same
  <2> QED BY <1>1, <1>2, <2>4 DEF Fits
<1>5. Fits(e) /\ e.at = "calls" /\ Same(a, e)
  <2>1. sw \in BOOLEAN
    OBVIOUS
  <2>2. c \in Run
    BY <1>4 DEF Fits
  <2> HIDE DEF c, sw
  <2>3. e \in Run
    BY <1>3, <2>1, <2>2 DEF Run
  <2> QED BY <1>4, <2>2, <2>3 DEF Fits, Run, Same
<1>6. AfterResult(a, r) =
        IF b.at = "again" THEN Finish(b, FALSE)
        ELSE IF mayCheck /\ Missing(b) THEN Request(c, None)
        ELSE IF runnable = {} THEN Answer(c, FALSE)
        ELSE e
  BY DEF AfterResult, b
<1> HIDE DEF c, e, mayCheck, runnable
<1>7. /\ Fits(Finish(b, FALSE)) /\ Finish(b, FALSE).at \in {"stuck", "silent", "answer"}
      /\ Same(a, Finish(b, FALSE))
  BY <1>2, FinishFits DEF Same
<1>8. mayCheck => /\ Fits(Request(c, None)) /\ Request(c, None).at = "asked"
                  /\ Same(a, Request(c, None))
  BY <1>4, RequestFits DEF Stages, Same
<1>9. /\ Fits(Answer(c, FALSE)) /\ Answer(c, FALSE).at \in {"again", "stuck", "silent", "answer"}
      /\ Same(a, Answer(c, FALSE))
  BY <1>4, AnswerFits DEF Same
<1> QED BY <1>5, <1>6, <1>7, <1>8, <1>9

LEMMA DidFits ==
    ASSUME NEW a, Fits(a), a.at = "calls", NEW tool \in ToolNames
    PROVE  LET b == Did(a, tool)
           IN  /\ Fits(b) /\ b.at = "calls" /\ b.calls = a.calls /\ b.tools = a.tools
               /\ b.done = a.done \cup {tool} /\ b \in Run
<1>1. MaxRequests \in Nat /\ MaxToolCalls \in Nat /\ a \in Run
  BY AgentRunAssumption DEF Fits
<1> DEFINE more == a.done \cup {tool}
<1>2. more \in SUBSET ToolNames /\ more # {}
  BY <1>1 DEF Run
<1>3. Did(a, tool) = [a EXCEPT !.done = more, !.posted = TRUE]
  BY DEF Did
<1> HIDE DEF more, ToolNames
<1>4. Did(a, tool) \in Run
  BY <1>1, <1>2, <1>3 DEF Run
<1>5. /\ Did(a, tool).at = "calls" /\ Did(a, tool).calls = a.calls /\ Did(a, tool).tools = a.tools
      /\ Did(a, tool).done = more /\ Did(a, tool).max = a.max
      /\ Did(a, tool).switched = a.switched /\ Did(a, tool).requests = a.requests
  BY <1>1, <1>3 DEF Run
<1>6. Fits(Did(a, tool))
  BY <1>2, <1>4, <1>5 DEF Fits
<1> QED BY <1>4, <1>5, <1>6 DEF more

\* One call is run, or begun.
LEMMA ExecuteFits ==
    ASSUME NEW a, Fits(a), a.at = "calls", NEW tool \in ToolNames
    PROVE  LET b == Execute(a, tool)
           IN  /\ Fits(b) /\ b.at \in {"calls"} \cup Calling
               /\ b.calls = a.calls /\ b.tools = a.tools
               /\ "poll" \in b.done => "poll" \in a.done
<1>1. MaxRequests \in Nat /\ MaxToolCalls \in Nat /\ a \in Run
  BY AgentRunAssumption DEF Fits
<1>2. CASE Execute(a, tool) = a
  BY <1>2
<1>3. CASE tool \in {"poll", "pin"} /\ Execute(a, tool) = [a EXCEPT !.at = tool]
  <2>1. [a EXCEPT !.at = tool] \in Run
    BY <1>1, <1>3 DEF Run, Calling
  <2> QED BY <1>1, <1>3, <2>1 DEF Fits, Run, Calling
<1>4. CASE tool = "act" /\ Execute(a, tool) = Did(a, tool)
  BY <1>4, DidFits
<1>5. CASE tool = "board" /\ Execute(a, tool) = [Did(a, tool) EXCEPT !.at = "board"]
  <2> DEFINE d == Did(a, tool)
  <2>1. /\ Fits(d) /\ d.calls = a.calls /\ d.tools = a.tools
        /\ d.done = a.done \cup {tool} /\ d \in Run
    BY DidFits
  <2> HIDE DEF d
  <2>2. [d EXCEPT !.at = "board"] \in Run
    BY <2>1 DEF Run, Calling
  <2>3. Fits([d EXCEPT !.at = "board"])
    BY <1>1, <2>1, <2>2 DEF Fits, Run
  <2>4. Execute(a, tool) = [d EXCEPT !.at = "board"]
    BY <1>5 DEF d
  <2> QED BY <1>5, <2>1, <2>3, <2>4 DEF Run, Calling
<1>6. CASE Execute(a, tool) = [a EXCEPT !.to = "plan"]
  <2>1. [a EXCEPT !.to = "plan"] \in Run
    BY <1>1 DEF Run, Skills, Tools
  <2> QED BY <1>1, <1>6, <2>1 DEF Fits, Run
<1>7. \/ Execute(a, tool) = a
      \/ tool \in {"poll", "pin"} /\ Execute(a, tool) = [a EXCEPT !.at = tool]
      \/ tool = "act" /\ Execute(a, tool) = Did(a, tool)
      \/ tool = "board" /\ Execute(a, tool) = [Did(a, tool) EXCEPT !.at = "board"]
      \/ Execute(a, tool) = [a EXCEPT !.to = "plan"]
  <2>1. tool = "read" \/ tool = "board" \/ tool = "poll" \/ tool = "pin" \/ tool = "act"
        \/ tool = "use_skill"
    BY DEF ToolNames
  <2> QED BY <2>1 DEF Execute
<1> QED BY <1>2, <1>3, <1>4, <1>5, <1>6, <1>7

\* One call uses up one of those left, and is begun in no disabled chat.
LEMMA CallFits ==
    ASSUME NEW a, Fits(a), a.at = "calls", a.calls # << >>, NEW tool \in ToolNames,
           NEW on \in BOOLEAN
    PROVE  LET b == Call(a, tool, on)
           IN  /\ Fits(b) /\ b.at \in {"calls", "stopped"} \cup Calling
               /\ b.at \in Calling => on
               /\ b.at = "calls" => b.calls = Tail(a.calls)
               /\ Begun(a, b, on)
<1> DEFINE b == [a EXCEPT !.calls = Tail(@)]
           c == [b EXCEPT !.tools = b.tools + 1,
                          !.read = b.read \/ tool \in Reading,
                          !.stage = IF tool \in Reading THEN "reading" ELSE b.stage]
<1>1. MaxRequests \in Nat /\ MaxToolCalls \in Nat /\ a \in Run
  BY AgentRunAssumption DEF Fits
<1>2. Fits(b) /\ b \in Run /\ b.at = "calls" /\ b.calls = Tail(a.calls)
      /\ b.tools = a.tools /\ b.done = a.done
  <2>1. Tail(a.calls) \in Seq(ToolNames)
    BY <1>1 DEF Run
  <2>2. b \in Run
    BY <1>1, <2>1 DEF Run
  <2> QED BY <1>1, <2>2 DEF Fits, Run
<1>3. CASE Call(a, tool, on) = b
  BY <1>2, <1>3 DEF Begun, Calling
<1>4. CASE Call(a, tool, on) = [a EXCEPT !.at = "stopped"]
  <2>1. [a EXCEPT !.at = "stopped"] \in Run
    BY <1>1 DEF Run, Ends
  <2> QED BY <1>1, <1>4, <2>1 DEF Fits, Run, Begun, Calling
<1>5. CASE on /\ ~(a.tools >= MaxToolCalls) /\ Call(a, tool, on) = Execute(c, tool)
  <2> HIDE DEF b
  <2>1. b.tools + 1 \in 0 .. MaxToolCalls
    BY <1>1, <1>2, <1>5 DEF Fits, Run
  <2>2. (b.read \/ tool \in Reading) \in BOOLEAN
    BY <1>2, Zenon DEF Run
  <2>3. (IF tool \in Reading THEN "reading" ELSE b.stage) \in Stages
    BY <1>2 DEF Run, Stages
  <2>4. c \in Run
    BY <1>2, <2>1, <2>2, <2>3 DEF Run
  <2>5. Fits(c) /\ c.at = "calls" /\ c.done = b.done /\ c.calls = b.calls
    BY <1>2, <2>1, <2>4 DEF Fits, Run
  <2> HIDE DEF c
  <2>6. LET d == Execute(c, tool)
        IN  /\ Fits(d) /\ d.at \in {"calls"} \cup Calling
            /\ d.calls = c.calls /\ ("poll" \in d.done => "poll" \in c.done)
    BY <2>5, ExecuteFits
  <2> QED BY <1>2, <1>5, <2>5, <2>6 DEF Begun
<1>6. \/ Call(a, tool, on) = b
      \/ Call(a, tool, on) = [a EXCEPT !.at = "stopped"]
      \/ on /\ ~(a.tools >= MaxToolCalls) /\ Call(a, tool, on) = Execute(c, tool)
  BY Zenon DEF Call
<1> HIDE DEF b, c
<1> QED BY <1>3, <1>4, <1>5, <1>6

\* The calls up to one that waits.
LEMMA CallsFit ==
    ASSUME NEW a, Fits(a), a.at = "calls", NEW on \in BOOLEAN
    PROVE  LET b == Calls(a, on)
           IN  /\ Fits(b) /\ b.at \in {"calls", "stopped"} \cup Calling
               /\ b.at \in Calling => on
               /\ Begun(a, b, on)
<1> DEFINE n == Len(a.calls)
<1>1. a.calls \in Seq(ToolNames) /\ n \in Nat /\ \A i \in 1 .. n : a.calls[i] \in ToolNames
  BY DEF Fits, Run
<1>2. PICK f : Stepwise(f, a, on, n) /\ Calls(a, on) = f[n]
  BY <1>1, CallsAreStepwise
<1> HIDE DEF n
<1>3. \A i \in 0 .. n : f[i] = IF i > 0 /\ f[i - 1].at = "calls" THEN Call(f[i - 1], a.calls[i], on)
                               ELSE IF i > 0 THEN f[i - 1] ELSE a
  BY <1>2, Zenon DEF Stepwise
<1> DEFINE Good(i) == /\ Fits(f[i]) /\ f[i].at \in {"calls", "stopped"} \cup Calling
                      /\ f[i].at \in Calling => on
                      /\ Begun(a, f[i], on)
                      /\ f[i].at = "calls" => f[i].calls \in Seq(ToolNames) /\ Len(f[i].calls) = n - i
           S == {i \in 0 .. n : ~Good(i)}
<1> HIDE DEF Good
<1>4. Good(0)
  <2>1. f[0] = a
    BY <1>1, <1>3
  <2> QED BY <1>1, <2>1 DEF Good, n, Begun, Calling
<1>5. ASSUME NEW i \in 0 .. n, i > 0, Good(i - 1)
      PROVE  Good(i)
  <2>1. i \in 1 .. n /\ i - 1 \in 0 .. n /\ a.calls[i] \in ToolNames
    BY <1>1, <1>5
  <2>2. CASE f[i - 1].at # "calls"
    <3>1. f[i] = f[i - 1]
      BY <1>3, <1>5, <2>2
    <3> QED BY <1>5, <2>2, <3>1 DEF Good
  <2>3. CASE f[i - 1].at = "calls"
    <3> DEFINE p == f[i - 1]
               q == Call(p, a.calls[i], on)
    <3>1. f[i] = q
      BY <1>3, <1>5, <2>3
    <3>2. Fits(p) /\ p.at = "calls" /\ p.calls \in Seq(ToolNames) /\ Len(p.calls) = n - (i - 1)
      BY <1>5, <2>3 DEF Good
    <3>3. p.calls # << >>
      BY <1>1, <2>1, <3>2
    <3>4. /\ Fits(q) /\ q.at \in {"calls", "stopped"} \cup Calling
          /\ q.at \in Calling => on
          /\ q.at = "calls" => q.calls = Tail(p.calls)
          /\ Begun(p, q, on)
      <4> HIDE DEF p
      <4> QED BY <2>1, <3>2, <3>3, CallFits
    <3>5. Tail(p.calls) \in Seq(ToolNames) /\ Len(Tail(p.calls)) = n - i
      <4> HIDE DEF p
      <4> QED BY <1>1, <2>1, <3>2, <3>3
    <3>6. Begun(a, p, on)
      BY <1>5 DEF Good
    <3> HIDE DEF p, q
    <3>7. Begun(a, q, on)
      BY <3>4, <3>6 DEF Begun
    <3> QED BY <3>1, <3>4, <3>5, <3>7 DEF Good
  <2> QED BY <2>2, <2>3
<1>6. S = {}
  <2> SUFFICES ASSUME S # {} PROVE FALSE
    OBVIOUS
  <2>1. S \in SUBSET Nat
    BY <1>1
  <2>2. PICK i \in S : \A j \in S : i <= j
    <3> HIDE DEF S
    <3> QED BY <2>1, LeastNat
  <2>3. i \in 0 .. n /\ ~Good(i) /\ i # 0
    BY <1>4, <2>2
  <2>4. i - 1 \in 0 .. n /\ i - 1 \notin S /\ i > 0
    BY <1>1, <2>2, <2>3
  <2> QED BY <1>5, <2>3, <2>4
<1>7. Good(n)
  BY <1>1, <1>6
<1> QED BY <1>2, <1>7 DEF Good

LEMMA HandOverFits ==
    ASSUME NEW a, Fits(a), a.to # None, ~a.switched
    PROVE  Fits(HandOver(a)) /\ HandOver(a).at = "asked" /\ Same(a, HandOver(a))
<1>1. MaxRequests \in Nat /\ MaxToolCalls \in Nat /\ a \in Run
  BY AgentRunAssumption DEF Fits
<1> DEFINE b == [a EXCEPT !.switched = TRUE, !.max = a.max + 1, !.skill = a.to,
                          !.to = None, !.stage = None]
<1>2. a.to \in Skills /\ None \in Skills \cup {None} /\ None \in Stages
      /\ a.max + 1 \in {MaxRequests, MaxRequests + 1} /\ a.max = MaxRequests
  BY <1>1 DEF Fits, Run, Stages
<1>3. b \in Run
  <2> HIDE DEF None, Skills, Stages
  <2> QED BY <1>1, <1>2 DEF Run
<1>4. Fits(b) /\ b.requests < b.max /\ Same(a, b)
  BY <1>1, <1>2, <1>3 DEF Fits, Run, Same
<1>5. HandOver(a) = Request(b, None)
  BY DEF HandOver
<1> HIDE DEF b
<1> QED BY <1>2, <1>4, <1>5, RequestFits DEF Same

LEMMA AfterCallsFits ==
    ASSUME NEW a, Fits(a)
    PROVE  LET b == AfterCalls(a)
           IN  /\ Fits(b) /\ b.at \in {"asked", "again", "stuck", "silent", "answer"}
               /\ Same(a, b)
<1>1. a.posted \in BOOLEAN /\ (a.posted => a.done # {})
  BY DEF Fits, Run
<1>2. /\ Fits(Answer(a, a.posted)) /\ Same(a, Answer(a, a.posted))
      /\ Answer(a, a.posted).at \in {"again", "stuck", "silent", "answer"}
  BY <1>1, AnswerFits
<1>3. CASE LastRequest(a)
  BY <1>2, <1>3 DEF AfterCalls
<1>4. CASE ~LastRequest(a) /\ a.to # None /\ ~a.switched
  BY <1>4, HandOverFits DEF AfterCalls
<1>5. CASE ~LastRequest(a) /\ ~(a.to # None /\ ~a.switched)
  <2>1. a.requests < a.max
    BY <1>5, AgentRunAssumption DEF LastRequest, Fits
  <2>2. \A s \in {"writing", None} : /\ Fits(Request(a, s)) /\ Request(a, s).at = "asked"
                                     /\ Same(a, Request(a, s))
    BY <2>1, RequestFits DEF Stages
  <2>3. \E s \in {"writing", None} : AfterCalls(a) = Request(a, s)
    BY <1>5 DEF AfterCalls
  <2> QED BY <2>2, <2>3
<1> QED BY <1>3, <1>4, <1>5

\* The run goes on to its next wait or its end; it waits for Telegram only in
\* an enabled chat, unless it did already.
LEMMA ContinueFits ==
    ASSUME NEW a, Fits(a), NEW on \in BOOLEAN
    PROVE  LET b == Continue(a, on)
           IN  /\ Fits(b) /\ b.at # "calls" /\ Begun(a, b, on)
               /\ a.at = "calls" /\ ~on => b.at \notin Calling
               /\ a.at # "calls" => b = a
<1>1. CASE a.at # "calls"
  BY <1>1 DEF Continue, Begun
<1>2. CASE a.at = "calls"
  <2> DEFINE b == Calls(a, on)
  <2>1. /\ Fits(b) /\ b.at \in {"calls", "stopped"} \cup Calling
        /\ b.at \in Calling => on
        /\ Begun(a, b, on)
    BY <1>2, CallsFit
  <2>2. Continue(a, on) = IF b.at = "calls" THEN AfterCalls(b) ELSE b
    BY <1>2 DEF Continue
  <2> HIDE DEF b
  <2>3. /\ Fits(AfterCalls(b)) /\ Same(b, AfterCalls(b))
        /\ AfterCalls(b).at \in {"asked", "again", "stuck", "silent", "answer"}
    BY <2>1, AfterCallsFits
  <2>4. Begun(a, AfterCalls(b), on)
    BY <2>1, <2>3 DEF Begun, Same
  <2>5. CASE b.at = "calls"
    BY <1>2, <2>2, <2>3, <2>4, <2>5 DEF Calling
  <2>6. CASE b.at # "calls"
    BY <1>2, <2>1, <2>2, <2>6
  <2> QED BY <2>5, <2>6
<1> QED BY <1>1, <1>2

\* Telegram has answered: only then is a poll up.
LEMMA AnsweredFits ==
    ASSUME NEW a, Fits(a), a.at \in Calling, NEW ok \in BOOLEAN, NEW b \in Answered(a, ok)
    PROVE  /\ Fits(b) /\ b.tools = a.tools
           /\ b.at = "calls" \/ (a.at = "board" /\ b.at \in {"board", "ping"})
           /\ "poll" \in b.done => "poll" \in a.done \/ (ok /\ a.at = "poll")
<1>1. MaxRequests \in Nat /\ MaxToolCalls \in Nat /\ a \in Run
  BY AgentRunAssumption DEF Fits
<1> DEFINE next == [a EXCEPT !.at = "calls"]
           ping == [a EXCEPT !.at = "ping"]
<1>2. /\ Fits(next) /\ next.at = "calls" /\ next.tools = a.tools /\ next.done = a.done
  <2>1. next \in Run
    BY <1>1 DEF Run
  <2> QED BY <1>1, <2>1 DEF Fits, Run
<1>3. /\ Fits(ping) /\ ping.at = "ping" /\ ping.tools = a.tools /\ ping.done = a.done
  <2>1. ping \in Run
    BY <1>1 DEF Run, Calling
  <2> QED BY <1>1, <2>1 DEF Fits, Run
<1>4. \/ a.at = "board" /\ b \in {a, ping, next}
      \/ a.at = "ping" /\ b = next
      \/ a.at \in {"poll", "pin"} /\ b = IF ok THEN Did(next, a.at) ELSE next
  BY DEF Answered, Calling
<1> HIDE DEF next, ping
<1>5. CASE a.at = "board" /\ b \in {a, ping, next}
  BY <1>2, <1>3, <1>5
<1>7. CASE b = next
  BY <1>2, <1>7
<1>6. CASE ok /\ a.at \in {"poll", "pin"} /\ b = Did(next, a.at)
  <2>1. a.at \in ToolNames
    BY <1>6 DEF ToolNames
  <2>2. Fits(b) /\ b.at = "calls" /\ b.tools = next.tools /\ b.done = next.done \cup {a.at}
    BY <1>2, <1>6, <2>1, DidFits
  <2> QED BY <1>2, <1>6, <2>2
<1> QED BY <1>4, <1>5, <1>6, <1>7

LEMMA FailedFits ==
    ASSUME NEW a, Fits(a), NEW how \in Failures(a)
    PROVE  Fits(Failed(a, how)) /\ Failed(a, how).at \in Ends /\ Same(a, Failed(a, how))
<1>1. MaxRequests \in Nat /\ MaxToolCalls \in Nat /\ a \in Run
  BY AgentRunAssumption DEF Fits
<1>2. how \in Ends /\ how # "silent"
  BY DEF Failures, Ends, Fallbacks
<1>3. Failed(a, how) \in Run
  BY <1>1, <1>2 DEF Failed, Run
<1> QED BY <1>1, <1>2, <1>3 DEF Failed, Fits, Run, Same

-----------------------------------------------------------------------------
(* The requests and what shows of them *)

\* A request has a run exactly while it runs.  A poll that its run counts is
\* in the group, and so is one that is all a silent run came to.
RunFine(t) ==
    /\ IF At(t, "running")
       THEN /\ Fits(job[t].run) /\ Waits(job[t].run)
            /\ "poll" \in job[t].run.done => "post" \in said[t]
       ELSE job[t].run = NoRun
    /\ job[t].how = "silent" /\ job[t].idle => "post" \in said[t]

\* The tasks of the placeholder, and where the request is meanwhile.
TasksFine(t) ==
    /\ place[t].timer = "on" => At(t, "running")
    /\ place[t].timer = "sending" => job[t].at \in {"running", "stopping"}
    /\ place[t].timer # "over"
         => ~place[t].known /\ place[t].seen = None /\ place[t].editing = None
    /\ place[t].editing # None => place[t].known /\ job[t].at \in {"running", "stopping"}
    /\ job[t].at \in {"new", "waiting"} => place[t] = Fresh

\* A catch-up has no placeholder; only a catch-up is delivered privately.
CatchupFine(t) ==
    /\ SkillOf[t] = "catchup"
         => place[t] = Fresh /\ job[t].at \in {"new", "waiting", "running", "done"} \cup Private
    /\ job[t].at \in Private => SkillOf[t] = "catchup"

\* A placeholder that is forgotten is gone or shows the error, and one that
\* shows the error is the request's last word.
ShownFine(t) ==
    /\ ~place[t].known /\ place[t].timer = "over"
         => place[t].seen \in {None, "error", "deleted"} \/ t \in trouble \/ place[t].moved
    /\ place[t].seen = "error" => Done(t) \/ t \in trouble
    /\ Done(t) => ~place[t].known \/ t \in trouble

\* What excuses a request that is over, or about to be.
HeardFine(t) ==
    job[t].at \in {"discarding", "done"}
      => \/ said[t] # {} \/ t \in trouble
         \/ job[t].how \in {"dropped", "notrun", "raised"}
         \/ (job[t].how = "silent" /\ ~job[t].idle)

Fine(t) == RunFine(t) /\ TasksFine(t) /\ CatchupFine(t) /\ ShownFine(t) /\ HeardFine(t)

Kinds == {"answer", "error", "part", "post"}
Typed ==
    /\ job \in [Triggers -> Job] /\ place \in [Triggers -> Place]
    /\ said \in [Triggers -> SUBSET Kinds]
    /\ enabled \in BOOLEAN /\ upgraded \in BOOLEAN /\ toggles \in 0 .. MaxToggles
    /\ trouble \subseteq Triggers

LineFine == line \in [ChatIds -> Seq(Triggers)] /\ InTurn

RepliesInv ==
    /\ Typed /\ LineFine
    /\ \A t \in Triggers : Fine(t)

-----------------------------------------------------------------------------
(* The chat's lock *)

Held(t) == job[t].at \in Working \cup {"waiting"}

\* The line stays as it is when nobody enters or leaves it, and only who has
\* the lock starts to work.
LEMMA LineStays ==
    ASSUME LineFine, UNCHANGED line,
           \A s \in Triggers :
               /\ job'[s].key = job[s].key /\ Held(s)' = Held(s)
               /\ job'[s].at \in Working => job[s].at \in Working \/ HasLock(s)
    PROVE  LineFine'
<1>1. \A t \in Triggers : job'[t].at \in Working => HasLock(t)'
  BY DEF LineFine, InTurn, HasLock
<1>2. \A k \in ChatIds, t \in Triggers :
          InLine(t, k)' <=> job'[t].key = k /\ job'[t].at \in Working \cup {"waiting"}
  BY DEF LineFine, InTurn, InLine, Held
<1>3. \A k \in ChatIds : \A i, j \in DOMAIN line'[k] : line'[k][i] = line'[k][j] => i = j
  BY DEF LineFine, InTurn
<1> QED BY <1>1, <1>2, <1>3 DEF LineFine, InTurn

\* Who comes goes to its end.
LEMMA LineGrows ==
    ASSUME LineFine, NEW t \in Triggers, \A s \in Triggers : job[s].key \in ChatIds, NEW key \in ChatIds, ~Held(t),
           job'[t].key = key, job'[t].at = "waiting",
           \A s \in Triggers \ {t} : job'[s] = job[s],
           line' = [line EXCEPT ![key] = Append(@, t)]
    PROVE  LineFine'
<1>1. /\ line \in [ChatIds -> Seq(Triggers)] /\ line'[key] = Append(line[key], t)
      /\ \A k \in ChatIds \ {key} : line'[k] = line[k]
      /\ line' \in [ChatIds -> Seq(Triggers)]
  BY DEF LineFine
<1> DEFINE q == line[key]
           n == Len(q)
<1>2. /\ q \in Seq(Triggers) /\ n \in Nat
      /\ Len(line'[key]) = n + 1 /\ DOMAIN line'[key] = 1 .. n + 1 /\ DOMAIN q = 1 .. n
      /\ line'[key][n + 1] = t /\ \A i \in 1 .. n : line'[key][i] = q[i]
  BY <1>1
<1>3. \A i \in 1 .. n : q[i] # t /\ q[i] \in Triggers
  <2>1. ~InLine(t, key)
    BY DEF LineFine, InTurn, Held
  <2> QED BY <1>2, <2>1 DEF InLine
<1> HIDE DEF n, q
<1>4. \A k \in ChatIds, s \in Triggers :
          InLine(s, k) <=> job[s].key = k /\ job[s].at \in Working \cup {"waiting"}
  BY DEF LineFine, InTurn
<1>5. ASSUME NEW s \in Triggers, job'[s].at \in Working
      PROVE  HasLock(s)'
  <2>1. s # t /\ job'[s] = job[s]
    BY <1>5 DEF Working
  <2>2. HasLock(s)
    BY <1>5, <2>1 DEF LineFine, InTurn
  <2>3. job[s].key \in ChatIds
    OBVIOUS
  <2>4. CASE job[s].key # key
    BY <1>1, <2>1, <2>2, <2>3, <2>4 DEF HasLock
  <2>5. CASE job[s].key = key
    <3>1. q # << >> /\ q[1] = s /\ n >= 1
      BY <1>2, <2>2, <2>5 DEF HasLock, q, n
    <3>2. line'[key][1] = s /\ line'[key] # << >>
      BY <1>2, <3>1
    <3> QED BY <2>1, <2>5, <3>2 DEF HasLock
  <2> QED BY <2>4, <2>5
<1>6. ASSUME NEW k \in ChatIds, NEW s \in Triggers
      PROVE  InLine(s, k)' <=> job'[s].key = k /\ job'[s].at \in Working \cup {"waiting"}
  <2>1. CASE k # key
    <3>1. InLine(s, k)' <=> InLine(s, k)
      BY <1>1, <2>1 DEF InLine
    <3>2. CASE s = t
      <4>1. ~InLine(t, k)
        BY <1>4 DEF Held
      <4> QED BY <2>1, <3>1, <3>2, <4>1
    <3>3. CASE s # t
      BY <1>4, <3>1, <3>3
    <3> QED BY <3>2, <3>3
  <2>2. CASE k = key /\ s = t
    BY <1>2, <2>2 DEF InLine
  <2>3. CASE k = key /\ s # t
    <3>1. InLine(s, key)' <=> InLine(s, key)
      <4>1. InLine(s, key)' <=> \E i \in 1 .. n + 1 : line'[key][i] = s
        BY <1>2 DEF InLine
      <4>2. InLine(s, key) <=> \E i \in 1 .. n : q[i] = s
        BY <1>2 DEF InLine, q
      <4>3. \A i \in 1 .. n : i \in 1 .. n + 1 /\ line'[key][i] = q[i]
        BY <1>2
      <4>4. ASSUME NEW i \in 1 .. n + 1, line'[key][i] = s
            PROVE  i \in 1 .. n
        BY <1>2, <2>3, <4>4
      <4> QED BY <4>1, <4>2, <4>3, <4>4
    <3> QED BY <1>4, <2>3, <3>1
  <2> QED BY <2>1, <2>2, <2>3
<1>7. ASSUME NEW k \in ChatIds, NEW i \in DOMAIN line'[k], NEW j \in DOMAIN line'[k],
             line'[k][i] = line'[k][j]
      PROVE  i = j
  <2>1. CASE k # key
    BY <1>1, <1>7, <2>1 DEF LineFine, InTurn
  <2>2. CASE k = key
    <3>1. \A x, y \in DOMAIN q : q[x] = q[y] => x = y
      BY DEF LineFine, InTurn, q
    <3> QED BY <1>2, <1>3, <1>7, <2>2, <3>1
  <2> QED BY <2>1, <2>2
<1> QED BY <1>1, <1>5, <1>6, <1>7 DEF LineFine, InTurn

\* Who has the lock leaves, and the next is at the head.
LEMMA LineShrinks ==
    ASSUME LineFine, NEW t \in Triggers, \A s \in Triggers : job[s].key \in ChatIds,
           HasLock(t),
           job'[t].key = job[t].key, ~Held(t)',
           \A s \in Triggers \ {t} : job'[s] = job[s],
           Release(t)
    PROVE  LineFine'
<1> DEFINE key == job[t].key
           q == line[key]
           n == Len(q)
<1>1. /\ line \in [ChatIds -> Seq(Triggers)] /\ q \in Seq(Triggers) /\ q # << >> /\ q[1] = t
      /\ n \in Nat /\ n >= 1
  BY DEF LineFine, HasLock
<1>2. /\ line'[key] = Tail(q) /\ \A k \in ChatIds \ {key} : line'[k] = line[k]
      /\ Tail(q) \in Seq(Triggers)
      /\ line' \in [ChatIds -> Seq(Triggers)]
  BY <1>1 DEF Release
<1>3. /\ DOMAIN line'[key] = 1 .. n - 1 /\ DOMAIN q = 1 .. n /\ Len(line'[key]) = n - 1
      /\ \A i \in 1 .. n - 1 : line'[key][i] = q[i + 1]
  BY <1>1, <1>2
<1> HIDE DEF n, q, key
<1>4. \A k \in ChatIds, s \in Triggers :
          InLine(s, k) <=> job[s].key = k /\ job[s].at \in Working \cup {"waiting"}
  BY DEF LineFine, InTurn
<1>5. \A i, j \in 1 .. n : q[i] = q[j] => i = j
  BY <1>3 DEF LineFine, InTurn, q, key
<1>6. ASSUME NEW s \in Triggers, job'[s].at \in Working
      PROVE  HasLock(s)'
  <2>1. s # t /\ job'[s] = job[s]
    BY <1>6 DEF Held
  <2>2. HasLock(s)
    BY <1>6, <2>1 DEF LineFine, InTurn
  <2>3. job[s].key \in ChatIds
    OBVIOUS
  <2>4. job[s].key # key
    BY <1>1, <2>1, <2>2 DEF HasLock, q, key
  <2> QED BY <1>2, <2>1, <2>2, <2>3, <2>4 DEF HasLock
<1>7. ASSUME NEW k \in ChatIds, NEW s \in Triggers
      PROVE  InLine(s, k)' <=> job'[s].key = k /\ job'[s].at \in Working \cup {"waiting"}
  <2>1. CASE k # key
    <3>1. InLine(s, k)' <=> InLine(s, k)
      BY <1>2, <2>1 DEF InLine
    <3>2. CASE s = t
      <4>1. ~InLine(t, k)
        BY <1>4, <2>1 DEF key
      <4> QED BY <3>1, <3>2, <4>1 DEF Held
    <3>3. CASE s # t
      BY <1>4, <3>1, <3>3
    <3> QED BY <3>2, <3>3
  <2>2. CASE k = key /\ s = t
    <3>1. \A i \in 1 .. n - 1 : i + 1 \in 1 .. n /\ i + 1 # 1 /\ 1 \in 1 .. n
      BY <1>1
    <3>2. \A i \in 1 .. n - 1 : line'[key][i] # t
      BY <1>1, <1>3, <1>5, <3>1
    <3>3. ~InLine(s, k)'
      BY <1>3, <2>2, <3>2 DEF InLine
    <3> QED BY <2>2, <3>3 DEF Held
  <2>3. CASE k = key /\ s # t
    <3>1. InLine(s, k)' <=> \E i \in 1 .. n - 1 : q[i + 1] = s
      <4>1. InLine(s, k)' <=> \E i \in 1 .. n - 1 : line'[key][i] = s
        BY <1>3, <2>3 DEF InLine
      <4> QED BY <1>3, <4>1
    <3>2. InLine(s, k) <=> \E i \in 1 .. n : q[i] = s
      BY <1>3, <2>3 DEF InLine, q
    <3>3. ASSUME NEW i \in 1 .. n, q[i] = s
          PROVE  \E h \in 1 .. n - 1 : q[h + 1] = s
      <4>1. i # 1
        BY <1>1, <2>3, <3>3
      <4>2. i - 1 \in 1 .. n - 1 /\ (i - 1) + 1 = i
        BY <1>1, <4>1
      <4> QED BY <3>3, <4>2
    <3>4. \A i \in 1 .. n - 1 : i + 1 \in 1 .. n
      BY <1>1
    <3>5. InLine(s, k)' <=> InLine(s, k)
      BY <3>1, <3>2, <3>3, <3>4
    <3> QED BY <1>4, <2>3, <3>5
  <2> QED BY <2>1, <2>2, <2>3
<1>8. ASSUME NEW k \in ChatIds, NEW i \in DOMAIN line'[k], NEW j \in DOMAIN line'[k],
             line'[k][i] = line'[k][j]
      PROVE  i = j
  <2>1. CASE k # key
    BY <1>2, <1>8, <2>1 DEF LineFine, InTurn
  <2>2. CASE k = key
    BY <1>1, <1>3, <1>5, <1>8, <2>2
  <2> QED BY <2>1, <2>2
<1> QED BY <1>2, <1>6, <1>7, <1>8 DEF LineFine, InTurn

-----------------------------------------------------------------------------
(* What one step of one request leaves alone *)

Alone(t) ==
    \A s \in Triggers \ {t} : job'[s] = job[s] /\ place'[s] = place[s] /\ said'[s] = said[s]

LEMMA OneMoves ==
    ASSUME RepliesInv, NEW t \in Triggers, Alone(t), trouble \subseteq trouble',
           UNCHANGED chat, Typed', LineFine', Fine(t)'
    PROVE  RepliesInv'
<1>1. ASSUME NEW s \in Triggers, s # t
      PROVE  Fine(s)'
  <2>1. /\ job'[s] = job[s] /\ place'[s] = place[s] /\ said'[s] = said[s]
        /\ toggles' = toggles /\ (s \in trouble => s \in trouble')
    BY <1>1 DEF Alone, chat
  <2>2. Fine(s)
    BY DEF RepliesInv
  <2>3. RunFine(s)'
    BY <2>1, <2>2 DEF Fine, RunFine, At
  <2>4. TasksFine(s)'
    BY <2>1, <2>2 DEF Fine, TasksFine, At
  <2>5. CatchupFine(s)'
    BY <2>1, <2>2 DEF Fine, CatchupFine
  <2>6. ShownFine(s)'
    BY <2>1, <2>2 DEF Fine, ShownFine, Done, At
  <2>7. HeardFine(s)'
    BY <2>1, <2>2 DEF Fine, HeardFine
  <2> QED BY <2>3, <2>4, <2>5, <2>6, <2>7 DEF Fine
<1>2. \A s \in Triggers : Fine(s)'
  BY <1>1
<1> QED BY <1>2 DEF RepliesInv, chat

\* The handler of a request that has its lock and no run goes on to a step,
\* or returns.
Moved(t, step, how) ==
    /\ job' \in [Triggers -> Job]
    /\ \A s \in Triggers \ {t} : job'[s] = job[s]
    /\ job'[t].at = step /\ job'[t].run = NoRun /\ job'[t].key = job[t].key
    /\ job'[t].how = how /\ job'[t].idle = job[t].idle
    /\ LineFine'

LEMMA GoesOn ==
    ASSUME job \in [Triggers -> Job], LineFine, NEW t \in Triggers,
           job[t].at \in Working \/ (At(t, "waiting") /\ HasLock(t)),
           NEW step, NEW how \in Hows \cup {None},
           step = "done" \/ (step \in Working /\ job[t].at \in Working),
           GoesAs(t, step, how)
    PROVE  Moved(t, step, how)
<1>1. \A s \in Triggers : job[s].key \in ChatIds
  BY DEF Job
<1>0. step \in Steps
  BY DEF Steps, Working
<1>4. /\ job' \in [Triggers -> Job] /\ \A s \in Triggers \ {t} : job'[s] = job[s]
      /\ job'[t].at = step /\ job'[t].run = NoRun /\ job'[t].key = job[t].key
      /\ job'[t].how = how /\ job'[t].idle = job[t].idle
  BY <1>0 DEF GoesAs, Job
<1>2. CASE step = "done"
  <2>1. Release(t)
    BY <1>2 DEF GoesAs
  <2>3. HasLock(t)
    BY DEF LineFine, InTurn
  <2>4. ~Held(t)'
    BY <1>2, <1>4 DEF Held, Working
  <2>5. LineFine'
    BY <1>1, <1>4, <2>1, <2>3, <2>4, LineShrinks
  <2> QED BY <1>4, <2>5 DEF Moved
<1>3. CASE step # "done"
  <2>1. UNCHANGED line /\ step \in Working /\ job[t].at \in Working
    BY <1>3 DEF GoesAs
  <2>3. \A s \in Triggers :
            /\ job'[s].key = job[s].key /\ Held(s)' = Held(s)
            /\ job'[s].at \in Working => job[s].at \in Working \/ HasLock(s)
    <3>1. ASSUME NEW s \in Triggers
          PROVE  /\ job'[s].key = job[s].key /\ Held(s)' = Held(s)
                 /\ job'[s].at \in Working => job[s].at \in Working
      <4>1. CASE s = t
        BY <1>4, <2>1, <4>1 DEF Held
      <4>2. CASE s # t
        BY <1>4, <4>2 DEF Held
      <4> QED BY <4>1, <4>2
    <3> QED BY <3>1
  <2>4. LineFine'
    BY <2>1, <2>3, LineStays
  <2> QED BY <1>4, <2>4 DEF Moved
<1> QED BY <1>2, <1>3

-----------------------------------------------------------------------------
(* Each action keeps the invariant *)

LEMMA ArrivesKeeps ==
    ASSUME RepliesInv, NEW t \in Triggers, Arrives(t)
    PROVE  RepliesInv'
<1> DEFINE key == IF upgraded THEN "new" ELSE "old"
<1>1. Typed /\ LineFine /\ Fine(t)
  BY DEF RepliesInv
<1>2. /\ key \in ChatIds /\ At(t, "new")
      /\ job' = [job EXCEPT ![t].at = "waiting", ![t].key = key]
      /\ line' = [line EXCEPT ![key] = Append(@, t)]
      /\ UNCHANGED <<place, said, chat, trouble>>
  BY DEF Arrives, ChatIds
<1> HIDE DEF key
<1>3. /\ job' \in [Triggers -> Job] /\ \A s \in Triggers \ {t} : job'[s] = job[s]
      /\ job'[t].at = "waiting" /\ job'[t].run = job[t].run /\ job'[t].key = key
      /\ job'[t].how = job[t].how /\ job'[t].idle = job[t].idle
      /\ \A s \in Triggers : job[s].key \in ChatIds
  BY <1>1, <1>2 DEF Typed, Job, Steps
<1>4. ~Held(t)
  BY <1>2 DEF Held, At, Working
<1>5. LineFine'
  BY <1>1, <1>2, <1>3, <1>4, LineGrows
<1>6. Typed' /\ Alone(t)
  BY <1>1, <1>2, <1>3 DEF Typed, Alone, chat
<1>7. Fine(t)'
  <2>1. RunFine(t)'
    BY <1>1, <1>2, <1>3 DEF Fine, RunFine, At
  <2>2. TasksFine(t)'
    BY <1>1, <1>2, <1>3 DEF Fine, TasksFine, At, Fresh
  <2>3. CatchupFine(t)'
    BY <1>1, <1>2, <1>3 DEF Fine, CatchupFine, At, Private
  <2>4. ShownFine(t)'
    BY <1>1, <1>2, <1>3 DEF Fine, ShownFine, Done, At
  <2>5. HeardFine(t)'
    BY <1>3 DEF HeardFine
  <2> QED BY <2>1, <2>2, <2>3, <2>4, <2>5 DEF Fine
<1> QED BY <1>2, <1>5, <1>6, <1>7, OneMoves

LEMMA StartsKeeps ==
    ASSUME RepliesInv, NEW t \in Triggers, Starts(t)
    PROVE  RepliesInv'
<1>1. Typed /\ LineFine /\ Fine(t) /\ SkillOf[t] \in Skills
  BY RepliesAssumption DEF RepliesInv
<1>2. /\ At(t, "waiting") /\ HasLock(t) /\ UNCHANGED <<said, chat, trouble>>
      /\ place[t] = Fresh /\ job[t].run = NoRun
  BY <1>1 DEF Starts, Fine, TasksFine, RunFine, At
<1>3. CASE enabled
  <2> DEFINE timer == IF SkillOf[t] = "catchup" THEN "over" ELSE "on"
             run == Begin(SkillOf[t])
  <2>1. /\ job' = [job EXCEPT ![t].at = "running", ![t].run = run]
        /\ place' = [place EXCEPT ![t].timer = timer]
        /\ UNCHANGED line
    BY <1>3 DEF Starts
  <2>2. Fits(run) /\ run.at = "asked" /\ run.done = {} /\ run \in Run
    BY <1>1, BeginFits DEF Fits
  <2> HIDE DEF run
  <2>3. /\ job' \in [Triggers -> Job] /\ \A s \in Triggers \ {t} : job'[s] = job[s]
        /\ job'[t].at = "running" /\ job'[t].run = run /\ job'[t].key = job[t].key
        /\ job'[t].how = job[t].how /\ job'[t].idle = job[t].idle
    BY <1>1, <2>1, <2>2 DEF Typed, Job, Steps
  <2>4. /\ place' \in [Triggers -> Place] /\ \A s \in Triggers \ {t} : place'[s] = place[s]
        /\ place'[t] = [Fresh EXCEPT !.timer = timer]
    BY <1>1, <1>2, <2>1 DEF Typed, Place
  <2>5. ASSUME NEW s \in Triggers
        PROVE  /\ job'[s].key = job[s].key /\ Held(s)' = Held(s)
               /\ job'[s].at \in Working => job[s].at \in Working \/ HasLock(s)
    <3>1. CASE s = t
      BY <1>2, <2>3, <3>1 DEF Held, At, Working
    <3>2. CASE s # t
      BY <2>3, <3>2 DEF Held
    <3> QED BY <3>1, <3>2
  <2>6. LineFine'
    BY <1>1, <2>1, <2>5, LineStays
  <2>7. Typed' /\ Alone(t)
    BY <1>1, <1>2, <2>3, <2>4 DEF Typed, Alone, chat
  <2>8. Fine(t)'
    <3>1. RunFine(t)'
      BY <1>1, <1>2, <2>2, <2>3 DEF Fine, RunFine, At, Waits
    <3>2. TasksFine(t)'
      BY <2>3, <2>4 DEF TasksFine, At, Fresh
    <3>3. CatchupFine(t)'
      BY <2>3, <2>4 DEF CatchupFine, Fresh, Private
    <3>4. ShownFine(t)'
      BY <2>3, <2>4 DEF ShownFine, Done, At, Fresh, None
    <3>5. HeardFine(t)'
      BY <2>3 DEF HeardFine
    <3> QED BY <3>1, <3>2, <3>3, <3>4, <3>5 DEF Fine
  <2> QED BY <1>2, <2>6, <2>7, <2>8, OneMoves
<1>4. CASE ~enabled
  <2>1. GoesAs(t, "done", "dropped") /\ UNCHANGED place
    BY <1>4 DEF Starts
  <2>2. Moved(t, "done", "dropped")
    <3>1. "dropped" \in Hows \cup {None}
      BY DEF Hows
    <3> QED BY <1>1, <1>2, <2>1, <3>1, GoesOn DEF Typed
  <2>3. Typed' /\ Alone(t) /\ LineFine'
    BY <1>1, <1>2, <2>1, <2>2 DEF Typed, Alone, chat, Moved
  <2>4. Fine(t)'
    <3>1. RunFine(t)'
      BY <1>1, <2>2 DEF Fine, RunFine, At, Moved
    <3>2. TasksFine(t)'
      BY <1>2, <2>1, <2>2 DEF TasksFine, Moved, Fresh, At
    <3>3. CatchupFine(t)'
      BY <1>2, <2>1, <2>2 DEF CatchupFine, Moved, Private
    <3>4. ShownFine(t)'
      BY <1>2, <2>1, <2>2 DEF ShownFine, Moved, Done, At, Fresh, None
    <3>5. HeardFine(t)'
      BY <2>2 DEF HeardFine, Moved
    <3> QED BY <3>1, <3>2, <3>3, <3>4, <3>5 DEF Fine
  <2> QED BY <1>2, <2>3, <2>4, OneMoves
<1> QED BY <1>3, <1>4

\* The run gets further, or to its end.
LEMMA RunGetsToKeeps ==
    ASSUME RepliesInv, NEW t \in Triggers, At(t, "running"),
           NEW a, Fits(a), a.at # "calls", RunGetsTo(t, a),
           UNCHANGED <<chat, trouble>>, said' \in [Triggers -> SUBSET Kinds],
           \A s \in Triggers \ {t} : said'[s] = said[s], said[t] \subseteq said'[t],
           "poll" \in a.done => "post" \in said'[t]
    PROVE  RepliesInv'
<1>1. Typed /\ LineFine /\ Fine(t) /\ HasLock(t) /\ a \in Run
  <2>1. job[t].at \in Working
    BY DEF At, Working
  <2> QED BY <2>1 DEF RepliesInv, LineFine, InTurn, Fits
<1>2. \A s \in Triggers : job[s].key \in ChatIds
  BY <1>1 DEF Typed, Job
<1>3. CASE ~Ended(a)
  <2>1. job' = [job EXCEPT ![t].run = a] /\ UNCHANGED <<place, line>>
    BY <1>3 DEF RunGetsTo
  <2>2. /\ job' \in [Triggers -> Job] /\ \A s \in Triggers \ {t} : job'[s] = job[s]
        /\ job'[t].at = "running" /\ job'[t].run = a /\ job'[t].key = job[t].key
        /\ job'[t].how = job[t].how /\ job'[t].idle = job[t].idle
    BY <1>1, <2>1 DEF Typed, Job, At
  <2>3. Waits(a)
    BY <1>1, <1>3 DEF Ended, Run, Waits
  <2>4. ASSUME NEW s \in Triggers
        PROVE  /\ job'[s].key = job[s].key /\ Held(s)' = Held(s)
               /\ job'[s].at \in Working => job[s].at \in Working
    <3>1. CASE s = t
      BY <2>2, <3>1 DEF Held, At, Working
    <3>2. CASE s # t
      BY <2>2, <3>2 DEF Held
    <3> QED BY <3>1, <3>2
  <2>5. LineFine'
    BY <1>1, <2>1, <2>4, LineStays
  <2>6. Typed' /\ Alone(t)
    BY <1>1, <2>1, <2>2 DEF Typed, Alone, chat
  <2>7. Fine(t)'
    <3>1. RunFine(t)'
      BY <1>1, <2>2, <2>3 DEF Fine, RunFine, At
    <3>2. TasksFine(t)'
      BY <1>1, <2>1, <2>2 DEF Fine, TasksFine, At
    <3>3. CatchupFine(t)'
      BY <1>1, <2>1, <2>2 DEF Fine, CatchupFine, At
    <3>4. ShownFine(t)'
      BY <1>1, <2>1, <2>2 DEF Fine, ShownFine, Done, At
    <3>5. HeardFine(t)'
      BY <2>2 DEF HeardFine
    <3> QED BY <3>1, <3>2, <3>3, <3>4, <3>5 DEF Fine
  <2> QED BY <2>5, <2>6, <2>7, OneMoves
<1>4. CASE Ended(a)
  <2> DEFINE idle == a.at = "silent" /\ (a.tools > 0 \/ a.wanted) /\ a.done \subseteq {"poll"}
             how == IF SkillOf[t] = "catchup" /\ ~enabled THEN "dropped" ELSE How(a)
             next == IF SkillOf[t] # "catchup" THEN "stopping"
                     ELSE IF enabled /\ a.at # "raised" THEN "ephemeral" ELSE "done"
             timer == IF place[t].timer = "on" THEN "over" ELSE place[t].timer
  <2>1. /\ job' = [job EXCEPT ![t] = [@ EXCEPT !.at = next, !.run = NoRun,
                                               !.how = how, !.idle = idle]]
        /\ place' = [place EXCEPT ![t].timer = timer]
        /\ IF SkillOf[t] = "catchup" THEN Release(t) ELSE UNCHANGED line
    BY <1>4 DEF RunGetsTo
  <2>2. next \in Steps /\ idle \in BOOLEAN
    BY DEF Steps, Private
  <2>3. how \in Hows /\ (how = "silent" => a.at = "silent")
    BY <1>4 DEF How, Hows, Ended, Ends, Fallbacks
  <2>4. a.at = "silent" /\ idle => "post" \in said'[t]
    BY DEF Fits
  <2> HIDE DEF next, idle, how
  <2>5. /\ job' \in [Triggers -> Job] /\ \A s \in Triggers \ {t} : job'[s] = job[s]
        /\ job'[t].at = next /\ job'[t].run = NoRun /\ job'[t].key = job[t].key
        /\ job'[t].how = how /\ job'[t].idle = idle
    BY <1>1, <2>1, <2>2, <2>3 DEF Typed, Job
  <2>6. /\ place' \in [Triggers -> Place] /\ \A s \in Triggers \ {t} : place'[s] = place[s]
        /\ place'[t] = [place[t] EXCEPT !.timer = timer]
    BY <1>1, <2>1 DEF Typed, Place
  <2>7. LineFine'
    <3>1. CASE SkillOf[t] = "catchup"
      <4>1. ~Held(t)'
        BY <2>5, <3>1 DEF Held, Working, next
      <4> QED BY <1>1, <1>2, <2>1, <2>5, <3>1, <4>1, LineShrinks
    <3>2. CASE SkillOf[t] # "catchup"
      <4>1. ASSUME NEW s \in Triggers
            PROVE  /\ job'[s].key = job[s].key /\ Held(s)' = Held(s)
                   /\ job'[s].at \in Working => job[s].at \in Working
        <5>1. CASE s = t
          BY <2>5, <3>2, <5>1 DEF Held, At, Working, next
        <5>2. CASE s # t
          BY <2>5, <5>2 DEF Held
        <5> QED BY <5>1, <5>2
      <4> QED BY <1>1, <2>1, <3>2, <4>1, LineStays
    <3> QED BY <3>1, <3>2
  <2>8. Typed' /\ Alone(t)
    BY <1>1, <2>5, <2>6 DEF Typed, Alone, chat
  <2>9. Fine(t)'
    <3>1. RunFine(t)'
      <4>1. job'[t].at # "running"
        BY <2>5 DEF next
      <4> QED BY <2>3, <2>4, <2>5, <4>1 DEF RunFine, At
    <3>2. TasksFine(t)'
      <4>1. CASE SkillOf[t] = "catchup"
        <5>1. place[t] = Fresh
          BY <1>1, <4>1 DEF Fine, CatchupFine
        <5>2. place'[t] = Fresh
          <6>1. timer = "over"
            BY <5>1 DEF Fresh
          <6>2. place'[t] = [Fresh EXCEPT !.timer = "over"]
            BY <2>6, <5>1, <6>1, Zenon
          <6> QED BY <6>2 DEF Fresh
        <5>3. job'[t].at \notin {"new", "waiting"}
          BY <2>5 DEF next
        <5> QED BY <5>2, <5>3 DEF TasksFine, At, Fresh
      <4>2. CASE SkillOf[t] # "catchup"
        <5>1. job'[t].at = "stopping"
          BY <2>5, <4>2 DEF next
        <5>2. /\ place'[t].timer = timer /\ place'[t].known = place[t].known
              /\ place'[t].seen = place[t].seen /\ place'[t].editing = place[t].editing
          BY <1>1, <2>6 DEF Typed, Place
        <5>3. TasksFine(t)
          BY <1>1 DEF Fine
        <5> QED BY <5>1, <5>2, <5>3 DEF TasksFine, At
      <4> QED BY <4>1, <4>2
    <3>3. CatchupFine(t)'
      <4>1. CASE SkillOf[t] = "catchup"
        <5>1. place[t] = Fresh
          BY <1>1, <4>1 DEF Fine, CatchupFine
        <5>2. place'[t] = Fresh
          <6>1. timer = "over"
            BY <5>1 DEF Fresh
          <6>2. place'[t] = [Fresh EXCEPT !.timer = "over"]
            BY <2>6, <5>1, <6>1, Zenon
          <6> QED BY <6>2 DEF Fresh
        <5> QED BY <2>5, <4>1, <5>2 DEF CatchupFine, Private, next
      <4>2. CASE SkillOf[t] # "catchup"
        BY <2>5, <4>2 DEF CatchupFine, Private, next
      <4> QED BY <4>1, <4>2
    <3>4. ShownFine(t)'
      <4>1. /\ place'[t].timer = timer /\ place'[t].known = place[t].known
            /\ place'[t].seen = place[t].seen /\ place'[t].moved = place[t].moved
        BY <1>1, <2>6 DEF Typed, Place
      <4>2. place[t].seen = "error" => t \in trouble
        BY <1>1 DEF Fine, ShownFine, Done, At
      <4>3. /\ ~place[t].known /\ timer = "over"
                => place[t].seen \in {None, "error", "deleted"} \/ t \in trouble \/ place[t].moved
        BY <1>1 DEF Fine, ShownFine, TasksFine
      <4>4. job'[t].at = "done" => ~place[t].known
        BY <1>1, <2>5 DEF next, Fine, CatchupFine, Fresh
      <4> QED BY <4>1, <4>2, <4>3, <4>4 DEF ShownFine, Done, At
    <3>5. HeardFine(t)'
      <4>1. job'[t].at \in {"discarding", "done"} => how \in {"dropped", "raised"}
        BY <2>5 DEF next, how, How, Fallbacks
      <4> QED BY <2>5, <4>1 DEF HeardFine
    <3> QED BY <3>1, <3>2, <3>3, <3>4, <3>5 DEF Fine
  <2> QED BY <2>7, <2>8, <2>9, OneMoves
<1> QED BY <1>3, <1>4

LEMMA ModelAnswersKeeps ==
    ASSUME RepliesInv, NEW t \in Triggers, ModelAnswers(t)
    PROVE  RepliesInv'
<1>1. /\ At(t, "running") /\ job[t].run.at \in {"asked", "again"}
      /\ UNCHANGED <<said, chat, trouble>>
  BY DEF ModelAnswers
<1>2. PICK r \in Results : RunGetsTo(t, Continue(AfterResult(job[t].run, r), enabled))
  BY DEF ModelAnswers
<1>3. /\ Typed /\ Fits(job[t].run) /\ r \in Result
      /\ "poll" \in job[t].run.done => "post" \in said[t]
  BY <1>1, RepliesAssumption DEF RepliesInv, Fine, RunFine
<1> DEFINE b == AfterResult(job[t].run, r)
           a == Continue(b, enabled)
<1>4. Fits(b) /\ Same(job[t].run, b)
  BY <1>1, <1>3, AfterResultFits
<1> HIDE DEF b
<1>5. Fits(a) /\ a.at # "calls" /\ Begun(b, a, enabled)
  BY <1>3, <1>4, ContinueFits DEF Typed
<1>6. RunGetsTo(t, a)
  BY <1>2 DEF b
<1>7. said' \in [Triggers -> SUBSET Kinds] /\ \A s \in Triggers : said'[s] = said[s]
  BY <1>1, <1>3 DEF Typed
<1> HIDE DEF a
<1>8. "poll" \in a.done => "post" \in said'[t]
  BY <1>3, <1>4, <1>5, <1>7 DEF Same, Begun
<1> QED BY <1>1, <1>5, <1>6, <1>7, <1>8, RunGetsToKeeps

LEMMA ToolPostsKeeps ==
    ASSUME RepliesInv, NEW t \in Triggers, ToolPosts(t)
    PROVE  RepliesInv'
<1>1. At(t, "running") /\ job[t].run.at \in Calling /\ UNCHANGED <<chat, trouble>>
  BY DEF ToolPosts
<1>0. PICK ok \in BOOLEAN : \E a \in Answered(job[t].run, ok) :
          /\ RunGetsTo(t, Continue(a, enabled))
          /\ said' = [said EXCEPT ![t] = IF ok /\ job[t].run.at # "pin" THEN @ \cup {"post"} ELSE @]
  BY DEF ToolPosts
<1>2. PICK b \in Answered(job[t].run, ok) :
          /\ RunGetsTo(t, Continue(b, enabled))
          /\ said' = [said EXCEPT ![t] = IF ok /\ job[t].run.at # "pin" THEN @ \cup {"post"} ELSE @]
  BY <1>0
<1>3. Typed /\ Fits(job[t].run) /\ ("poll" \in job[t].run.done => "post" \in said[t])
  BY <1>1 DEF RepliesInv, Fine, RunFine
<1> DEFINE a == Continue(b, enabled)
<1>4. Fits(b) /\ ("poll" \in b.done => "poll" \in job[t].run.done \/ (ok /\ job[t].run.at = "poll"))
  BY <1>1, <1>3, AnsweredFits
<1>5. Fits(a) /\ a.at # "calls" /\ Begun(b, a, enabled)
  BY <1>3, <1>4, ContinueFits DEF Typed
<1>6. RunGetsTo(t, a)
  BY <1>2
<1>7. /\ said' \in [Triggers -> SUBSET Kinds] /\ \A s \in Triggers \ {t} : said'[s] = said[s]
      /\ said'[t] = IF ok /\ job[t].run.at # "pin" THEN said[t] \cup {"post"} ELSE said[t]
  BY <1>2, <1>3 DEF Typed, Kinds
<1> HIDE DEF a
<1>8. said[t] \subseteq said'[t] /\ ("poll" \in a.done => "post" \in said'[t])
  BY <1>3, <1>4, <1>5, <1>7 DEF Begun
<1> QED BY <1>1, <1>5, <1>6, <1>7, <1>8, RunGetsToKeeps

LEMMA RunFailsKeeps ==
    ASSUME RepliesInv, NEW t \in Triggers, RunFails(t)
    PROVE  RepliesInv'
<1>1. At(t, "running") /\ UNCHANGED <<said, chat, trouble>>
  BY DEF RunFails
<1>2. PICK how \in Failures(job[t].run) : RunGetsTo(t, Failed(job[t].run, how))
  BY DEF RunFails
<1>3. Typed /\ Fits(job[t].run) /\ ("poll" \in job[t].run.done => "post" \in said[t])
  BY <1>1 DEF RepliesInv, Fine, RunFine
<1> DEFINE a == Failed(job[t].run, how)
<1>4. Fits(a) /\ a.at # "calls" /\ Same(job[t].run, a)
  BY <1>3, FailedFits DEF Ends, Fallbacks
<1>5. said' \in [Triggers -> SUBSET Kinds] /\ \A s \in Triggers : said'[s] = said[s]
  BY <1>1, <1>3 DEF Typed
<1> HIDE DEF a
<1>6. RunGetsTo(t, a)
  BY <1>2 DEF a
<1>7. "poll" \in a.done => "post" \in said'[t]
  BY <1>3, <1>4, <1>5 DEF Same
<1> QED BY <1>1, <1>4, <1>5, <1>6, <1>7, RunGetsToKeeps

LEMMA PlaceholderDueKeeps ==
    ASSUME RepliesInv, NEW t \in Triggers, PlaceholderDue(t)
    PROVE  RepliesInv'
<1>1. Typed /\ LineFine /\ Fine(t)
  BY DEF RepliesInv
<1>2. /\ place' = [place EXCEPT ![t].timer = "sending"] /\ place[t].timer = "on"
      /\ UNCHANGED <<job, said, line, chat, trouble>>
  BY DEF PlaceholderDue
<1>3. /\ place' \in [Triggers -> Place] /\ \A s \in Triggers \ {t} : place'[s] = place[s]
      /\ place'[t].timer = "sending" /\ place'[t].known = place[t].known
      /\ place'[t].seen = place[t].seen /\ place'[t].editing = place[t].editing
  BY <1>1, <1>2 DEF Typed, Place
<1>4. Typed' /\ Alone(t) /\ LineFine'
  BY <1>1, <1>2, <1>3 DEF Typed, Alone, chat, LineFine, InTurn, InLine, HasLock
<1>5. At(t, "running") /\ SkillOf[t] # "catchup" /\ place[t].seen = None
  BY <1>1, <1>2 DEF Fine, TasksFine, CatchupFine, Fresh
<1>6. Fine(t)'
  <2>1. RunFine(t)'
    BY <1>1, <1>2 DEF Fine, RunFine, At
  <2>2. TasksFine(t)'
    BY <1>1, <1>2, <1>3, <1>5 DEF Fine, TasksFine, At
  <2>3. CatchupFine(t)'
    BY <1>2, <1>5 DEF CatchupFine, At, Private
  <2>4. ShownFine(t)'
    BY <1>2, <1>3, <1>5 DEF ShownFine, Done, At, None
  <2>5. HeardFine(t)'
    BY <1>2, <1>5 DEF HeardFine, At
  <2> QED BY <2>1, <2>2, <2>3, <2>4, <2>5 DEF Fine
<1> QED BY <1>2, <1>4, <1>6, OneMoves

LEMMA PlaceholderSentKeeps ==
    ASSUME RepliesInv, NEW t \in Triggers, PlaceholderSent(t)
    PROVE  RepliesInv'
<1>1. Typed /\ LineFine /\ Fine(t)
  BY DEF RepliesInv
<1>2. /\ place[t].timer = "sending" /\ UNCHANGED <<job, said, line, chat>>
  BY DEF PlaceholderSent
<1>3. PICK done \in {"yes", "no", "unclear"} :
          /\ place' = [place EXCEPT ![t] =
                [@ EXCEPT !.timer = "over", !.known = done = "yes",
                          !.moved = upgraded /\ job[t].key = "old",
                          !.shown = IF done = "yes" THEN "working" ELSE None,
                          !.seen = IF done = "no" THEN None ELSE "working"]]
          /\ trouble' = IF done = "unclear" THEN trouble \cup {t} ELSE trouble
  BY DEF PlaceholderSent
<1> DEFINE moved == upgraded /\ job[t].key = "old"
           shown == IF done = "yes" THEN "working" ELSE None
           seen == IF done = "no" THEN None ELSE "working"
<1>4. moved \in BOOLEAN /\ shown \in Stages \cup {"working"}
      /\ seen \in Stages \cup {"working", "error", "deleted"}
  <2>1. moved \in BOOLEAN
    BY Zenon
  <2>2. shown \in Stages \cup {"working"} /\ seen \in Stages \cup {"working", "error", "deleted"}
    BY DEF Stages
  <2> QED BY <2>1, <2>2
<1> DEFINE p == [place[t] EXCEPT !.timer = "over", !.known = (done = "yes"),
                                 !.moved = moved, !.shown = shown, !.seen = seen]
<1>5. place' = [place EXCEPT ![t] = p]
  BY <1>3
<1> HIDE DEF moved, shown
<1>6. /\ p \in Place /\ p.timer = "over" /\ p.known = (done = "yes") /\ p.seen = seen
      /\ p.editing = place[t].editing
  BY <1>1, <1>4 DEF Typed, Place
<1> HIDE DEF p
<1>7. /\ place' \in [Triggers -> Place] /\ \A s \in Triggers \ {t} : place'[s] = place[s]
      /\ place'[t] = p
  BY <1>1, <1>5, <1>6 DEF Typed
<1>8. trouble \subseteq trouble' /\ trouble' \subseteq Triggers /\ (done = "unclear" => t \in trouble')
  BY <1>1, <1>3 DEF Typed
<1>9. Typed' /\ Alone(t) /\ LineFine'
  BY <1>1, <1>2, <1>7, <1>8 DEF Typed, Alone, chat, LineFine, InTurn, InLine, HasLock
<1>10. job[t].at \in {"running", "stopping"} /\ SkillOf[t] # "catchup" /\ place[t].editing = None
  BY <1>1, <1>2 DEF Fine, TasksFine, CatchupFine, Fresh
<1>11. Fine(t)'
  <2>1. RunFine(t)'
    BY <1>1, <1>2 DEF Fine, RunFine, At
  <2>2. TasksFine(t)'
    BY <1>2, <1>6, <1>7, <1>10 DEF TasksFine, At
  <2>3. CatchupFine(t)'
    BY <1>2, <1>10 DEF CatchupFine, Private
  <2>4. ShownFine(t)'
    BY <1>2, <1>6, <1>7, <1>8, <1>10 DEF ShownFine, Done, At, None
  <2>5. HeardFine(t)'
    BY <1>2, <1>10 DEF HeardFine
  <2> QED BY <2>1, <2>2, <2>3, <2>4, <2>5 DEF Fine
<1> QED BY <1>2, <1>8, <1>9, <1>11, OneMoves

LEMMA StageEditKeeps ==
    ASSUME RepliesInv, NEW t \in Triggers, StageEdit(t)
    PROVE  RepliesInv'
<1>1. Typed /\ LineFine /\ Fine(t)
  BY DEF RepliesInv
<1> DEFINE next == job[t].run.stage
<1>2. /\ At(t, "running") /\ place[t].known
      /\ place' = [place EXCEPT ![t].editing = next]
      /\ UNCHANGED <<job, said, line, chat, trouble>>
  BY DEF StageEdit
<1>3. next \in Stages
  BY <1>1, <1>2 DEF Fine, RunFine, Fits, Run
<1> HIDE DEF next
<1>4. /\ place' \in [Triggers -> Place] /\ \A s \in Triggers \ {t} : place'[s] = place[s]
      /\ place'[t].timer = place[t].timer /\ place'[t].known = place[t].known
      /\ place'[t].seen = place[t].seen /\ place'[t].moved = place[t].moved
  BY <1>1, <1>2, <1>3 DEF Typed, Place
<1>5. Typed' /\ Alone(t) /\ LineFine'
  BY <1>1, <1>2, <1>4 DEF Typed, Alone, chat, LineFine, InTurn, InLine, HasLock
<1>6. SkillOf[t] # "catchup" /\ place[t].timer = "over"
  BY <1>1, <1>2 DEF Fine, TasksFine, CatchupFine, Fresh, Typed, Place
<1>7. Fine(t)'
  <2>1. RunFine(t)'
    BY <1>1, <1>2 DEF Fine, RunFine, At
  <2>2. TasksFine(t)'
    BY <1>2, <1>4, <1>6 DEF TasksFine, At
  <2>3. CatchupFine(t)'
    BY <1>2, <1>6 DEF CatchupFine, At, Private
  <2>4. ShownFine(t)'
    BY <1>1, <1>2, <1>4 DEF Fine, ShownFine, Done, At
  <2>5. HeardFine(t)'
    BY <1>2 DEF HeardFine, At
  <2> QED BY <2>1, <2>2, <2>3, <2>4, <2>5 DEF Fine
<1> QED BY <1>2, <1>5, <1>7, OneMoves

LEMMA StageEditedKeeps ==
    ASSUME RepliesInv, NEW t \in Triggers, StageEdited(t)
    PROVE  RepliesInv'
<1>1. Typed /\ LineFine /\ Fine(t)
  BY DEF RepliesInv
<1>2. place[t].editing # None /\ UNCHANGED <<job, said, line, chat, trouble>>
  BY DEF StageEdited
<1>3. PICK done \in BOOLEAN :
          place' = [place EXCEPT ![t] =
              [@ EXCEPT !.shown = place[t].editing, !.editing = None,
                        !.seen = IF done THEN place[t].editing ELSE place[t].seen]]
  BY DEF StageEdited
<1> DEFINE seen == IF done THEN place[t].editing ELSE place[t].seen
           p == [place[t] EXCEPT !.shown = place[t].editing, !.editing = None, !.seen = seen]
<1>4. place' = [place EXCEPT ![t] = p]
  BY <1>3
<1>5. place[t] \in Place /\ place[t].editing \in Stages /\ None \in Stages
      /\ seen \in Stages \cup {"working", "error", "deleted"}
      /\ (seen = "error" => place[t].seen = "error")
  BY <1>1 DEF Typed, Place, Stages, None
<1> HIDE DEF seen
<1>6. /\ p \in Place /\ p.timer = place[t].timer /\ p.known = place[t].known
      /\ p.seen = seen /\ p.editing = None
  BY <1>5 DEF Place
<1> HIDE DEF p
<1>7. /\ place' \in [Triggers -> Place] /\ \A s \in Triggers \ {t} : place'[s] = place[s]
      /\ place'[t] = p
  BY <1>1, <1>4, <1>6 DEF Typed
<1>8. Typed' /\ Alone(t) /\ LineFine'
  BY <1>1, <1>2, <1>7 DEF Typed, Alone, chat, LineFine, InTurn, InLine, HasLock
<1>9. /\ job[t].at \in {"running", "stopping"} /\ SkillOf[t] # "catchup"
      /\ place[t].known /\ place[t].timer = "over"
  BY <1>1, <1>2, <1>5 DEF Fine, TasksFine, CatchupFine, Fresh, Place
<1>10. Fine(t)'
  <2>1. RunFine(t)'
    BY <1>1, <1>2 DEF Fine, RunFine, At
  <2>2. TasksFine(t)'
    BY <1>2, <1>6, <1>7, <1>9 DEF TasksFine, At
  <2>3. CatchupFine(t)'
    BY <1>2, <1>9 DEF CatchupFine, Private
  <2>4. ShownFine(t)'
    BY <1>1, <1>2, <1>5, <1>6, <1>7, <1>9 DEF Fine, ShownFine, Done, At
  <2>5. HeardFine(t)'
    BY <1>2, <1>9 DEF HeardFine
  <2> QED BY <2>1, <2>2, <2>3, <2>4, <2>5 DEF Fine
<1> QED BY <1>2, <1>8, <1>10, OneMoves

\* The steps of a handler that is past its run
LEMMA SettlesKeeps ==
    ASSUME RepliesInv, NEW t \in Triggers, Settles(t)
    PROVE  RepliesInv'
<1> DEFINE step == AfterRun(t)
           how == IF enabled THEN job[t].how ELSE "dropped"
<1>1. Typed /\ LineFine /\ Fine(t)
  BY DEF RepliesInv
<1>2. /\ At(t, "stopping") /\ Stopped(t) /\ GoesAs(t, step, how)
      /\ UNCHANGED <<place, said, chat, trouble>>
  BY DEF Settles
<1>3. /\ job[t].run = NoRun /\ place[t].timer = "over" /\ place[t].editing = None
      /\ SkillOf[t] # "catchup"
  BY <1>1, <1>2 DEF Fine, RunFine, TasksFine, CatchupFine, At, Stopped, Typed, Place, Private
<1>4. /\ step \in {"discarding", "done", "showing", "sending"}
      /\ step = "done" => ~place[t].known
      /\ step \in {"discarding", "done"}
           => ~enabled \/ job[t].how \in {"raised", "silent", "notrun"}
  BY Zenon DEF AfterRun
<1>8. how \in Hows \cup {None}
  BY <1>1 DEF Typed, Job, Hows
<1>9. /\ how = "silent" => job[t].how = "silent"
      /\ step \in {"discarding", "done"} => how \in {"dropped", "raised", "silent", "notrun"}
  BY <1>4
<1> HIDE DEF step, how
<1>5. Moved(t, step, how)
  <2>1. job[t].at \in Working /\ (step \in Working \/ step = "done")
    BY <1>2, <1>4 DEF At, Working
  <2> QED BY <1>1, <1>2, <1>8, <2>1, GoesOn DEF Typed
<1>6. Typed' /\ Alone(t) /\ LineFine'
  BY <1>1, <1>2, <1>5 DEF Typed, Alone, chat, Moved
<1>7. Fine(t)'
  <2>1. RunFine(t)'
    BY <1>1, <1>2, <1>4, <1>5, <1>9 DEF Fine, RunFine, Moved, At
  <2>2. TasksFine(t)'
    BY <1>2, <1>3, <1>4, <1>5 DEF TasksFine, Moved, At
  <2>3. CatchupFine(t)'
    BY <1>3, <1>4, <1>5 DEF CatchupFine, Moved, Private
  <2>4. ShownFine(t)'
    BY <1>1, <1>2, <1>4, <1>5 DEF Fine, ShownFine, Moved, Done, At
  <2>5. HeardFine(t)'
    <3>1. how = "silent" /\ job[t].idle => said'[t] # {}
      BY <1>1, <1>2, <1>9 DEF Fine, RunFine
    <3> QED BY <1>5, <1>9, <3>1 DEF HeardFine, Moved
  <2> QED BY <2>1, <2>2, <2>3, <2>4, <2>5 DEF Fine
<1> QED BY <1>2, <1>6, <1>7, OneMoves

LEMMA ShowsKeeps ==
    ASSUME RepliesInv, NEW t \in Triggers, job[t].at \in {"showing", "sorry"},
           NEW done \in {"yes", "no", "unclear"}, NEW next \in {"done", "sending"},
           Shows(t, done, next)
    PROVE  RepliesInv'
<1> DEFINE step == IF done = "yes" THEN "done" ELSE next
           known == place[t].known /\ done # "yes"
           seen == IF done = "no" THEN place[t].seen ELSE "error"
           p == [place[t] EXCEPT !.known = known, !.seen = seen]
<1>1. Typed /\ LineFine /\ Fine(t) /\ place[t] \in Place
  BY DEF RepliesInv, Typed
<1>2. /\ place' = [place EXCEPT ![t] = p]
      /\ said' = [said EXCEPT ![t] = IF done = "no" THEN @ ELSE @ \cup {"error"}]
      /\ trouble' = IF done = "yes" THEN trouble ELSE trouble \cup {t}
      /\ GoesOrReturns(t, step)
      /\ UNCHANGED chat
  BY DEF Shows
<1>3. known \in BOOLEAN
  BY <1>1, Zenon DEF Place
<1>4. seen \in Stages \cup {"working", "error", "deleted"}
  BY <1>1 DEF Place
<1>5. /\ p \in Place /\ p.timer = place[t].timer /\ p.known = known /\ p.seen = seen
      /\ p.editing = place[t].editing /\ p.moved = place[t].moved
  <2> HIDE DEF known, seen
  <2> QED BY <1>1, <1>3, <1>4 DEF Place
<1> HIDE DEF p
<1>6. /\ place' \in [Triggers -> Place] /\ \A s \in Triggers \ {t} : place'[s] = place[s]
      /\ place'[t] = p
  BY <1>1, <1>2, <1>5 DEF Typed
<1>7. /\ said' \in [Triggers -> SUBSET Kinds] /\ \A s \in Triggers \ {t} : said'[s] = said[s]
      /\ done # "no" => said'[t] # {}
      /\ said[t] \subseteq said'[t]
  BY <1>1, <1>2 DEF Typed, Kinds
<1>8. /\ trouble \subseteq trouble' /\ trouble' \subseteq Triggers
      /\ done # "yes" => t \in trouble'
  BY <1>1, <1>2 DEF Typed
<1>9. /\ job[t].run = NoRun /\ place[t].timer = "over" /\ place[t].editing = None
      /\ SkillOf[t] # "catchup"
  BY <1>1 DEF Fine, RunFine, TasksFine, CatchupFine, At, Place, Private
<1>10. step \in {"done", "sending"}
  OBVIOUS
<1> HIDE DEF step
<1>11. Moved(t, step, job[t].how)
  <2>1. job[t].at \in Working /\ (step \in Working \/ step = "done")
    BY <1>10 DEF Working
  <2>2. GoesAs(t, step, job[t].how) /\ job[t].how \in Hows \cup {None}
    BY <1>1, <1>2 DEF GoesOrReturns, Typed, Job
  <2> QED BY <1>1, <2>1, <2>2, GoesOn DEF Typed
<1>12. Typed' /\ Alone(t) /\ LineFine'
  BY <1>1, <1>2, <1>6, <1>7, <1>8, <1>11 DEF Typed, Alone, chat, Moved
<1>13. Fine(t)'
  <2>1. RunFine(t)'
    BY <1>1, <1>7, <1>10, <1>11 DEF Fine, RunFine, Moved, At
  <2>2. TasksFine(t)'
    BY <1>5, <1>6, <1>9, <1>10, <1>11 DEF TasksFine, Moved, At
  <2>3. CatchupFine(t)'
    BY <1>9, <1>10, <1>11 DEF CatchupFine, Moved, Private
  <2>4. ShownFine(t)'
    <3>1. CASE done = "yes"
      <4>1. known = FALSE /\ seen = "error" /\ step = "done"
        BY <3>1 DEF step
      <4> QED BY <1>5, <1>6, <1>11, <4>1 DEF ShownFine, Moved, Done, At
    <3>2. CASE done # "yes"
      BY <1>8, <3>2 DEF ShownFine
    <3> QED BY <3>1, <3>2
  <2>5. HeardFine(t)'
    BY <1>7, <1>8 DEF HeardFine
  <2> QED BY <2>1, <2>2, <2>3, <2>4, <2>5 DEF Fine
<1> QED BY <1>2, <1>8, <1>12, <1>13, OneMoves

LEMMA ShowsErrorKeeps ==
    ASSUME RepliesInv, NEW t \in Triggers, ShowsError(t)
    PROVE  RepliesInv'
<1> DEFINE next == IF job[t].how = "raised" THEN "done" ELSE "sending"
<1>1. At(t, "showing") /\ \E done \in {"yes", "no", "unclear"} : Shows(t, done, next)
  BY DEF ShowsError
<1>2. next \in {"done", "sending"} /\ job[t].at \in {"showing", "sorry"}
  BY <1>1 DEF At
<1> HIDE DEF next
<1> QED BY <1>1, <1>2, ShowsKeeps

LEMMA SaysSorryKeeps ==
    ASSUME RepliesInv, NEW t \in Triggers, SaysSorry(t)
    PROVE  RepliesInv'
BY ShowsKeeps DEF SaysSorry, At

LEMMA SendsKeeps ==
    ASSUME RepliesInv, NEW t \in Triggers, Sends(t)
    PROVE  RepliesInv'
<1>1. Typed /\ LineFine /\ Fine(t) /\ place[t] \in Place
  BY DEF RepliesInv, Typed
<1>2. At(t, "sending") /\ UNCHANGED <<place, chat>>
  BY DEF Sends
<1> DEFINE text == IF job[t].how = "answer" THEN "answer" ELSE "error"
           next(done) == IF ~place[t].known THEN "done"
                         ELSE IF done = "yes" THEN "discarding" ELSE "sorry"
<1>3. PICK done \in {"yes", "no", "part"} :
          /\ said' = [said EXCEPT ![t] = CASE done = "yes" -> @ \cup {text}
                                           [] done = "no" -> @
                                           [] done = "part" -> @ \cup {"part"}]
          /\ trouble' = IF done = "yes" \/ place[t].known THEN trouble ELSE trouble \cup {t}
          /\ GoesOrReturns(t, next(done))
  BY DEF Sends
<1>4. text \in Kinds
  BY DEF Kinds
<1> DEFINE step == next(done)
<1>5. /\ step \in {"done", "discarding", "sorry"}
      /\ step = "done" <=> ~place[t].known
      /\ step = "discarding" => done = "yes"
  BY <1>1 DEF Place
<1> HIDE DEF text, next
<1>6. \E new \in SUBSET Kinds : said' = [said EXCEPT ![t] = @ \cup new] /\ (done = "yes" => new # {})
  <2>1. CASE done = "yes"
    <3>1. said' = [said EXCEPT ![t] = @ \cup {text}]
      BY <1>3, <2>1
    <3> QED BY <1>4, <3>1
  <2>2. CASE done = "no"
    <3>1. said' = [said EXCEPT ![t] = @]
      BY <1>3, <2>2
    <3>2. said[t] = said[t] \cup {}
      OBVIOUS
    <3>3. said' = [said EXCEPT ![t] = @ \cup {}]
      BY <3>1, <3>2
    <3>4. {} \in SUBSET Kinds /\ done # "yes"
      BY <2>2
    <3> QED BY <3>3, <3>4, Zenon
  <2>3. CASE done = "part"
    <3>1. said' = [said EXCEPT ![t] = @ \cup {"part"}] /\ {"part"} \in SUBSET Kinds
      BY <1>3, <2>3 DEF Kinds
    <3> QED BY <2>3, <3>1
  <2> QED BY <2>1, <2>2, <2>3
<1>7. /\ said' \in [Triggers -> SUBSET Kinds] /\ \A s \in Triggers \ {t} : said'[s] = said[s]
      /\ done = "yes" => said'[t] # {}
      /\ said[t] \subseteq said'[t]
  BY <1>1, <1>6 DEF Typed
<1>8. /\ trouble \subseteq trouble' /\ trouble' \subseteq Triggers
      /\ done # "yes" /\ ~place[t].known => t \in trouble'
  BY <1>1, <1>3 DEF Typed
<1>9. /\ job[t].run = NoRun /\ place[t].timer = "over" /\ place[t].editing = None
      /\ SkillOf[t] # "catchup"
  BY <1>1, <1>2 DEF Fine, RunFine, TasksFine, CatchupFine, At, Place, Private
<1> HIDE DEF step
<1>10. Moved(t, step, job[t].how)
  <2>1. job[t].at \in Working /\ (step \in Working \/ step = "done")
    BY <1>2, <1>5 DEF At, Working
  <2>2. GoesAs(t, step, job[t].how) /\ job[t].how \in Hows \cup {None}
    BY <1>1, <1>3 DEF step, GoesOrReturns, Typed, Job
  <2> QED BY <1>1, <2>1, <2>2, GoesOn DEF Typed
<1>11. Typed' /\ Alone(t) /\ LineFine'
  BY <1>1, <1>2, <1>7, <1>8, <1>10 DEF Typed, Alone, chat, Moved
<1>12. Fine(t)'
  <2>1. RunFine(t)'
    BY <1>1, <1>5, <1>7, <1>10 DEF Fine, RunFine, Moved, At
  <2>2. TasksFine(t)'
    BY <1>2, <1>5, <1>9, <1>10 DEF TasksFine, Moved, At
  <2>3. CatchupFine(t)'
    BY <1>5, <1>9, <1>10 DEF CatchupFine, Moved, Private
  <2>4. ShownFine(t)'
    BY <1>1, <1>2, <1>5, <1>8, <1>10 DEF Fine, ShownFine, Moved, Done, At
  <2>5. HeardFine(t)'
    BY <1>5, <1>7, <1>8, <1>10 DEF HeardFine, Moved
  <2> QED BY <2>1, <2>2, <2>3, <2>4, <2>5 DEF Fine
<1> QED BY <1>2, <1>8, <1>11, <1>12, OneMoves

LEMMA DiscardsKeeps ==
    ASSUME RepliesInv, NEW t \in Triggers, Discards(t)
    PROVE  RepliesInv'
<1>1. Typed /\ LineFine /\ Fine(t) /\ place[t] \in Place
  BY DEF RepliesInv, Typed
<1>2. At(t, "discarding") /\ GoesOrReturns(t, "done") /\ UNCHANGED <<said, chat>>
  BY DEF Discards
<1>3. PICK done \in BOOLEAN :
          /\ place' = [place EXCEPT ![t].known = FALSE,
                                    ![t].seen = IF done /\ ~place[t].moved
                                                THEN "deleted" ELSE @]
          /\ trouble' = IF done THEN trouble ELSE trouble \cup {t}
  BY DEF Discards
<1>4. /\ place' \in [Triggers -> Place] /\ \A s \in Triggers \ {t} : place'[s] = place[s]
      /\ place'[t].timer = place[t].timer /\ place'[t].known = FALSE
      /\ place'[t].editing = place[t].editing /\ place'[t].moved = place[t].moved
      /\ place'[t].seen = IF done /\ ~place[t].moved THEN "deleted" ELSE place[t].seen
  BY <1>1, <1>3 DEF Typed, Place
<1>5. /\ trouble \subseteq trouble' /\ trouble' \subseteq Triggers /\ (~done => t \in trouble')
  BY <1>1, <1>3 DEF Typed
<1>6. /\ job[t].run = NoRun /\ place[t].timer = "over" /\ place[t].editing = None
      /\ SkillOf[t] # "catchup"
  BY <1>1, <1>2 DEF Fine, RunFine, TasksFine, CatchupFine, At, Place, Private
<1>7. Moved(t, "done", job[t].how)
  <2>1. GoesAs(t, "done", job[t].how) /\ job[t].how \in Hows \cup {None}
    BY <1>1, <1>2 DEF GoesOrReturns, Typed, Job
  <2> QED BY <1>1, <1>2, <2>1, GoesOn DEF Typed, At, Working
<1>8. Typed' /\ Alone(t) /\ LineFine'
  BY <1>1, <1>2, <1>4, <1>5, <1>7 DEF Typed, Alone, chat, Moved
<1>9. Fine(t)'
  <2>1. RunFine(t)'
    BY <1>1, <1>2, <1>7 DEF Fine, RunFine, Moved, At
  <2>2. TasksFine(t)'
    BY <1>4, <1>6, <1>7 DEF TasksFine, Moved, At
  <2>3. CatchupFine(t)'
    BY <1>6, <1>7 DEF CatchupFine, Moved, Private
  <2>4. ShownFine(t)'
    BY <1>4, <1>5, <1>7 DEF ShownFine, Moved, Done, At
  <2>5. HeardFine(t)'
    BY <1>1, <1>2, <1>5, <1>7 DEF Fine, HeardFine, Moved, At
  <2> QED BY <2>1, <2>2, <2>3, <2>4, <2>5 DEF Fine
<1> QED BY <1>2, <1>5, <1>8, <1>9, OneMoves

LEMMA DeliversPrivatelyKeeps ==
    ASSUME RepliesInv, NEW t \in Triggers, DeliversPrivately(t)
    PROVE  RepliesInv'
<1>1. Typed /\ LineFine /\ Fine(t)
  BY DEF RepliesInv
<1>2. job[t].at \in Private /\ UNCHANGED <<place, line, chat>>
  BY DEF DeliversPrivately
<1> DEFINE text == IF job[t].how \in {"answer", "silent"} THEN "answer" ELSE "error"
           next(done) == CASE done \/ At(t, "group") -> "done"
                           [] ~done /\ At(t, "ephemeral") -> "dm"
                           [] ~done /\ At(t, "dm") -> "group"
<1>3. PICK done \in BOOLEAN :
          /\ Goes(t, next(done))
          /\ said' = [said EXCEPT ![t] = IF done THEN @ \cup {text} ELSE @]
          /\ trouble' = IF ~done /\ next(done) = "done" THEN trouble \cup {t} ELSE trouble
  BY DEF DeliversPrivately
<1> DEFINE step == next(done)
<1>4. step \in {"done", "dm", "group"}
  BY <1>2 DEF At, Private
<1>5. text \in Kinds
  BY DEF Kinds
<1> HIDE DEF text, next
<1>6. /\ said' \in [Triggers -> SUBSET Kinds] /\ \A s \in Triggers \ {t} : said'[s] = said[s]
      /\ done => said'[t] # {}
      /\ said[t] \subseteq said'[t]
  BY <1>1, <1>3, <1>5 DEF Typed
<1>7. /\ trouble \subseteq trouble' /\ trouble' \subseteq Triggers
      /\ ~done /\ step = "done" => t \in trouble'
  BY <1>1, <1>3 DEF Typed
<1>8. job' = [job EXCEPT ![t].at = step]
  BY <1>3 DEF Goes
<1> HIDE DEF step
<1>9. /\ job' \in [Triggers -> Job] /\ \A s \in Triggers \ {t} : job'[s] = job[s]
      /\ job'[t].at = step /\ job'[t].run = job[t].run /\ job'[t].key = job[t].key
      /\ job'[t].how = job[t].how /\ job'[t].idle = job[t].idle
  BY <1>1, <1>4, <1>8 DEF Typed, Job, Steps, Private
<1>10. ASSUME NEW s \in Triggers
       PROVE  /\ job'[s].key = job[s].key /\ Held(s)' = Held(s)
              /\ job'[s].at \in Working => job[s].at \in Working
  <2>1. CASE s = t
    BY <1>2, <1>4, <1>9, <2>1 DEF Held, Working, Private
  <2>2. CASE s # t
    BY <1>9, <2>2 DEF Held
  <2> QED BY <2>1, <2>2
<1>11. LineFine'
  BY <1>1, <1>2, <1>10, LineStays
<1>12. Typed' /\ Alone(t)
  BY <1>1, <1>2, <1>6, <1>7, <1>9 DEF Typed, Alone, chat
<1>13. SkillOf[t] = "catchup" /\ place[t] = Fresh /\ job[t].run = NoRun
  BY <1>1, <1>2 DEF Fine, CatchupFine, RunFine, At, Private
<1>14. Fine(t)'
  <2>1. RunFine(t)'
    BY <1>1, <1>4, <1>6, <1>9, <1>13 DEF Fine, RunFine, At
  <2>2. TasksFine(t)'
    BY <1>2, <1>4, <1>9, <1>13 DEF TasksFine, At, Fresh
  <2>3. CatchupFine(t)'
    BY <1>2, <1>4, <1>9, <1>13 DEF CatchupFine, Private
  <2>4. ShownFine(t)'
    BY <1>2, <1>9, <1>13 DEF ShownFine, Done, At, Fresh, None
  <2>5. HeardFine(t)'
    BY <1>4, <1>6, <1>7, <1>9 DEF HeardFine
  <2> QED BY <2>1, <2>2, <2>3, <2>4, <2>5 DEF Fine
<1> QED BY <1>2, <1>7, <1>11, <1>12, <1>14, OneMoves

\* What happens to the chat: it is disabled or enabled, or upgraded.
LEMMA ChatKeeps ==
    ASSUME RepliesInv, Toggles \/ Upgrades
    PROVE  RepliesInv'
<1>1. /\ UNCHANGED <<job, place, said, line, trouble>>
      /\ toggles' \in 0 .. MaxToggles
      /\ enabled' \in BOOLEAN /\ upgraded' \in BOOLEAN
  <2>1. /\ enabled \in BOOLEAN /\ upgraded \in BOOLEAN /\ toggles \in Nat
        /\ toggles <= MaxToggles /\ MaxToggles \in Nat
    BY RepliesAssumption DEF RepliesInv, Typed
  <2>2. CASE Toggles
    <3>1. toggles < MaxToggles /\ toggles' = toggles + 1 /\ enabled' = ~enabled
          /\ UNCHANGED <<job, place, said, line, upgraded, trouble>>
      BY <2>2 DEF Toggles
    <3>2. enabled' \in BOOLEAN
      BY <2>1, <3>1, Zenon
    <3> QED BY <2>1, <3>1, <3>2
  <2>3. CASE Upgrades
    BY <2>1, <2>3 DEF Upgrades
  <2> QED BY <2>2, <2>3
<1>2. Typed' /\ LineFine'
  BY <1>1 DEF RepliesInv, Typed, LineFine, InTurn, InLine, HasLock
<1>3. ASSUME NEW t \in Triggers
      PROVE  Fine(t)'
  <2>1. Fine(t)
    BY DEF RepliesInv
  <2>2. RunFine(t)' /\ TasksFine(t)' /\ CatchupFine(t)' /\ ShownFine(t)'
    BY <1>1, <2>1 DEF Fine, RunFine, TasksFine, CatchupFine, ShownFine, Done, At
  <2>3. HeardFine(t)'
    BY <1>1, <2>1 DEF Fine, HeardFine
  <2> QED BY <2>2, <2>3 DEF Fine
<1> QED BY <1>1, <1>2, <1>3 DEF RepliesInv

-----------------------------------------------------------------------------
(* The theorems *)

LEMMA InitKeeps == Init => RepliesInv
<1> SUFFICES ASSUME Init PROVE RepliesInv
  OBVIOUS
<1>1. Fresh \in Place
  BY DEF Fresh, Place, Stages
<1>2. Typed
  <2>1. [at |-> "new", key |-> "old", run |-> NoRun, how |-> None, idle |-> FALSE] \in Job
    BY DEF Job, Steps, ChatIds
  <2>2. job \in [Triggers -> Job]
    BY <2>1, Zenon DEF Init
  <2>3. /\ place \in [Triggers -> Place] /\ said \in [Triggers -> SUBSET Kinds]
        /\ enabled \in BOOLEAN /\ upgraded \in BOOLEAN /\ trouble \subseteq Triggers
    BY <1>1 DEF Init
  <2>4. toggles \in 0 .. MaxToggles
    BY RepliesAssumption DEF Init
  <2> QED BY <2>2, <2>3, <2>4 DEF Typed
<1>3. LineFine
  BY DEF Init, LineFine, InTurn, InLine, Working
<1>4. ASSUME NEW t \in Triggers
      PROVE  Fine(t)
  <2>1. /\ job[t].at = "new" /\ job[t].run = NoRun /\ job[t].how = None
        /\ place[t] = Fresh
    BY DEF Init
  <2>2. RunFine(t) /\ TasksFine(t) /\ HeardFine(t)
    BY <2>1 DEF RunFine, TasksFine, HeardFine, At, Fresh, None
  <2>3. CatchupFine(t) /\ ShownFine(t)
    BY <2>1 DEF CatchupFine, ShownFine, Done, At, Fresh, Private, None
  <2> QED BY <2>2, <2>3 DEF Fine
<1> QED BY <1>2, <1>3, <1>4 DEF Init, RepliesInv

LEMMA NextKeeps == RepliesInv /\ [Next]_vars => RepliesInv'
<1> SUFFICES ASSUME RepliesInv, [Next]_vars PROVE RepliesInv'
  OBVIOUS
<1>1. ASSUME NEW t \in Triggers,
             Arrives(t) \/ PlaceholderDue(t) \/ StageEdit(t) \/ Progresses(t)
      PROVE  RepliesInv'
  <2>1. CASE Arrives(t) BY <2>1, ArrivesKeeps
  <2>2. CASE PlaceholderDue(t) BY <2>2, PlaceholderDueKeeps
  <2>3. CASE StageEdit(t) BY <2>3, StageEditKeeps
  <2>4. CASE Progresses(t)
    <3>1. CASE Starts(t) BY <3>1, StartsKeeps
    <3>2. CASE ModelAnswers(t) BY <3>2, ModelAnswersKeeps
    <3>3. CASE ToolPosts(t) BY <3>3, ToolPostsKeeps
    <3>4. CASE RunFails(t) BY <3>4, RunFailsKeeps
    <3>5. CASE PlaceholderSent(t) BY <3>5, PlaceholderSentKeeps
    <3>6. CASE StageEdited(t) BY <3>6, StageEditedKeeps
    <3>7. CASE Settles(t) BY <3>7, SettlesKeeps
    <3>8. CASE ShowsError(t) BY <3>8, ShowsErrorKeeps
    <3>9. CASE SaysSorry(t) BY <3>9, SaysSorryKeeps
    <3>10. CASE Sends(t) BY <3>10, SendsKeeps
    <3>11. CASE Discards(t) BY <3>11, DiscardsKeeps
    <3>12. CASE DeliversPrivately(t) BY <3>12, DeliversPrivatelyKeeps
    <3> QED BY <2>4, <3>1, <3>2, <3>3, <3>4, <3>5, <3>6, <3>7, <3>8, <3>9, <3>10, <3>11, <3>12
            DEF Progresses
  <2> QED BY <1>1, <2>1, <2>2, <2>3, <2>4
<1>2. CASE Toggles \/ Upgrades
  BY <1>2, ChatKeeps
<1>3. CASE UNCHANGED vars
  <2>1. UNCHANGED <<job, place, said, line, enabled, upgraded, toggles, trouble>>
    BY <1>3 DEF vars, chat
  <2>2. Typed' /\ LineFine'
    BY <2>1 DEF RepliesInv, Typed, LineFine, InTurn, InLine, HasLock
  <2>3. ASSUME NEW t \in Triggers
        PROVE  Fine(t)'
    BY <2>1 DEF RepliesInv, Fine, RunFine, TasksFine, CatchupFine, ShownFine, HeardFine, Done, At
  <2> QED BY <2>1, <2>2, <2>3 DEF RepliesInv
<1> QED BY <1>1, <1>2, <1>3 DEF Next

\* The inductive invariant holds of every reachable state.
THEOREM Invariance == Spec => []RepliesInv
<1>1. Init => RepliesInv
  BY InitKeeps
<1>2. RepliesInv /\ [Next]_vars => RepliesInv'
  BY NextKeeps
<1> QED BY <1>1, <1>2, PTL DEF Spec

LEMMA RunIsOK ==
    ASSUME NEW a, Fits(a), Waits(a)
    PROVE  RunOK(a)
<1>1. MaxRequests \in Nat /\ MaxToolCalls \in Nat /\ a \in Run
  BY AgentRunAssumption DEF Fits
<1>2. "plan" \in Skills
  BY DEF Skills, Tools
<1>3. Begin("plan") \in Run
  BY <1>2, BeginFits DEF Fits
<1>4. DOMAIN a = DOMAIN Begin("plan")
  BY <1>1, <1>3 DEF Run
<1>5. /\ a.max \in {MaxRequests, MaxRequests + 1}
      /\ a.tools \in 0 .. MaxToolCalls /\ a.done \subseteq ToolNames
      /\ a.skill \in Skills /\ a.stage \in Stages /\ a.text \in Texts
  BY <1>1 DEF Run
<1> QED BY <1>4, <1>5 DEF RunOK, Fits

\* Which request a handler's next step changes, and what of it.
LEMMA OneGoes ==
    ASSUME job \in [Triggers -> Job], NEW s \in Triggers, NEW step,
           Goes(s, step) \/ (\E how : GoesAs(s, step, how))
    PROVE  /\ \A t \in Triggers \ {s} : job'[t] = job[t]
           /\ job'[s].at = step /\ job'[s].key = job[s].key
           /\ job[s].run = NoRun => job'[s].run = NoRun
<1>1. CASE Goes(s, step)
  <2>1. job' = [job EXCEPT ![s].at = step]
    BY <1>1 DEF Goes
  <2> QED BY <2>1 DEF Job
<1>2. CASE \E how : GoesAs(s, step, how)
  <2>1. PICK how : job' = [job EXCEPT ![s] = [@ EXCEPT !.at = step, !.run = NoRun, !.how = how]]
    BY <1>2 DEF GoesAs
  <2> QED BY <2>1 DEF Job
<1> QED BY <1>1, <1>2

LEMMA OneEnds ==
    ASSUME job \in [Triggers -> Job], NEW s \in Triggers, NEW a, RunGetsTo(s, a), Ended(a)
    PROVE  /\ \A t \in Triggers \ {s} : job'[t] = job[t]
           /\ job'[s].run = NoRun /\ job'[s].key = job[s].key
           /\ job'[s].at \in {"stopping", "ephemeral", "done"}
<1> DEFINE idle == a.at = "silent" /\ (a.tools > 0 \/ a.wanted) /\ a.done \subseteq {"poll"}
           how == IF SkillOf[s] = "catchup" /\ ~enabled THEN "dropped" ELSE How(a)
           next == IF SkillOf[s] # "catchup" THEN "stopping"
                   ELSE IF enabled /\ a.at # "raised" THEN "ephemeral" ELSE "done"
<1>1. job' = [job EXCEPT ![s] = [@ EXCEPT !.at = next, !.run = NoRun, !.how = how, !.idle = idle]]
  BY DEF RunGetsTo
<1>2. next \in {"stopping", "ephemeral", "done"}
  OBVIOUS
<1> HIDE DEF idle, how, next
<1> QED BY <1>1, <1>2 DEF Job

\* Only in an upgraded group does a request come under the new ID.
Keys == \A t \in Triggers : job[t].key = "new" => upgraded

LEMMA KeysKept == RepliesInv /\ Keys /\ [Next]_vars => Keys'
<1> SUFFICES ASSUME RepliesInv, Keys, [Next]_vars, NEW t \in Triggers, job'[t].key = "new"
             PROVE  upgraded'
  BY DEF Keys
<1>1. job \in [Triggers -> Job]
  BY DEF RepliesInv, Typed
<1>2. job[t].key = "new" => upgraded
  BY DEF Keys
<1>3. ASSUME NEW s \in Triggers, NEW step,
             Goes(s, step) \/ (\E how : GoesAs(s, step, how))
      PROVE  job'[t].key = job[t].key
  BY <1>1, <1>3, OneGoes
<1>4. ASSUME NEW s \in Triggers, NEW a, RunGetsTo(s, a)
      PROVE  job'[t].key = job[t].key
  <2>1. CASE ~Ended(a)
    <3>1. job' = [job EXCEPT ![s].run = a]
      BY <1>4, <2>1 DEF RunGetsTo
    <3> QED BY <1>1, <3>1 DEF Job
  <2>2. CASE Ended(a)
    BY <1>1, <1>4, <2>2, OneEnds
  <2> QED BY <2>1, <2>2
<1>5. ASSUME NEW s \in Triggers,
             Arrives(s) \/ PlaceholderDue(s) \/ StageEdit(s) \/ Progresses(s)
      PROVE  upgraded'
  <2>1. UNCHANGED upgraded
    BY <1>5 DEF Arrives, PlaceholderDue, StageEdit, Progresses, Starts, ModelAnswers, ToolPosts,
                RunFails, PlaceholderSent, StageEdited, Settles, ShowsError, SaysSorry, Shows,
                Sends, Discards, DeliversPrivately, chat
  <2>2. CASE Arrives(s)
    <3> DEFINE key == IF upgraded THEN "new" ELSE "old"
    <3>1. /\ job' = [job EXCEPT ![s].at = "waiting", ![s].key = key]
          /\ key = "new" => upgraded
      BY <2>2 DEF Arrives
    <3> HIDE DEF key
    <3>2. job'[t].key = job[t].key \/ upgraded
      BY <1>1, <3>1 DEF Job
    <3> QED BY <1>2, <2>1, <3>2
  <2>3. CASE PlaceholderDue(s) \/ StageEdit(s) \/ PlaceholderSent(s) \/ StageEdited(s)
    <3>1. UNCHANGED job
      BY <2>3 DEF PlaceholderDue, StageEdit, PlaceholderSent, StageEdited
    <3> QED BY <1>2, <2>1, <3>1
  <2>4. CASE ModelAnswers(s) \/ ToolPosts(s) \/ RunFails(s)
    <3>1. \E a : RunGetsTo(s, a)
      BY <2>4 DEF ModelAnswers, ToolPosts, RunFails
    <3> QED BY <1>2, <1>4, <2>1, <3>1
  <2>5. CASE Starts(s)
    <3>1. CASE enabled
      <4>1. \E run : job' = [job EXCEPT ![s].at = "running", ![s].run = run]
        BY <2>5, <3>1 DEF Starts
      <4>2. job'[t].key = job[t].key
        BY <1>1, <4>1 DEF Job
      <4> QED BY <1>2, <2>1, <4>2
    <3>2. CASE ~enabled
      <4>1. GoesAs(s, "done", "dropped")
        BY <2>5, <3>2 DEF Starts
      <4> QED BY <1>2, <1>3, <2>1, <4>1
    <3> QED BY <3>1, <3>2
  <2>6. CASE Settles(s) \/ ShowsError(s) \/ SaysSorry(s) \/ Sends(s) \/ Discards(s)
             \/ DeliversPrivately(s)
    <3>1. \E step : Goes(s, step) \/ (\E how : GoesAs(s, step, how))
      <4>1. CASE Settles(s) BY <4>1 DEF Settles
      <4>2. CASE ShowsError(s) BY <4>2 DEF ShowsError, Shows, GoesOrReturns
      <4>3. CASE SaysSorry(s) BY <4>3 DEF SaysSorry, Shows, GoesOrReturns
      <4>4. CASE Sends(s) BY <4>4 DEF Sends, GoesOrReturns
      <4>5. CASE Discards(s)
        <5>1. GoesAs(s, "done", job[s].how)
          BY <4>5 DEF Discards, GoesOrReturns
        <5> QED BY <5>1
      <4>6. CASE DeliversPrivately(s) BY <4>6 DEF DeliversPrivately
      <4> QED BY <2>6, <4>1, <4>2, <4>3, <4>4, <4>5, <4>6
    <3> QED BY <1>2, <1>3, <2>1, <3>1
  <2> QED BY <1>5, <2>2, <2>3, <2>4, <2>5, <2>6 DEF Progresses
<1>6. CASE Toggles \/ Upgrades
  BY <1>2, <1>6 DEF Toggles, Upgrades
<1>7. CASE UNCHANGED vars
  BY <1>2, <1>7 DEF vars, chat
<1> QED BY <1>5, <1>6, <1>7 DEF Next

\* The head of a line is one request, and only an upgraded group has two lines
\* with one.
LEMMA OneOfEachLine ==
    ASSUME RepliesInv, Keys
    PROVE  OneAtATime
<1> SUFFICES ASSUME NEW t \in Triggers, NEW u \in Triggers, t # u,
                    job[t].at \in Working, job[u].at \in Working
             PROVE  upgraded /\ job[t].key # job[u].key
  BY DEF OneAtATime
<1>1. HasLock(t) /\ HasLock(u)
  BY DEF RepliesInv, LineFine, InTurn
<1>2. job[t].key # job[u].key
  BY <1>1 DEF HasLock
<1>3. job[t].key \in ChatIds /\ job[u].key \in ChatIds
  BY DEF RepliesInv, Typed, Job
<1>4. job[t].key = "new" \/ job[u].key = "new"
  BY <1>2, <1>3 DEF ChatIds
<1> QED BY <1>2, <1>4 DEF Keys

LEMMA InvImpliesSettled == RepliesInv /\ Keys => RequestsAreSettled
<1> SUFFICES ASSUME RepliesInv, Keys PROVE RequestsAreSettled
  OBVIOUS
<1>1. Typed /\ LineFine
  BY DEF RepliesInv
<1>2. TypeOK
  <2>1. ASSUME NEW t \in Triggers
        PROVE  /\ job[t].at \in Steps /\ job[t].key \in ChatIds
               /\ job[t].how \in Hows \cup {None}
               /\ job[t].run = NoRun \/ RunOK(job[t].run)
    <3>1. job[t] \in Job
      BY <1>1 DEF Typed
    <3>2. job[t].at \in Steps /\ job[t].key \in ChatIds /\ job[t].how \in Hows \cup {None}
      BY <3>1 DEF Job
    <3>3. job[t].run = NoRun \/ RunOK(job[t].run)
      BY RunIsOK DEF RepliesInv, Fine, RunFine
    <3> QED BY <3>2, <3>3
  <2>2. DOMAIN line = ChatIds /\ \A k \in ChatIds : \A i \in DOMAIN line[k] : line[k][i] \in Triggers
    BY <1>1 DEF LineFine
  <2> QED BY <1>1, <2>1, <2>2 DEF TypeOK, Typed, Kinds
<1>3. ASSUME NEW t \in Triggers, Done(t), t \notin trouble
      PROVE  /\ ~place[t].moved
                  => place[t].seen \in {None, "error", "deleted"} /\ ~place[t].known
             /\ said[t] = {}
                  => job[t].how \in {"dropped", "notrun", "raised"}
                     \/ (job[t].how = "silent" /\ ~job[t].idle)
  <2>1. Fine(t) /\ place[t] \in Place
    BY <1>1 DEF RepliesInv, Typed
  <2>2. place[t].timer = "over" /\ ~place[t].known
    BY <1>3, <2>1 DEF Fine, TasksFine, ShownFine, Done, At, Place
  <2>3. place[t].moved \/ place[t].seen \in {None, "error", "deleted"}
    BY <1>3, <2>1, <2>2 DEF Fine, ShownFine
  <2>4. said[t] = {}
          => job[t].how \in {"dropped", "notrun", "raised"}
             \/ (job[t].how = "silent" /\ ~job[t].idle)
    BY <1>3, <2>1 DEF Fine, HeardFine, Done, At
  <2> QED BY <2>2, <2>3, <2>4
<1>4. InTurn /\ OneAtATime
  BY <1>1, OneOfEachLine DEF LineFine
<1> QED BY <1>2, <1>3, <1>4 DEF RequestsAreSettled, PlaceholderSettled, NobodyIsIgnored

\* Requests of a chat ID come one after the other, those of the group do unless
\* it was upgraded between them, and nobody who asked is left with silence or
\* with a line that says the bot is still at work: on_message() and respond()
\* under the chat's lock, deliver() and the progress message.
THEOREM RequestsStaySettled == Spec => []RequestsAreSettled
<1>1. Init => Keys
  BY DEF Init, Keys
<1>2. RepliesInv /\ Keys /\ [Next]_vars => Keys'
  BY KeysKept
<1>3. RepliesInv /\ Keys => RequestsAreSettled
  BY InvImpliesSettled
<1> QED BY <1>1, <1>2, <1>3, Invariance, PTL DEF Spec

\* An error that is shown stays, whatever step is taken.
LEMMA ErrorKept ==
    ASSUME RepliesInv, [Next]_vars, NEW t \in Triggers,
           place[t].seen = "error", t \notin trouble
    PROVE  place'[t].seen = "error"
<1>1. /\ At(t, "done") /\ place[t].timer = "over" /\ place[t].editing = None /\ ~place[t].known
      /\ place \in [Triggers -> Place]
  <2>1. Fine(t) /\ place[t] \in Place
    BY DEF RepliesInv, Typed
  <2> QED BY <2>1 DEF RepliesInv, Typed, Fine, TasksFine, ShownFine, Done, At, Place
<1>2. SUFFICES ASSUME place' # place PROVE place'[t].seen = "error"
  OBVIOUS
<1>3. PICK s \in Triggers : \/ Starts(s) \/ ModelAnswers(s) \/ ToolPosts(s) \/ RunFails(s)
                            \/ PlaceholderDue(s) \/ PlaceholderSent(s)
                            \/ StageEdit(s) \/ StageEdited(s)
                            \/ ShowsError(s) \/ SaysSorry(s) \/ Discards(s)
  <2>1. ~Toggles /\ ~Upgrades /\ ~UNCHANGED vars
    BY <1>2 DEF Toggles, Upgrades, vars
  <2>2. \A s \in Triggers : ~Arrives(s) /\ ~Settles(s) /\ ~Sends(s) /\ ~DeliversPrivately(s)
    BY <1>2 DEF Arrives, Settles, Sends, DeliversPrivately
  <2> QED BY <2>1, <2>2 DEF Next, Progresses
<1>4. s # t
  BY <1>1, <1>3 DEF Starts, ModelAnswers, ToolPosts, RunFails, PlaceholderDue, PlaceholderSent,
                    StageEdit, StageEdited, ShowsError, SaysSorry, Discards, At
<1>5. \E p : place' = [place EXCEPT ![s] = p]
  <2>1. ASSUME NEW a, RunGetsTo(s, a)
        PROVE  \E p : place' = [place EXCEPT ![s] = p]
    BY <1>2, <2>1 DEF RunGetsTo
  <2>2. CASE ModelAnswers(s) \/ ToolPosts(s) \/ RunFails(s)
    BY <2>1, <2>2 DEF ModelAnswers, ToolPosts, RunFails
  <2>3. CASE Starts(s)
    BY <1>2, <2>3 DEF Starts
  <2>4. CASE PlaceholderDue(s) \/ StageEdit(s)
    BY <2>4 DEF PlaceholderDue, StageEdit
  <2>5. CASE PlaceholderSent(s)
    BY <2>5 DEF PlaceholderSent
  <2>6. CASE StageEdited(s)
    BY <2>6 DEF StageEdited
  <2>7. CASE ShowsError(s) \/ SaysSorry(s)
    BY <2>7 DEF ShowsError, SaysSorry, Shows
  <2>8. CASE Discards(s)
    BY <2>8 DEF Discards
  <2> QED BY <1>3, <2>2, <2>3, <2>4, <2>5, <2>6, <2>7, <2>8
<1> QED BY <1>1, <1>4, <1>5

\* A run is not the empty function.
LEMMA RunsAreRuns ==
    ASSUME NEW a \in Run
    PROVE  a # NoRun
<1>1. "at" \in DOMAIN a
  BY DEF Run
<1>2. DOMAIN << >> = {}
  OBVIOUS
<1> QED BY <1>1, <1>2 DEF NoRun

\* In a disabled chat a request begins neither a run, a call nor an answer.
LEMMA NothingBegins ==
    ASSUME RepliesInv, [Next]_vars, ~enabled, NEW t \in Triggers
    PROVE  /\ job'[t].at = "sending" => job[t].at \in {"sending", "showing"}
           /\ job'[t].run # NoRun =>
                /\ job[t].run # NoRun /\ job'[t].run.tools = job[t].run.tools
                /\ job'[t].run.at \in Calling
                     => \/ job'[t].run.at = job[t].run.at
                        \/ job'[t].run.at = "ping" /\ job[t].run.at = "board"
<1>1. job \in [Triggers -> Job] /\ Fine(t)
  BY DEF RepliesInv, Typed
<1> DEFINE Stays == job'[t] = job[t]
           Over == job'[t].run = NoRun /\ job'[t].at # "sending"
           Further(a, b) == /\ a # NoRun /\ b.tools = a.tools
                            /\ b.at \in Calling => b.at = a.at \/ (b.at = "ping" /\ a.at = "board")
           Runs == job'[t].at = "running" /\ Further(job[t].run, job'[t].run)
<1>2. CASE Stays
  BY <1>2
<1>3. CASE Over
  BY <1>3
<1>4. ASSUME NEW s \in Triggers, NEW step, Goes(s, step) \/ (\E how : GoesAs(s, step, how))
      PROVE  /\ s # t => Stays
             /\ s = t => job'[t].at = step /\ (job[t].run = NoRun => job'[t].run = NoRun)
  BY <1>1, <1>4, OneGoes
<1>5. ASSUME NEW s \in Triggers, NEW a, RunGetsTo(s, a), At(s, "running"), Further(job[s].run, a)
      PROVE  Stays \/ Over \/ Runs
  <2>1. CASE ~Ended(a)
    <3>1. job' = [job EXCEPT ![s].run = a]
      BY <1>5, <2>1 DEF RunGetsTo
    <3>2. s # t => Stays
      BY <1>1, <3>1
    <3>3. s = t => job'[t].at = "running" /\ job'[t].run = a
      BY <1>1, <1>5, <3>1 DEF Job, At
    <3> QED BY <1>5, <3>2, <3>3
  <2>2. CASE Ended(a)
    <3>1. /\ \A u \in Triggers \ {s} : job'[u] = job[u]
          /\ job'[s].run = NoRun /\ job'[s].at \in {"stopping", "ephemeral", "done"}
      BY <1>1, <1>5, <2>2, OneEnds
    <3> QED BY <3>1
  <2> QED BY <2>1, <2>2
<1> HIDE DEF Runs
<1>6. ASSUME NEW s \in Triggers, Starts(s)
      PROVE  Stays \/ Over
  <2>1. GoesAs(s, "done", "dropped") /\ At(s, "waiting")
    BY <1>6 DEF Starts
  <2>2. s = t => job[t].run = NoRun
    BY <1>1, <2>1 DEF Fine, RunFine, At
  <2>3. \E how : GoesAs(s, "done", how)
    BY <2>1
  <2> QED BY <1>4, <2>2, <2>3
<1>7. ASSUME NEW s \in Triggers, ModelAnswers(s)
      PROVE  Stays \/ Over \/ Runs
  <2>1. At(s, "running") /\ job[s].run.at \in {"asked", "again"} /\ Fits(job[s].run)
    BY <1>7 DEF ModelAnswers, RepliesInv, Fine, RunFine
  <2>2. PICK r \in Results : RunGetsTo(s, Continue(AfterResult(job[s].run, r), FALSE))
    BY <1>7 DEF ModelAnswers, RepliesInv, Typed
  <2> DEFINE b == AfterResult(job[s].run, r)
             a == Continue(b, FALSE)
  <2>3. r \in Result
    BY RepliesAssumption
  <2>4. Fits(b) /\ b.at \notin Calling /\ Same(job[s].run, b)
    BY <2>1, <2>3, AfterResultFits DEF Calling
  <2> HIDE DEF b
  <2>5. a.at \notin Calling /\ a.tools = b.tools
    BY <2>4, ContinueFits DEF Begun
  <2>6. RunGetsTo(s, a)
    BY <2>2 DEF b
  <2>7. job[s].run # NoRun
    BY <2>1, RunsAreRuns DEF Fits
  <2> HIDE DEF a
  <2>8. Further(job[s].run, a)
    BY <2>4, <2>5, <2>7 DEF Same
  <2> QED BY <1>5, <2>1, <2>6, <2>8
<1>8. ASSUME NEW s \in Triggers, ToolPosts(s)
      PROVE  Stays \/ Over \/ Runs
  <2>1. At(s, "running") /\ job[s].run.at \in Calling /\ Fits(job[s].run)
    BY <1>8 DEF ToolPosts, RepliesInv, Fine, RunFine
  <2>2. PICK ok \in BOOLEAN : \E b \in Answered(job[s].run, ok) : RunGetsTo(s, Continue(b, FALSE))
    BY <1>8 DEF ToolPosts, RepliesInv, Typed
  <2>3. PICK b \in Answered(job[s].run, ok) : RunGetsTo(s, Continue(b, FALSE))
    BY <2>2
  <2> DEFINE a == Continue(b, FALSE)
  <2>4. /\ Fits(b) /\ b.tools = job[s].run.tools
        /\ b.at = "calls" \/ (job[s].run.at = "board" /\ b.at \in {"board", "ping"})
    BY <2>1, AnsweredFits
  <2>5. /\ a.tools = b.tools
        /\ b.at = "calls" => a.at \notin Calling
        /\ b.at # "calls" => a = b
    BY <2>4, ContinueFits DEF Begun
  <2>6. RunGetsTo(s, a)
    BY <2>3
  <2>7. job[s].run # NoRun
    BY <2>1, RunsAreRuns DEF Fits
  <2> HIDE DEF a
  <2>8. Further(job[s].run, a)
    BY <2>4, <2>5, <2>7
  <2> QED BY <1>5, <2>1, <2>6, <2>8
<1>9. ASSUME NEW s \in Triggers, RunFails(s)
      PROVE  Stays \/ Over \/ Runs
  <2>1. At(s, "running") /\ Fits(job[s].run)
    BY <1>9 DEF RunFails, RepliesInv, Fine, RunFine
  <2>2. PICK how \in Failures(job[s].run) : RunGetsTo(s, Failed(job[s].run, how))
    BY <1>9 DEF RunFails
  <2> DEFINE a == Failed(job[s].run, how)
  <2>3. a.at \in Ends /\ Same(job[s].run, a)
    BY <2>1, FailedFits
  <2>4. RunGetsTo(s, a)
    BY <2>2
  <2>7. job[s].run # NoRun
    BY <2>1, RunsAreRuns DEF Fits
  <2> HIDE DEF a
  <2>8. Further(job[s].run, a)
    BY <2>3, <2>7 DEF Same, Ends, Fallbacks, Calling
  <2> QED BY <1>5, <2>1, <2>4, <2>8
<1>10. ASSUME NEW s \in Triggers, Settles(s)
       PROVE  Stays \/ Over
  <2>1. (\E how : GoesAs(s, AfterRun(s), how)) /\ At(s, "stopping")
    BY <1>10 DEF Settles
  <2>2. AfterRun(s) # "sending"
    BY DEF AfterRun
  <2>3. s = t => job[t].run = NoRun
    BY <1>1, <2>1 DEF Fine, RunFine, At
  <2> QED BY <1>4, <2>1, <2>2, <2>3
<1>11. ASSUME NEW s \in Triggers,
              ShowsError(s) \/ SaysSorry(s) \/ Sends(s) \/ Discards(s) \/ DeliversPrivately(s)
       PROVE  \/ Stays \/ Over
              \/ job[t].at \in {"sending", "showing"} /\ job'[t].run = NoRun
  <2>1. s = t => job[t].run = NoRun
    <3>1. ~At(s, "running")
      BY <1>11 DEF ShowsError, SaysSorry, Sends, Discards, DeliversPrivately, At, Private
    <3> QED BY <1>1, <3>1 DEF Fine, RunFine
  <2>2. PICK step : /\ Goes(s, step) \/ (\E how : GoesAs(s, step, how))
                    /\ At(s, "sending") \/ At(s, "showing") \/ step # "sending"
    <3>1. CASE ShowsError(s)
      BY <3>1 DEF ShowsError, Shows, GoesOrReturns
    <3>2. CASE SaysSorry(s)
      <4>1. GoesAs(s, "done", job[s].how)
        BY <3>2 DEF SaysSorry, Shows, GoesOrReturns
      <4> QED BY <4>1
    <3>3. CASE Sends(s)
      BY <3>3 DEF Sends, GoesOrReturns
    <3>4. CASE Discards(s)
      <4>1. GoesAs(s, "done", job[s].how)
        BY <3>4 DEF Discards, GoesOrReturns
      <4> QED BY <4>1
    <3>5. CASE DeliversPrivately(s)
      <4>1. \E done \in BOOLEAN :
               Goes(s, CASE done \/ At(s, "group") -> "done"
                         [] ~done /\ At(s, "ephemeral") -> "dm"
                         [] ~done /\ At(s, "dm") -> "group")
            /\ job[s].at \in Private
        BY <3>5 DEF DeliversPrivately
      <4> QED BY <4>1 DEF Private, At
    <3> QED BY <1>11, <3>1, <3>2, <3>3, <3>4, <3>5
  <2> QED BY <1>4, <2>1, <2>2 DEF At
<1>12. ASSUME NEW s \in Triggers,
              PlaceholderDue(s) \/ PlaceholderSent(s) \/ StageEdit(s) \/ StageEdited(s)
       PROVE  Stays
  BY <1>12 DEF PlaceholderDue, PlaceholderSent, StageEdit, StageEdited
<1>13. \A s \in Triggers : ~Arrives(s)
  BY DEF Arrives
<1>14. Toggles \/ Upgrades \/ UNCHANGED vars => Stays
  BY DEF Toggles, Upgrades, vars
<1> HIDE DEF Stays, Over
<1>15. \/ Stays \/ Over \/ Runs
       \/ job[t].at \in {"sending", "showing"} /\ job'[t].run = NoRun
  <2>1. CASE Toggles \/ Upgrades \/ UNCHANGED vars
    BY <1>14, <2>1
  <2>2. CASE \E s \in Triggers :
                Arrives(s) \/ PlaceholderDue(s) \/ StageEdit(s) \/ Progresses(s)
    <3>1. PICK s \in Triggers :
                Arrives(s) \/ PlaceholderDue(s) \/ StageEdit(s) \/ Progresses(s)
      BY <2>2
    <3>2. CASE PlaceholderDue(s) \/ PlaceholderSent(s) \/ StageEdit(s) \/ StageEdited(s)
      BY <1>12, <3>2
    <3>3. CASE Starts(s) BY <1>6, <3>3
    <3>4. CASE ModelAnswers(s) BY <1>7, <3>4
    <3>5. CASE ToolPosts(s) BY <1>8, <3>5
    <3>6. CASE RunFails(s) BY <1>9, <3>6
    <3>7. CASE Settles(s) BY <1>10, <3>7
    <3>8. CASE ShowsError(s) \/ SaysSorry(s) \/ Sends(s) \/ Discards(s) \/ DeliversPrivately(s)
      BY <1>11, <3>8
    <3> QED BY <1>13, <3>1, <3>2, <3>3, <3>4, <3>5, <3>6, <3>7, <3>8 DEF Progresses
  <2> QED BY <2>1, <2>2 DEF Next
<1>16. CASE Runs
  BY <1>16 DEF Runs
<1> QED BY <1>2, <1>3, <1>15, <1>16

\* What is over stays over: no stage is edited over an error that is shown,
\* as show() comes after stop() has waited; and in a chat that was disabled no
\* run, no tool call and no answer is begun, as the chat is looked up before
\* each (runner.py, _loop(); responder.py, still_enabled()).
THEOREM EndsStayKept == Spec => EndsAreKept
<1>1. RepliesInv /\ [Next]_vars =>
        [\A t \in Triggers : place[t].seen = "error" /\ t \notin trouble
                               => place'[t].seen = "error"]_vars
  BY ErrorKept
<1>2. RepliesInv /\ [Next]_vars =>
        [~enabled =>
          \A t \in Triggers :
            /\ job'[t].at = "sending" => job[t].at \in {"sending", "showing"}
            /\ job'[t].run # NoRun =>
                 /\ job[t].run # NoRun /\ job'[t].run.tools = job[t].run.tools
                 /\ job'[t].run.at \in Calling
                      => \/ job'[t].run.at = job[t].run.at
                         \/ job'[t].run.at = "ping" /\ job[t].run.at = "board"]_vars
  BY NothingBegins
<1>3. Spec => ErrorsStay
  BY <1>1, Invariance, PTL DEF Spec, ErrorsStay
<1>4. Spec => NothingAfterDisabling
  BY <1>2, Invariance, PTL DEF Spec, NothingAfterDisabling
<1> QED BY <1>3, <1>4, PTL DEF EndsAreKept

-----------------------------------------------------------------------------
(* Transcript: sets in order *)

Below(S, R, x) == {y \in S : <<y, x>> \in R}
IsOrder(S, R) ==
    /\ \A x \in S : <<x, x>> \notin R
    /\ \A x, y \in S : x # y => <<x, y>> \in R \/ <<y, x>> \in R
    /\ \A x, y, z \in S : <<x, y>> \in R /\ <<y, z>> \in R => <<x, z>> \in R

LEMMA RanksDiffer ==
    ASSUME NEW S, IsFiniteSet(S), NEW R, IsOrder(S, R), NEW x \in S, NEW y \in S, <<x, y>> \in R
    PROVE  /\ Cardinality(Below(S, R, x)) \in Nat /\ Cardinality(Below(S, R, y)) \in Nat
           /\ Cardinality(Below(S, R, x)) < Cardinality(Below(S, R, y))
<1>1. PICK A, B : A = Below(S, R, x) /\ B = Below(S, R, y)
  OBVIOUS
<1>2. A \in SUBSET S /\ B \in SUBSET S
  BY <1>1 DEF Below
<1>3. IsFiniteSet(A) /\ IsFiniteSet(B) /\ Cardinality(A) \in Nat /\ Cardinality(B) \in Nat
  BY <1>2, FS_Subset, FS_CardinalityType
<1>4. x \in B /\ A \subseteq B \ {x}
  BY <1>1 DEF Below, IsOrder
<1>5. IsFiniteSet(B \ {x}) /\ Cardinality(B \ {x}) = Cardinality(B) - 1
  BY <1>3, <1>4, FS_RemoveElement
<1>6. Cardinality(A) <= Cardinality(B \ {x})
  BY <1>4, <1>5, FS_Subset
<1> QED BY <1>1, <1>3, <1>5, <1>6

\* Each place in the order is taken.
LEMMA RanksReach ==
    ASSUME NEW S, IsFiniteSet(S), NEW R, IsOrder(S, R)
    PROVE  \A k \in 1 .. Cardinality(S) : \E x \in S : Cardinality(Below(S, R, x)) = k - 1
<1>1. PICK n : n = Cardinality(S)
  OBVIOUS
<1>2. n \in Nat
  BY <1>1, FS_CardinalityType
<1>3. PICK rank : rank = [x \in S |-> Cardinality(Below(S, R, x))]
  OBVIOUS
<1>4. ASSUME NEW x \in S PROVE rank[x] \in 0 .. n - 1
  <2>1. Below(S, R, x) \subseteq S \ {x}
    BY DEF Below, IsOrder
  <2>2. IsFiniteSet(S \ {x}) /\ Cardinality(S \ {x}) = n - 1
    BY <1>1, FS_RemoveElement
  <2>3. PICK b : b = Cardinality(Below(S, R, x))
    OBVIOUS
  <2>4. b \in Nat /\ b <= n - 1
    BY <2>1, <2>2, <2>3, FS_Subset, FS_CardinalityType
  <2> QED BY <1>2, <1>3, <2>3, <2>4
<1>5. ASSUME NEW x \in S, NEW y \in S, rank[x] = rank[y] PROVE x = y
  <2>1. ~(<<x, y>> \in R) /\ ~(<<y, x>> \in R)
    BY <1>3, <1>5, RanksDiffer
  <2> QED BY <2>1 DEF IsOrder
<1>6. rank \in Injection(S, 0 .. n - 1)
  <2>1. rank \in [S -> 0 .. n - 1]
    BY <1>3, <1>4
  <2> QED BY <1>5, <2>1 DEF Injection, IsInjective
<1>7. IsFiniteSet(0 .. n - 1) /\ Cardinality(0 .. n - 1) = n
  <2>1. IsFiniteSet(0 .. n - 1) /\ Cardinality(0 .. n - 1) = IF 0 > n - 1 THEN 0 ELSE n - 1 - 0 + 1
    BY <1>2, FS_Interval
  <2> QED BY <1>2, <2>1
<1>8. rank \in Surjection(S, 0 .. n - 1)
  BY <1>1, <1>6, <1>7, FS_Injection
<1>9. \A k \in 1 .. n : k - 1 \in 0 .. n - 1
  BY <1>2
<1>10. \A j \in 0 .. n - 1 : \E x \in S : rank[x] = j
  BY <1>8 DEF Surjection
<1> QED BY <1>1, <1>3, <1>9, <1>10

LEMMA OrderedByRank ==
    ASSUME NEW S, IsFiniteSet(S), NEW R, IsOrder(S, R), NEW s,
           s = InOrder(S, R)
    PROVE  /\ Cardinality(S) \in Nat /\ s \in [1 .. Cardinality(S) -> S]
           /\ \A j, k \in 1 .. Cardinality(S) : s[j] = s[k] => j = k
<1>1. PICK n : n = Cardinality(S)
  OBVIOUS
<1>2. n \in Nat
  BY <1>1, FS_CardinalityType
<1>0. s = [k \in 1 .. n |-> CHOOSE x \in S : Cardinality(Below(S, R, x)) = k - 1]
  BY <1>1 DEF InOrder, Below
<1>3. ASSUME NEW k \in 1 .. n PROVE s[k] \in S /\ Cardinality(Below(S, R, s[k])) = k - 1
  <2>1. \E x \in S : Cardinality(Below(S, R, x)) = k - 1
    BY <1>1, RanksReach
  <2> QED BY <1>0, <2>1
<1>4. s \in [1 .. n -> S]
  BY <1>0, <1>3
<1>5. ASSUME NEW j \in 1 .. n, NEW k \in 1 .. n, s[j] = s[k] PROVE j = k
  <2>1. j - 1 = k - 1
    BY <1>3, <1>5
  <2> QED BY <1>2, <2>1
<1> QED BY <1>1, <1>2, <1>4, <1>5

LEMMA NumbersInOrder ==
    ASSUME NEW S, S \subseteq Nat, IsFiniteSet(S)
    PROVE  /\ Cardinality(S) \in Nat /\ InOrder(S, ByNumber(S)) \in [1 .. Cardinality(S) -> S]
           /\ \A j, k \in 1 .. Cardinality(S) :
                 InOrder(S, ByNumber(S))[j] = InOrder(S, ByNumber(S))[k] => j = k
<1>1. \A x, y \in S : <<x, y>> \in ByNumber(S) <=> x < y
  BY DEF ByNumber
<1>2. IsOrder(S, ByNumber(S))
  BY <1>1 DEF IsOrder
<1> QED BY <1>2, OrderedByRank

\* Rows are told apart by their IDs where their dates are the same.
LEMMA RowsInOrder ==
    ASSUME NEW S, IsFiniteSet(S), S \subseteq Nat, \A r \in S : Date[rows[r].message] \in Nat
    PROVE  Cardinality(S) \in Nat /\ InOrder(S, ByDate(S)) \in [1 .. Cardinality(S) -> S]
<1>1. PICK R, d : R = ByDate(S) /\ d = [r \in S |-> Date[rows[r].message]]
  OBVIOUS
<1>2. d \in [S -> Nat]
  BY <1>1
<1>3. \A x, y \in S : <<x, y>> \in R <=> (d[x] < d[y] \/ (d[x] = d[y] /\ x < y))
  BY <1>1 DEF ByDate, IsBefore
<1>4. IsOrder(S, R)
  <2>1. \A x \in S : <<x, x>> \notin R
    BY <1>2, <1>3
  <2>2. \A x, y \in S : x # y => <<x, y>> \in R \/ <<y, x>> \in R
    BY <1>2, <1>3
  <2>3. ASSUME NEW x \in S, NEW y \in S, NEW z \in S, <<x, y>> \in R, <<y, z>> \in R
        PROVE  <<x, z>> \in R
    <3>1. d[x] \in Nat /\ d[y] \in Nat /\ d[z] \in Nat /\ x \in Nat /\ y \in Nat /\ z \in Nat
      BY <1>2
    <3> QED BY <1>3, <2>3, <3>1
  <2> QED BY <2>1, <2>2, <2>3 DEF IsOrder
<1> QED BY <1>1, <1>4, OrderedByRank

-----------------------------------------------------------------------------
(* Transcript: the invariant *)

TranscriptTypes ==
    /\ IsFiniteSet(DOMAIN rows) /\ DOMAIN rows \subseteq Nat \ {0} /\ rows \in [DOMAIN rows -> Row]
    /\ arrived \subseteq Live /\ stage \in [Imports -> RawStages]
    /\ left \in Seq(Exported) /\ starts \in 0 .. MaxStarts
    /\ deleting \in Seq([id : Nat, row : Row])
    /\ gone \subseteq Live /\ freed \subseteq Nat

\* Live rows are of messages that came, an import's of its dates.
RowsBelong ==
    \A r \in DOMAIN rows :
        IF rows[r].source = FromTelegram THEN rows[r].message \in arrived
        ELSE /\ rows[r].message \in Exported /\ Date[rows[r].message] \in DatesOf[rows[r].source]
             /\ stage[rows[r].source] # "waiting"

\* An import has a message once, and so do the rows that may be read, which are
\* of several.
OneRowEach ==
    \A q, r \in DOMAIN rows :
        /\ rows[q].message = rows[r].message
        /\ rows[q].source = rows[r].source \/ (~Hidden(q) /\ ~Hidden(r))
        => q = r

\* One import is being stored; what is left of it was not stored yet.
OneStores ==
    /\ \A i, j \in Imports : Running(i) /\ Running(j) => i = j
    /\ \A j, k \in 1 .. Len(left) : left[j] = left[k] => j = k
    /\ \A i \in Imports : stage[i] = "storing" => \A k \in 1 .. Len(left) :
          /\ Date[left[k]] \in DatesOf[i]
          /\ \A r \in DOMAIN rows : rows[r].source = i => rows[r].message # left[k]

\* The bot deletes its own live messages: the row is still the one it looked at
\* unless the owner deleted that.
DeletesWhatItSaw ==
    \A k \in 1 .. Len(deleting) :
        /\ deleting[k].row.source = FromTelegram /\ deleting[k].row.message \in Own \ Pinned
        /\ deleting[k].id \notin freed =>
              /\ Stored(deleting[k].id)
              /\ rows[deleting[k].id].source = FromTelegram
              /\ rows[deleting[k].id].message = deleting[k].row.message

TranscriptInv ==
    /\ TranscriptTypes /\ LinksAreTrue /\ RowsBelong /\ OneRowEach /\ OneStores
    /\ DeletesWhatItSaw /\ DeletionsAreTrue

-----------------------------------------------------------------------------
(* Transcript: what is known of the constants, and of the table *)

LEMMA TheGroup ==
    /\ Imports \subseteq Nat \ {0} /\ Live \subseteq Nat \ {0} /\ Exported \subseteq Nat \ {0}
    /\ FromTelegram \notin Imports /\ Nothing \notin Messages
    /\ Live \cap Exported = {} /\ Live \subseteq Messages /\ Exported \subseteq Messages
    /\ \A m \in Messages : Date[m] \in Nat /\ ReplyTo[m] \in Messages \cup {Nothing}
    /\ Own \subseteq Live /\ Pinned \subseteq Live
BY TranscriptAssumption DEF Messages, FromTelegram, Nothing

LEMMA Greatest ==
    ASSUME NEW S, S \subseteq Nat, IsFiniteSet(S), S # {}
    PROVE  Max(S) \in S /\ \A k \in S : k <= Max(S)
<1>1. PICK n : n = Cardinality(S)
  OBVIOUS
<1>2. n \in Nat /\ n # 0
  BY <1>1, FS_CardinalityType, FS_EmptySet
<1>3. PICK R : R = ByNumber(S)
  OBVIOUS
<1>4. \A x, y \in S : <<x, y>> \in R <=> x < y
  BY <1>3 DEF ByNumber
<1>5. IsOrder(S, R)
  BY <1>4 DEF IsOrder
<1>6. PICK x \in S : Cardinality(Below(S, R, x)) = n - 1
  <2>1. n \in 1 .. Cardinality(S)
    BY <1>1, <1>2
  <2> QED BY <1>5, <2>1, RanksReach
<1>7. Below(S, R, x) = S \ {x}
  <2>1. Below(S, R, x) \subseteq S \ {x}
    BY <1>5 DEF Below, IsOrder
  <2>2. IsFiniteSet(S \ {x}) /\ Cardinality(S \ {x}) = n - 1
    BY <1>1, FS_RemoveElement
  <2> QED BY <1>6, <2>1, <2>2, FS_Subset
<1>8. \A y \in S : x >= y
  <2>1. \A y \in S \ {x} : y < x
    BY <1>4, <1>7 DEF Below
  <2> QED BY <2>1
<1>9. Max(S) \in S /\ \A y \in S : Max(S) >= y
  BY <1>8 DEF Max
<1> QED BY <1>9

LEMMA FoundIs ==
    ASSUME NEW S, S \subseteq Nat \ {0}, IsFiniteSet(S)
    PROVE  /\ Found(S) \in Nat /\ (Found(S) # Nothing => Found(S) \in S)
           /\ \A k \in S : k <= Found(S)
<1>1. CASE S = {}
  BY <1>1 DEF Found, Nothing
<1>2. CASE S # {}
  <2>1. Found(S) = Max(S)
    BY <1>2 DEF Found
  <2> QED BY <1>2, <2>1, Greatest
<1> QED BY <1>1, <1>2

LEMMA NewIdIsNew ==
    ASSUME TranscriptTypes
    PROVE  NewId \in Nat \ {0} /\ NewId \notin DOMAIN rows
<1>1. PICK f : f = Found(DOMAIN rows)
  OBVIOUS
<1>2. f \in Nat /\ \A k \in DOMAIN rows : k \in Nat /\ k <= f
  BY <1>1, FoundIs DEF TranscriptTypes
<1>3. NewId = f + 1
  BY <1>1 DEF NewId
<1> QED BY <1>2, <1>3

LEMMA RowFound ==
    ASSUME TranscriptTypes, NEW source, NEW m
    PROVE  /\ Found(RowOf(source, m)) \in Nat
           /\ Found(RowOf(source, m)) # Nothing =>
                 /\ Found(RowOf(source, m)) \in DOMAIN rows
                 /\ rows[Found(RowOf(source, m))].source = source
                 /\ rows[Found(RowOf(source, m))].message = m
<1>1. PICK S : S = RowOf(source, m)
  OBVIOUS
<1>2. S \in SUBSET DOMAIN rows /\ \A r \in S : rows[r].source = source /\ rows[r].message = m
  BY <1>1 DEF RowOf
<1>3. IsFiniteSet(S) /\ S \subseteq Nat \ {0}
  BY <1>2, FS_Subset DEF TranscriptTypes
<1> QED BY <1>1, <1>2, <1>3, FoundIs

RowsTyped(t) == IsFiniteSet(DOMAIN t) /\ DOMAIN t \subseteq Nat \ {0} /\ t \in [DOMAIN t -> Row]

LEMMA AddedIs ==
    ASSUME TranscriptTypes, NEW new \in Row, NEW id, id = NewId, rows' = Added(new)
    PROVE  /\ RowsTyped(rows') /\ DOMAIN rows' = DOMAIN rows \cup {id}
           /\ id \notin DOMAIN rows /\ id \in Nat \ {0}
           /\ rows'[id] = new /\ \A r \in DOMAIN rows : rows'[r] = rows[r]
<1>1. id \in Nat \ {0} /\ id \notin DOMAIN rows
  BY NewIdIsNew
<1>2. rows' = [r \in DOMAIN rows \cup {id} |-> IF r = id THEN new ELSE rows[r]]
  BY DEF Added
<1>3. DOMAIN rows' = DOMAIN rows \cup {id} /\ rows'[id] = new
  BY <1>2
<1>4. \A r \in DOMAIN rows : rows'[r] = rows[r]
  BY <1>1, <1>2
<1>5. IsFiniteSet(DOMAIN rows')
  BY <1>3, FS_AddElement DEF TranscriptTypes
<1>6. \A r \in DOMAIN rows : rows[r] \in Row
  BY DEF TranscriptTypes
<1>7. rows' \in [DOMAIN rows' -> Row]
  BY <1>2, <1>3, <1>4, <1>6
<1>8. DOMAIN rows' \subseteq Nat \ {0}
  BY <1>1, <1>3 DEF TranscriptTypes
<1> QED BY <1>1, <1>3, <1>4, <1>5, <1>7, <1>8 DEF RowsTyped

LEMMA WithoutIs ==
    ASSUME TranscriptTypes, NEW S, NEW within, rows' = Without(S, within)
    PROVE  /\ RowsTyped(rows') /\ DOMAIN rows' = DOMAIN rows \ S
           /\ \A r \in DOMAIN rows' :
                 /\ rows'[r].source = rows[r].source /\ rows'[r].message = rows[r].message
                 /\ rows'[r].deleted = rows[r].deleted
                 /\ rows'[r].reply # Nothing =>
                       /\ rows'[r].reply = rows[r].reply
                       /\ rows[r].source \in within => rows[r].reply \notin S
<1>1. rows' = [r \in DOMAIN rows \ S |-> IF rows[r].source \in within /\ rows[r].reply \in S
                                         THEN [rows[r] EXCEPT !.reply = Nothing] ELSE rows[r]]
  BY DEF Without
<1>2. DOMAIN rows' = DOMAIN rows \ S
  BY <1>1
<1>3. IsFiniteSet(DOMAIN rows')
  <2>1. IsFiniteSet(DOMAIN rows) /\ DOMAIN rows' \in SUBSET DOMAIN rows
    BY <1>2 DEF TranscriptTypes
  <2> QED BY <2>1, FS_Subset
<1>4. ASSUME NEW r \in DOMAIN rows'
      PROVE  /\ rows'[r] \in Row
             /\ rows'[r].source = rows[r].source /\ rows'[r].message = rows[r].message
             /\ rows'[r].deleted = rows[r].deleted
             /\ rows'[r].reply # Nothing =>
                   /\ rows'[r].reply = rows[r].reply
                   /\ rows[r].source \in within => rows[r].reply \notin S
  <2>1. PICK was, none : was = rows[r] /\ none = Nothing
    OBVIOUS
  <2>2. was \in Row /\ none \in Nat
    BY <1>2, <2>1 DEF TranscriptTypes, Nothing
  <2>3. rows'[r] = IF was.source \in within /\ was.reply \in S
                   THEN [was EXCEPT !.reply = none] ELSE was
    BY <1>1, <1>2, <2>1
  <2>4. CASE was.source \in within /\ was.reply \in S
    <3>1. rows'[r] = [was EXCEPT !.reply = none]
      BY <2>3, <2>4
    <3> QED BY <2>1, <2>2, <3>1 DEF Row
  <2>5. CASE ~(was.source \in within /\ was.reply \in S)
    BY <2>1, <2>2, <2>3, <2>5
  <2> QED BY <2>4, <2>5
<1>5. rows' \in [DOMAIN rows' -> Row]
  BY <1>1, <1>4
<1>6. DOMAIN rows' \subseteq Nat \ {0}
  BY <1>2 DEF TranscriptTypes
<1> QED BY <1>2, <1>3, <1>4, <1>5, <1>6 DEF RowsTyped

-----------------------------------------------------------------------------
(* Transcript: the steps *)

\* What has to be shown of a step
LEMMA TranscriptStep ==
    ASSUME RowsTyped(rows'), arrived' \subseteq Live, stage' \in [Imports -> RawStages],
           left' \in Seq(Exported), starts' \in 0 .. MaxStarts,
           deleting' \in Seq([id : Nat, row : Row]), gone' \subseteq Live, freed' \subseteq Nat,
           LinksAreTrue', RowsBelong', OneRowEach', OneStores', DeletesWhatItSaw', DeletionsAreTrue'
    PROVE  TranscriptInv'
<1>1. TranscriptTypes'
  BY DEF TranscriptTypes, RowsTyped
<1> QED BY <1>1 DEF TranscriptInv

LEMMA RowsAre ==
    ASSUME TranscriptInv, NEW r \in DOMAIN rows
    PROVE  /\ rows[r] \in Row /\ r \in Nat \ {0}
           /\ rows[r].source \in {FromTelegram} \cup Imports /\ rows[r].message \in Messages
           /\ rows[r].source # FromTelegram => rows[r].source \in Imports
           /\ Hidden(r) <=> (rows[r].source \in Imports /\ Running(rows[r].source))
<1>1. rows[r] \in Row /\ r \in Nat \ {0}
  BY DEF TranscriptInv, TranscriptTypes
<1> QED BY <1>1 DEF Row, Hidden

LEMMA InvTypes ==
    ASSUME TranscriptInv
    PROVE  /\ TranscriptTypes /\ RowsTyped(rows)
           /\ arrived \subseteq Live /\ stage \in [Imports -> RawStages]
           /\ left \in Seq(Exported) /\ starts \in 0 .. MaxStarts
           /\ deleting \in Seq([id : Nat, row : Row])
           /\ gone \subseteq Live /\ freed \subseteq Nat
           /\ LinksAreTrue /\ RowsBelong /\ OneRowEach /\ OneStores
           /\ DeletesWhatItSaw /\ DeletionsAreTrue
BY DEF TranscriptInv, TranscriptTypes, RowsTyped

\* Rows go: what stays is as it was, and no link leads to what went.
LEMMA RowsGo ==
    ASSUME TranscriptInv, NEW S, NEW within, rows' = Without(S, within),
           UNCHANGED arrived, UNCHANGED gone, freed \subseteq freed',
           \A r \in DOMAIN rows \ S :
              /\ rows[r].reply \in S => rows[r].source \in within
              /\ rows[r].source # FromTelegram => stage'[rows[r].source] # "waiting"
    PROVE  /\ RowsTyped(rows') /\ DOMAIN rows' = DOMAIN rows \ S
           /\ \A r \in DOMAIN rows' :
                 rows'[r].source = rows[r].source /\ rows'[r].message = rows[r].message
           /\ LinksAreTrue' /\ RowsBelong' /\ DeletionsAreTrue'
<1>1. /\ RowsTyped(rows') /\ DOMAIN rows' = DOMAIN rows \ S
      /\ \A r \in DOMAIN rows' :
            /\ rows'[r].source = rows[r].source /\ rows'[r].message = rows[r].message
            /\ rows'[r].deleted = rows[r].deleted
            /\ rows'[r].reply # Nothing =>
                  /\ rows'[r].reply = rows[r].reply
                  /\ rows[r].source \in within => rows[r].reply \notin S
  BY InvTypes, WithoutIs
<1>2. LinksAreTrue'
  <2> SUFFICES ASSUME NEW r \in DOMAIN rows', rows'[r].reply # Nothing
               PROVE  /\ rows'[r].reply \in DOMAIN rows'
                      /\ rows'[rows'[r].reply].message = ReplyTo[rows'[r].message]
                      /\ rows'[rows'[r].reply].source = rows'[r].source
    BY DEF LinksAreTrue, Stored
  <2>1. PICK q : q = rows[r].reply
    OBVIOUS
  <2>2. rows'[r].reply = q /\ q # Nothing /\ q \notin S /\ r \in DOMAIN rows
    BY <1>1, <2>1
  <2>3. q \in DOMAIN rows /\ rows[q].message = ReplyTo[rows[r].message] /\ rows[q].source = rows[r].source
    BY <2>1, <2>2, InvTypes DEF LinksAreTrue, Stored
  <2> QED BY <1>1, <2>2, <2>3
<1>3. RowsBelong'
  <2> SUFFICES ASSUME NEW r \in DOMAIN rows'
               PROVE  IF rows'[r].source = FromTelegram THEN rows'[r].message \in arrived
                      ELSE /\ rows'[r].message \in Exported
                           /\ Date[rows'[r].message] \in DatesOf[rows'[r].source]
                           /\ stage'[rows'[r].source] # "waiting"
    BY DEF RowsBelong
  <2> QED BY <1>1, InvTypes DEF RowsBelong
<1>4. DeletionsAreTrue'
  BY <1>1, InvTypes DEF DeletionsAreTrue
<1> QED BY <1>1, <1>2, <1>3, <1>4

\* ... and still once, if it is not seen otherwise.
LEMMA FewerRowsEach ==
    ASSUME TranscriptInv, DOMAIN rows' \subseteq DOMAIN rows,
           \A r \in DOMAIN rows' :
              /\ rows'[r].source = rows[r].source /\ rows'[r].message = rows[r].message
              /\ Hidden(r)' <=> Hidden(r)
    PROVE  OneRowEach'
<1> SUFFICES ASSUME NEW q \in DOMAIN rows', NEW r \in DOMAIN rows',
                    rows'[q].message = rows'[r].message,
                    rows'[q].source = rows'[r].source \/ (~Hidden(q)' /\ ~Hidden(r)')
             PROVE  q = r
  BY DEF OneRowEach
<1> QED BY InvTypes DEF OneRowEach

\* Nothing new is stored of an import.
LEMMA StoresStay ==
    ASSUME TranscriptInv, UNCHANGED stage, UNCHANGED left,
           \A r \in DOMAIN rows' : rows'[r].source \in Imports =>
              r \in DOMAIN rows /\ rows'[r].source = rows[r].source /\ rows'[r].message = rows[r].message
    PROVE  OneStores'
<1>1. OneStores
  BY InvTypes
<1>2. \A i, j \in Imports : Running(i)' /\ Running(j)' => i = j
  BY <1>1 DEF OneStores, Running
<1>3. \A j, k \in 1 .. Len(left') : left'[j] = left'[k] => j = k
  BY <1>1 DEF OneStores
<1>4. ASSUME NEW i \in Imports, stage'[i] = "storing", NEW k \in 1 .. Len(left')
      PROVE  /\ Date[left'[k]] \in DatesOf[i]
             /\ \A r \in DOMAIN rows' : rows'[r].source = i => rows'[r].message # left'[k]
  <2>1. /\ Date[left[k]] \in DatesOf[i]
        /\ \A r \in DOMAIN rows : rows[r].source = i => rows[r].message # left[k]
    BY <1>1, <1>4 DEF OneStores
  <2> QED BY <2>1
<1> QED BY <1>2, <1>3, <1>4 DEF OneStores

LEMMA InsertLiveKeeps ==
    ASSUME TranscriptInv, NEW m \in Live, InsertLive(m)
    PROVE  TranscriptInv'
<1>1. PICK target : target = IF ReplyTo[m] = Nothing THEN Nothing
                             ELSE Found(RowOf(FromTelegram, ReplyTo[m]))
  OBVIOUS
<1>2. PICK new, id : /\ new = [source |-> FromTelegram, message |-> m, reply |-> target,
                               snippet |-> ReplyTo[m] # Nothing /\ target = Nothing,
                               deleted |-> FALSE]
                     /\ id = NewId
  OBVIOUS
<1>3. /\ target \in Nat
      /\ target # Nothing => /\ target \in DOMAIN rows /\ rows[target].source = FromTelegram
                             /\ rows[target].message = ReplyTo[m]
  BY <1>1, InvTypes, RowFound DEF Nothing
<1>4. new \in Row
  BY <1>2, <1>3, TheGroup DEF Row
<1>5. /\ m \notin arrived /\ arrived' = arrived \cup {m} /\ rows' = Added(new)
      /\ UNCHANGED stage /\ UNCHANGED left /\ UNCHANGED starts
      /\ UNCHANGED deleting /\ UNCHANGED gone /\ UNCHANGED freed
  BY <1>1, <1>2 DEF InsertLive, thread, deletion
<1>6. /\ RowsTyped(rows') /\ DOMAIN rows' = DOMAIN rows \cup {id}
      /\ id \notin DOMAIN rows /\ id \in Nat \ {0}
      /\ rows'[id] = new /\ \A r \in DOMAIN rows : rows'[r] = rows[r]
  BY <1>2, <1>4, <1>5, InvTypes, AddedIs
<1>7. new.source = FromTelegram /\ new.message = m /\ new.reply = target /\ new.deleted = FALSE
  BY <1>2
<1>8. LinksAreTrue'
  <2> SUFFICES ASSUME NEW r \in DOMAIN rows', rows'[r].reply # Nothing
               PROVE  /\ rows'[r].reply \in DOMAIN rows'
                      /\ rows'[rows'[r].reply].message = ReplyTo[rows'[r].message]
                      /\ rows'[rows'[r].reply].source = rows'[r].source
    BY DEF LinksAreTrue, Stored
  <2>1. CASE r = id
    BY <1>3, <1>6, <1>7, <2>1
  <2>2. CASE r \in DOMAIN rows
    <3>1. PICK q : q = rows[r].reply
      OBVIOUS
    <3>2. /\ q \in DOMAIN rows /\ rows[q].message = ReplyTo[rows[r].message]
          /\ rows[q].source = rows[r].source /\ rows'[r].reply = q
      BY <1>6, <2>2, <3>1, InvTypes DEF LinksAreTrue, Stored
    <3> QED BY <1>6, <2>2, <3>2
  <2> QED BY <1>6, <2>1, <2>2
<1>9. RowsBelong'
  <2> SUFFICES ASSUME NEW r \in DOMAIN rows'
               PROVE  IF rows'[r].source = FromTelegram THEN rows'[r].message \in arrived'
                      ELSE /\ rows'[r].message \in Exported
                           /\ Date[rows'[r].message] \in DatesOf[rows'[r].source]
                           /\ stage'[rows'[r].source] # "waiting"
    BY DEF RowsBelong
  <2> QED BY <1>5, <1>6, <1>7, InvTypes DEF RowsBelong
<1>10. OneRowEach'
  <2> SUFFICES ASSUME NEW q \in DOMAIN rows', NEW r \in DOMAIN rows',
                      rows'[q].message = rows'[r].message,
                      rows'[q].source = rows'[r].source \/ (~Hidden(q)' /\ ~Hidden(r)')
               PROVE  q = r
    BY DEF OneRowEach
  <2>1. ASSUME NEW x \in DOMAIN rows PROVE rows[x].message # m
    BY <1>5, InvTypes, TheGroup DEF RowsBelong
  <2>2. CASE q \in DOMAIN rows /\ r \in DOMAIN rows
    <3>1. (Hidden(q)' <=> Hidden(q)) /\ (Hidden(r)' <=> Hidden(r))
      BY <1>5, <1>6, <2>2 DEF Hidden, Running
    <3> QED BY <1>6, <2>2, <3>1, InvTypes DEF OneRowEach
  <2> QED BY <1>6, <1>7, <2>1, <2>2
<1>11. OneStores'
  <2>1. \A r \in DOMAIN rows' : rows'[r].source \in Imports =>
           r \in DOMAIN rows /\ rows'[r].source = rows[r].source /\ rows'[r].message = rows[r].message
    BY <1>6, <1>7, TheGroup
  <2> QED BY <1>5, <2>1, StoresStay
<1>12. DeletesWhatItSaw'
  BY <1>5, <1>6, InvTypes DEF DeletesWhatItSaw, Stored
<1>13. DeletionsAreTrue'
  BY <1>5, <1>6, <1>7, InvTypes DEF DeletionsAreTrue
<1>14. arrived' \subseteq Live
  BY <1>5, InvTypes
<1>15. /\ stage' \in [Imports -> RawStages] /\ left' \in Seq(Exported) /\ starts' \in 0 .. MaxStarts
       /\ deleting' \in Seq([id : Nat, row : Row]) /\ gone' \subseteq Live /\ freed' \subseteq Nat
  BY <1>5, InvTypes
<1> QED BY <1>6, <1>8, <1>9, <1>10, <1>11, <1>12, <1>13, <1>14, <1>15, TranscriptStep

\* The table as it was
LEMMA SameRows ==
    ASSUME TranscriptInv, UNCHANGED rows, UNCHANGED arrived, UNCHANGED gone, UNCHANGED freed,
           \A r \in DOMAIN rows : rows[r].source # FromTelegram => stage'[rows[r].source] # "waiting",
           \A r \in DOMAIN rows : Hidden(r)' <=> Hidden(r)
    PROVE  RowsTyped(rows') /\ LinksAreTrue' /\ RowsBelong' /\ OneRowEach' /\ DeletionsAreTrue'
<1>1. RowsTyped(rows') /\ LinksAreTrue' /\ DeletionsAreTrue'
  BY InvTypes DEF LinksAreTrue, DeletionsAreTrue, Stored
<1>2. RowsBelong'
  BY InvTypes DEF RowsBelong
<1>3. OneRowEach'
  BY FewerRowsEach
<1> QED BY <1>1, <1>2, <1>3

LEMMA RawStartsKeeps ==
    ASSUME TranscriptInv, NEW i \in Imports, RawStarts(i)
    PROVE  TranscriptInv'
<1>1. PICK asked : asked = {m \in Exported : Date[m] \in DatesOf[i]}
  OBVIOUS
<1>2. /\ \A j \in Imports : ~Running(j)
      /\ stage[i] = "waiting" /\ starts < MaxStarts /\ starts' = starts + 1
      /\ stage' = [stage EXCEPT ![i] = "storing"]
      /\ left' = InOrder(asked, ByNumber(asked))
      /\ UNCHANGED rows /\ UNCHANGED arrived
      /\ UNCHANGED deleting /\ UNCHANGED gone /\ UNCHANGED freed
  BY <1>1 DEF RawStarts, deletion
<1>3. stage' \in [Imports -> RawStages] /\ stage'[i] = "storing"
      /\ \A j \in Imports : j # i => stage'[j] = stage[j]
  BY <1>2, InvTypes DEF RawStages
<1>4. \A r \in DOMAIN rows : rows[r].source # i
  BY <1>2, InvTypes, TheGroup DEF RowsBelong
<1>5. \A r \in DOMAIN rows : rows[r].source # FromTelegram => stage'[rows[r].source] # "waiting"
  BY <1>3, <1>4, InvTypes, RowsAre DEF RowsBelong
<1>6. \A r \in DOMAIN rows : Hidden(r)' <=> Hidden(r)
  BY <1>2, <1>3, <1>4 DEF Hidden, Running
<1>7. RowsTyped(rows') /\ LinksAreTrue' /\ RowsBelong' /\ OneRowEach' /\ DeletionsAreTrue'
  BY <1>2, <1>5, <1>6, SameRows
<1>8. PICK n : n = Cardinality(asked)
  OBVIOUS
<1>9. n \in Nat /\ left' \in [1 .. n -> asked] /\ \A j, k \in 1 .. n : left'[j] = left'[k] => j = k
  <2>1. IsFiniteSet(asked) /\ asked \subseteq Nat
    <3>1. asked \in SUBSET Exported /\ IsFiniteSet(Exported) /\ Exported \subseteq Nat
      BY <1>1, TheGroup, TranscriptAssumption
    <3> QED BY <3>1, FS_Subset
  <2> QED BY <1>2, <1>8, <2>1, NumbersInOrder
<1>10. left' \in Seq(Exported) /\ Len(left') = n
  BY <1>1, <1>9
<1>11. OneStores'
  <2>1. \A j, k \in Imports : Running(j)' /\ Running(k)' => j = k
    BY <1>2, <1>3 DEF Running
  <2>2. \A j, k \in 1 .. Len(left') : left'[j] = left'[k] => j = k
    BY <1>9, <1>10
  <2>3. ASSUME NEW j \in Imports, stage'[j] = "storing", NEW k \in 1 .. Len(left')
        PROVE  /\ Date[left'[k]] \in DatesOf[j]
               /\ \A r \in DOMAIN rows' : rows'[r].source = j => rows'[r].message # left'[k]
    <3>1. j = i
      BY <1>2, <1>3, <2>3 DEF Running
    <3>2. left'[k] \in asked
      BY <1>9, <1>10
    <3> QED BY <1>1, <1>2, <1>4, <3>1, <3>2
  <2> QED BY <2>1, <2>2, <2>3 DEF OneStores
<1>12. DeletesWhatItSaw'
  BY <1>2, InvTypes DEF DeletesWhatItSaw, Stored
<1>13. starts' \in 0 .. MaxStarts
  <2>1. starts \in 0 .. MaxStarts /\ MaxStarts \in Nat
    BY InvTypes, TranscriptAssumption
  <2> QED BY <1>2, <2>1
<1>14. /\ deleting' \in Seq([id : Nat, row : Row]) /\ gone' \subseteq Live /\ freed' \subseteq Nat
       /\ arrived' \subseteq Live
  BY <1>2, InvTypes
<1> QED BY <1>3, <1>7, <1>10, <1>11, <1>12, <1>13, <1>14, TranscriptStep

LEMMA InsertImportedKeeps ==
    ASSUME TranscriptInv, NEW i \in Imports, InsertImported(i)
    PROVE  TranscriptInv'
<1>1. PICK new, id, m : /\ m = Head(left)
                        /\ new = [source |-> i, message |-> m, reply |-> Nothing,
                                  snippet |-> FALSE, deleted |-> FALSE]
                        /\ id = NewId
  OBVIOUS
<1>2. /\ stage[i] = "storing" /\ left # << >> /\ left' = Tail(left) /\ rows' = Added(new)
      /\ UNCHANGED arrived /\ UNCHANGED stage /\ UNCHANGED starts
      /\ UNCHANGED deleting /\ UNCHANGED gone /\ UNCHANGED freed
  BY <1>1 DEF InsertImported, deletion
<1>3. PICK n \in Nat : n = Len(left)
  BY InvTypes
<1>4. /\ n >= 1 /\ left \in [1 .. n -> Exported] /\ m = left[1] /\ m \in Exported
      /\ left' \in Seq(Exported) /\ Len(left') = n - 1
      /\ \A k \in 1 .. n - 1 : left'[k] = left[k + 1]
  BY <1>1, <1>2, <1>3, InvTypes
<1>5. new \in Row /\ new.source = i /\ new.message = m /\ new.reply = Nothing /\ new.deleted = FALSE
  BY <1>1, <1>4, TheGroup DEF Row, Nothing
<1>6. /\ RowsTyped(rows') /\ DOMAIN rows' = DOMAIN rows \cup {id}
      /\ id \notin DOMAIN rows /\ id \in Nat \ {0}
      /\ rows'[id] = new /\ \A r \in DOMAIN rows : rows'[r] = rows[r]
  BY <1>1, <1>2, <1>5, InvTypes, AddedIs
<1>7. /\ Date[m] \in DatesOf[i] /\ \A r \in DOMAIN rows : rows[r].source = i => rows[r].message # m
  <2>1. 1 \in 1 .. Len(left)
    BY <1>3, <1>4
  <2>2. /\ Date[left[1]] \in DatesOf[i]
        /\ \A r \in DOMAIN rows : rows[r].source = i => rows[r].message # left[1]
    BY <1>2, <2>1, InvTypes DEF OneStores
  <2> QED BY <1>4, <2>2
<1>8. LinksAreTrue'
  <2> SUFFICES ASSUME NEW r \in DOMAIN rows', rows'[r].reply # Nothing
               PROVE  /\ rows'[r].reply \in DOMAIN rows'
                      /\ rows'[rows'[r].reply].message = ReplyTo[rows'[r].message]
                      /\ rows'[rows'[r].reply].source = rows'[r].source
    BY DEF LinksAreTrue, Stored
  <2>1. r \in DOMAIN rows
    BY <1>5, <1>6
  <2>2. PICK q : q = rows[r].reply
    OBVIOUS
  <2>3. /\ q \in DOMAIN rows /\ rows[q].message = ReplyTo[rows[r].message]
        /\ rows[q].source = rows[r].source /\ rows'[r].reply = q
    BY <1>6, <2>1, <2>2, InvTypes DEF LinksAreTrue, Stored
  <2> QED BY <1>6, <2>1, <2>3
<1>9. RowsBelong'
  <2> SUFFICES ASSUME NEW r \in DOMAIN rows'
               PROVE  IF rows'[r].source = FromTelegram THEN rows'[r].message \in arrived'
                      ELSE /\ rows'[r].message \in Exported
                           /\ Date[rows'[r].message] \in DatesOf[rows'[r].source]
                           /\ stage'[rows'[r].source] # "waiting"
    BY DEF RowsBelong
  <2>1. CASE r = id
    BY <1>2, <1>4, <1>5, <1>6, <1>7, <2>1, TheGroup
  <2>2. CASE r \in DOMAIN rows
    BY <1>2, <1>6, <2>2, InvTypes DEF RowsBelong
  <2> QED BY <1>6, <2>1, <2>2
<1>10. OneRowEach'
  <2> SUFFICES ASSUME NEW q \in DOMAIN rows', NEW r \in DOMAIN rows',
                      rows'[q].message = rows'[r].message,
                      rows'[q].source = rows'[r].source \/ (~Hidden(q)' /\ ~Hidden(r)')
               PROVE  q = r
    BY DEF OneRowEach
  <2>1. Hidden(id)'
    BY <1>2, <1>5, <1>6 DEF Hidden, Running
  <2>2. CASE q \in DOMAIN rows /\ r \in DOMAIN rows
    <3>1. (Hidden(q)' <=> Hidden(q)) /\ (Hidden(r)' <=> Hidden(r))
      BY <1>2, <1>6, <2>2 DEF Hidden, Running
    <3> QED BY <1>6, <2>2, <3>1, InvTypes DEF OneRowEach
  <2> QED BY <1>5, <1>6, <1>7, <2>1, <2>2
<1>11. OneStores'
  <2>1. \A j, k \in Imports : Running(j)' /\ Running(k)' => j = k
    BY <1>2, InvTypes DEF OneStores, Running
  <2>2. ASSUME NEW j \in 1 .. Len(left'), NEW k \in 1 .. Len(left'), left'[j] = left'[k] PROVE j = k
    <3>1. j + 1 \in 1 .. Len(left) /\ k + 1 \in 1 .. Len(left) /\ left[j + 1] = left[k + 1]
      BY <1>3, <1>4, <2>2
    <3>2. j + 1 = k + 1
      BY <3>1, InvTypes DEF OneStores
    <3>3. j \in Nat /\ k \in Nat
      BY <1>4
    <3> QED BY <3>2, <3>3
  <2>3. ASSUME NEW j \in Imports, stage'[j] = "storing", NEW k \in 1 .. Len(left')
        PROVE  /\ Date[left'[k]] \in DatesOf[j]
               /\ \A r \in DOMAIN rows' : rows'[r].source = j => rows'[r].message # left'[k]
    <3>1. j = i
      BY <1>2, <2>3, InvTypes DEF Running, OneStores
    <3>2. k + 1 \in 1 .. Len(left) /\ left'[k] = left[k + 1] /\ k + 1 # 1 /\ 1 \in 1 .. Len(left)
      BY <1>3, <1>4
    <3>3. left'[k] # m
      BY <1>4, <3>2, InvTypes DEF OneStores
    <3>4. /\ Date[left[k + 1]] \in DatesOf[i]
          /\ \A r \in DOMAIN rows : rows[r].source = i => rows[r].message # left[k + 1]
      BY <1>2, <3>2, InvTypes DEF OneStores
    <3> QED BY <1>5, <1>6, <3>1, <3>2, <3>3, <3>4
  <2> QED BY <2>1, <2>2, <2>3 DEF OneStores
<1>12. DeletesWhatItSaw'
  BY <1>2, <1>6, InvTypes DEF DeletesWhatItSaw, Stored
<1>13. DeletionsAreTrue'
  BY <1>2, <1>5, <1>6, InvTypes DEF DeletionsAreTrue
<1>14. /\ stage' \in [Imports -> RawStages] /\ starts' \in 0 .. MaxStarts
       /\ deleting' \in Seq([id : Nat, row : Row]) /\ gone' \subseteq Live /\ freed' \subseteq Nat
       /\ arrived' \subseteq Live
  BY <1>2, InvTypes
<1> QED BY <1>4, <1>6, <1>8, <1>9, <1>10, <1>11, <1>12, <1>13, <1>14, TranscriptStep

LEMMA ResolveKeeps ==
    ASSUME TranscriptInv, NEW i \in Imports, ResolveImportReplies(i)
    PROVE  TranscriptInv'
<1>1. /\ stage[i] = "storing" /\ left = << >> /\ stage' = [stage EXCEPT ![i] = "resolved"]
      /\ UNCHANGED arrived /\ UNCHANGED left /\ UNCHANGED starts
      /\ UNCHANGED deleting /\ UNCHANGED gone /\ UNCHANGED freed
  BY DEF ResolveImportReplies, deletion
<1>2. /\ stage' \in [Imports -> RawStages] /\ stage'[i] = "resolved"
      /\ \A j \in Imports : j # i => stage'[j] = stage[j]
      /\ \A j \in Imports : Running(j)' <=> Running(j)
  BY <1>1, InvTypes DEF RawStages, Running
<1>3. rows' = [r \in DOMAIN rows |->
                   IF rows[r].source # i \/ ReplyTo[rows[r].message] = Nothing THEN rows[r]
                   ELSE [rows[r] EXCEPT !.reply = Found(RowOf(i, ReplyTo[rows[r].message]))]]
  BY DEF ResolveImportReplies
<1>4. DOMAIN rows' = DOMAIN rows
  BY <1>3
<1>5. ASSUME NEW r \in DOMAIN rows
      PROVE  /\ rows'[r] \in Row /\ rows'[r].source = rows[r].source
             /\ rows'[r].message = rows[r].message /\ rows'[r].deleted = rows[r].deleted
             /\ rows'[r].reply # Nothing =>
                   /\ rows'[r].reply \in DOMAIN rows
                   /\ rows[rows'[r].reply].message = ReplyTo[rows[r].message]
                   /\ rows[rows'[r].reply].source = rows[r].source
  <2>1. PICK was, q : was = rows[r] /\ q = Found(RowOf(i, ReplyTo[rows[r].message]))
    OBVIOUS
  <2>2. was \in Row
    BY <2>1, RowsAre
  <2>3. /\ q \in Nat
        /\ q # Nothing => /\ q \in DOMAIN rows /\ rows[q].source = i
                          /\ rows[q].message = ReplyTo[was.message]
    BY <2>1, InvTypes, RowFound
  <2>4. CASE was.source # i \/ ReplyTo[was.message] = Nothing
    <3>1. rows'[r] = was
      BY <1>3, <2>1, <2>4
    <3>2. was.reply # Nothing =>
             /\ was.reply \in DOMAIN rows /\ rows[was.reply].message = ReplyTo[was.message]
             /\ rows[was.reply].source = was.source
      BY <2>1, InvTypes DEF LinksAreTrue, Stored
    <3> QED BY <2>1, <2>2, <3>1, <3>2
  <2>5. CASE ~(was.source # i \/ ReplyTo[was.message] = Nothing)
    <3>1. rows'[r] = [was EXCEPT !.reply = q]
      BY <1>3, <2>1, <2>5
    <3>2. /\ rows'[r] \in Row /\ rows'[r].source = was.source /\ rows'[r].message = was.message
          /\ rows'[r].deleted = was.deleted /\ rows'[r].reply = q
      BY <2>2, <2>3, <3>1 DEF Row
    <3> QED BY <2>1, <2>3, <2>5, <3>2
  <2> QED BY <2>4, <2>5
<1>6. RowsTyped(rows')
  <2>1. rows' \in [DOMAIN rows' -> Row]
    BY <1>3, <1>4, <1>5
  <2> QED BY <1>4, <2>1, InvTypes DEF RowsTyped
<1>7. LinksAreTrue'
  <2> SUFFICES ASSUME NEW r \in DOMAIN rows', rows'[r].reply # Nothing
               PROVE  /\ rows'[r].reply \in DOMAIN rows'
                      /\ rows'[rows'[r].reply].message = ReplyTo[rows'[r].message]
                      /\ rows'[rows'[r].reply].source = rows'[r].source
    BY DEF LinksAreTrue, Stored
  <2> QED BY <1>4, <1>5
<1>8. RowsBelong'
  <2> SUFFICES ASSUME NEW r \in DOMAIN rows'
               PROVE  IF rows'[r].source = FromTelegram THEN rows'[r].message \in arrived'
                      ELSE /\ rows'[r].message \in Exported
                           /\ Date[rows'[r].message] \in DatesOf[rows'[r].source]
                           /\ stage'[rows'[r].source] # "waiting"
    BY DEF RowsBelong
  <2>1. rows[r].source # FromTelegram => rows[r].source \in Imports
    BY <1>4, RowsAre
  <2> QED BY <1>1, <1>2, <1>4, <1>5, <2>1, InvTypes DEF RowsBelong
<1>9. OneRowEach'
  <2>1. \A r \in DOMAIN rows : Hidden(r)' <=> Hidden(r)
    BY <1>2, <1>4, <1>5 DEF Hidden
  <2> QED BY <1>4, <1>5, <2>1, FewerRowsEach
<1>10. OneStores'
  <2>1. Len(left') = 0
    BY <1>1
  <2>2. \A j, k \in Imports : Running(j)' /\ Running(k)' => j = k
    BY <1>2, InvTypes DEF OneStores
  <2> QED BY <2>1, <2>2 DEF OneStores
<1>11. DeletesWhatItSaw'
  BY <1>1, <1>4, <1>5, InvTypes DEF DeletesWhatItSaw, Stored
<1>12. DeletionsAreTrue'
  BY <1>1, <1>4, <1>5, InvTypes DEF DeletionsAreTrue
<1>13. /\ left' \in Seq(Exported) /\ starts' \in 0 .. MaxStarts
       /\ deleting' \in Seq([id : Nat, row : Row]) /\ gone' \subseteq Live /\ freed' \subseteq Nat
       /\ arrived' \subseteq Live
  BY <1>1, InvTypes
<1> QED BY <1>2, <1>6, <1>7, <1>8, <1>9, <1>10, <1>11, <1>12, <1>13, TranscriptStep

\* A row that is linked to is of the same source.
LEMMA LinkedIs ==
    ASSUME TranscriptInv, NEW S, S \subseteq DOMAIN rows, NEW r \in DOMAIN rows, rows[r].reply \in S
    PROVE  rows[rows[r].reply].source = rows[r].source
<1>1. rows[r].reply # Nothing
  BY InvTypes DEF TranscriptTypes, Nothing
<1> QED BY <1>1, InvTypes DEF LinksAreTrue

LEMMA MakeVisibleKeeps ==
    ASSUME TranscriptInv, NEW i \in Imports, MakeVisible(i)
    PROVE  TranscriptInv'
<1>1. PICK S : S = Replaced(i)
  OBVIOUS
<1>2. /\ stage[i] = "resolved" /\ stage' = [stage EXCEPT ![i] = "done"]
      /\ rows' = Without(S, Imports)
      /\ UNCHANGED arrived /\ UNCHANGED left /\ UNCHANGED starts
      /\ UNCHANGED deleting /\ UNCHANGED gone /\ UNCHANGED freed
  BY <1>1 DEF MakeVisible, deletion
<1>3. /\ S \subseteq DOMAIN rows
      /\ \A r \in S : rows[r].source \in Imports
      /\ \A q, r \in DOMAIN rows :
            rows[q].source = i /\ rows[r].source \in Imports \ {i} /\ Date[rows[r].message] \in DatesOf[i]
            => r \in S
  BY <1>1 DEF Replaced
<1>4. /\ stage' \in [Imports -> RawStages] /\ stage'[i] = "done"
      /\ \A j \in Imports : j # i => stage'[j] = stage[j]
  BY <1>2, InvTypes DEF RawStages
<1>5. Running(i) /\ \A j \in Imports : Running(j) => j = i
  BY <1>2, InvTypes DEF OneStores, Running
<1>6. \A j \in Imports : ~Running(j)'
  BY <1>4, <1>5 DEF Running
<1>7. \A r \in DOMAIN rows \ S :
         /\ rows[r].reply \in S => rows[r].source \in Imports
         /\ rows[r].source # FromTelegram => stage'[rows[r].source] # "waiting"
  <2>1. ASSUME NEW r \in DOMAIN rows \ S, rows[r].reply \in S PROVE rows[r].source \in Imports
    BY <1>3, <2>1, LinkedIs
  <2>2. ASSUME NEW r \in DOMAIN rows \ S, rows[r].source # FromTelegram
        PROVE  stage'[rows[r].source] # "waiting"
    <3>1. rows[r].source \in Imports /\ stage[rows[r].source] # "waiting"
      BY <2>2, RowsAre, InvTypes DEF RowsBelong
    <3> QED BY <1>4, <3>1
  <2> QED BY <2>1, <2>2
<1>8. /\ RowsTyped(rows') /\ DOMAIN rows' = DOMAIN rows \ S
      /\ \A r \in DOMAIN rows' :
            rows'[r].source = rows[r].source /\ rows'[r].message = rows[r].message
      /\ LinksAreTrue' /\ RowsBelong' /\ DeletionsAreTrue'
  BY <1>2, <1>7, RowsGo
<1>9. OneRowEach'
  <2> SUFFICES ASSUME NEW q \in DOMAIN rows', NEW r \in DOMAIN rows',
                      rows'[q].message = rows'[r].message
               PROVE  q = r
    BY DEF OneRowEach
  <2>1. /\ q \in DOMAIN rows \ S /\ r \in DOMAIN rows \ S /\ rows[q].message = rows[r].message
        /\ (rows[q].source # FromTelegram => rows[q].source \in Imports)
        /\ (rows[r].source # FromTelegram => rows[r].source \in Imports)
    BY <1>8, RowsAre
  <2>2. CASE rows[q].source = rows[r].source
    BY <2>1, <2>2, InvTypes DEF OneRowEach
  <2>3. CASE rows[q].source # i /\ rows[r].source # i
    <3>1. ~Hidden(q) /\ ~Hidden(r)
      BY <1>5, <2>3 DEF Hidden
    <3> QED BY <2>1, <3>1, InvTypes DEF OneRowEach
  <2>4. ASSUME NEW x \in DOMAIN rows \ S, NEW y \in DOMAIN rows \ S, rows[x].source = i,
               rows[y].source # i, rows[x].message = rows[y].message
        PROVE  FALSE
    <3>1. rows[x].message \in Exported /\ Date[rows[x].message] \in DatesOf[i]
      BY <2>4, InvTypes, TheGroup DEF RowsBelong
    <3>2. CASE rows[y].source = FromTelegram
      BY <2>4, <3>1, <3>2, InvTypes, TheGroup DEF RowsBelong
    <3>3. CASE rows[y].source # FromTelegram
      <4>1. rows[y].source \in Imports \ {i}
        BY <2>4, <3>3, RowsAre
      <4> QED BY <1>3, <2>4, <3>1, <4>1
    <3> QED BY <3>2, <3>3
  <2> QED BY <2>1, <2>2, <2>3, <2>4
<1>10. OneStores'
  <2>1. \A j, k \in 1 .. Len(left') : left'[j] = left'[k] => j = k
    BY <1>2, InvTypes DEF OneStores
  <2>2. \A j \in Imports : stage'[j] # "storing"
    BY <1>6 DEF Running
  <2> QED BY <1>6, <2>1, <2>2 DEF OneStores
<1>11. DeletesWhatItSaw'
  <2>1. ASSUME NEW k \in 1 .. Len(deleting)
        PROVE  /\ deleting[k].row.source = FromTelegram /\ deleting[k].row.message \in Own \ Pinned
               /\ deleting[k].id \notin freed =>
                     /\ deleting[k].id \in DOMAIN rows'
                     /\ rows'[deleting[k].id].source = FromTelegram
                     /\ rows'[deleting[k].id].message = deleting[k].row.message
    <3>1. /\ deleting[k].row.source = FromTelegram /\ deleting[k].row.message \in Own \ Pinned
          /\ deleting[k].id \notin freed =>
                /\ deleting[k].id \in DOMAIN rows
                /\ rows[deleting[k].id].source = FromTelegram
                /\ rows[deleting[k].id].message = deleting[k].row.message
      BY InvTypes DEF DeletesWhatItSaw, Stored
    <3> QED BY <1>3, <1>8, <3>1, TheGroup
  <2> QED BY <1>2, <2>1 DEF DeletesWhatItSaw, Stored
<1>12. /\ left' \in Seq(Exported) /\ starts' \in 0 .. MaxStarts
       /\ deleting' \in Seq([id : Nat, row : Row]) /\ gone' \subseteq Live /\ freed' \subseteq Nat
       /\ arrived' \subseteq Live
  BY <1>2, InvTypes
<1> QED BY <1>4, <1>8, <1>9, <1>10, <1>11, <1>12, TranscriptStep

\* The rows of some imports go, which links do not cross.
LEMMA ImportsGo ==
    ASSUME TranscriptInv, NEW dropped, dropped \subseteq Imports, NEW S,
           S = {r \in DOMAIN rows : rows[r].source \in dropped},
           \A j \in Imports : Running(j) => j \in dropped,
           \A j \in Imports : ~Running(j)',
           \A j \in Imports \ dropped : stage'[j] = stage[j],
           rows' = Without(S, {}), left' = << >>,
           UNCHANGED arrived, UNCHANGED gone, UNCHANGED freed,
           deleting' = deleting \/ deleting' = << >>
    PROVE  /\ RowsTyped(rows') /\ LinksAreTrue' /\ RowsBelong' /\ OneRowEach' /\ OneStores'
           /\ DeletesWhatItSaw' /\ DeletionsAreTrue'
<1>1. \A r \in DOMAIN rows \ S :
         /\ rows[r].reply \in S => rows[r].source \in {}
         /\ rows[r].source # FromTelegram => stage'[rows[r].source] # "waiting"
  <2>1. ASSUME NEW r \in DOMAIN rows \ S, rows[r].reply \in S PROVE FALSE
    <3>1. rows[rows[r].reply].source = rows[r].source
      BY <2>1, LinkedIs
    <3> QED BY <2>1, <3>1
  <2>2. ASSUME NEW r \in DOMAIN rows \ S, rows[r].source # FromTelegram
        PROVE  stage'[rows[r].source] # "waiting"
    <3>1. rows[r].source \in Imports \ dropped /\ stage[rows[r].source] # "waiting"
      BY <2>2, RowsAre, InvTypes DEF RowsBelong
    <3> QED BY <3>1
  <2> QED BY <2>1, <2>2
<1>2. /\ RowsTyped(rows') /\ DOMAIN rows' = DOMAIN rows \ S
      /\ \A r \in DOMAIN rows' :
            rows'[r].source = rows[r].source /\ rows'[r].message = rows[r].message
      /\ LinksAreTrue' /\ RowsBelong' /\ DeletionsAreTrue'
  BY <1>1, RowsGo
<1>3. OneRowEach'
  <2>1. \A r \in DOMAIN rows' : ~Hidden(r)' /\ ~Hidden(r)
    BY <1>2 DEF Hidden
  <2> QED BY <1>2, <2>1, FewerRowsEach
<1>4. OneStores'
  <2>1. Len(left') = 0
    OBVIOUS
  <2> QED BY <2>1 DEF OneStores
<1>5. DeletesWhatItSaw'
  <2>1. CASE deleting' = << >>
    <3>1. Len(deleting') = 0
      BY <2>1
    <3> QED BY <3>1 DEF DeletesWhatItSaw
  <2>2. CASE deleting' = deleting
    <3>1. ASSUME NEW k \in 1 .. Len(deleting)
          PROVE  /\ deleting[k].row.source = FromTelegram /\ deleting[k].row.message \in Own \ Pinned
                 /\ deleting[k].id \notin freed =>
                       /\ deleting[k].id \in DOMAIN rows'
                       /\ rows'[deleting[k].id].source = FromTelegram
                       /\ rows'[deleting[k].id].message = deleting[k].row.message
      <4>1. /\ deleting[k].row.source = FromTelegram /\ deleting[k].row.message \in Own \ Pinned
            /\ deleting[k].id \notin freed =>
                  /\ deleting[k].id \in DOMAIN rows
                  /\ rows[deleting[k].id].source = FromTelegram
                  /\ rows[deleting[k].id].message = deleting[k].row.message
        BY InvTypes DEF DeletesWhatItSaw, Stored
      <4> QED BY <1>2, <4>1, TheGroup
    <3> QED BY <2>2, <3>1 DEF DeletesWhatItSaw, Stored
  <2> QED BY <2>1, <2>2
<1> QED BY <1>2, <1>3, <1>4, <1>5

LEMMA RollBackKeeps ==
    ASSUME TranscriptInv, NEW i \in Imports, RollBack(i)
    PROVE  TranscriptInv'
<1>1. PICK S : S = {r \in DOMAIN rows : rows[r].source = i}
  OBVIOUS
<1>2. /\ Running(i) /\ stage' = [stage EXCEPT ![i] = "waiting"] /\ left' = << >>
      /\ rows' = Without(S, {})
      /\ UNCHANGED arrived /\ UNCHANGED starts
      /\ UNCHANGED deleting /\ UNCHANGED gone /\ UNCHANGED freed
  BY <1>1 DEF RollBack, deletion
<1>3. /\ stage' \in [Imports -> RawStages] /\ stage'[i] = "waiting"
      /\ \A j \in Imports : j # i => stage'[j] = stage[j]
  BY <1>2, InvTypes DEF RawStages
<1>4. \A j \in Imports : Running(j) => j = i
  BY <1>2, InvTypes DEF OneStores
<1>5. \A j \in Imports : ~Running(j)'
  BY <1>3, <1>4 DEF Running
<1>6. PICK dropped : dropped = {i}
  OBVIOUS
<1>7. /\ RowsTyped(rows') /\ LinksAreTrue' /\ RowsBelong' /\ OneRowEach' /\ OneStores'
      /\ DeletesWhatItSaw' /\ DeletionsAreTrue'
  <2>1. S = {r \in DOMAIN rows : rows[r].source \in dropped}
    BY <1>1, <1>6
  <2>2. dropped \subseteq Imports /\ \A j \in Imports : Running(j) => j \in dropped
    BY <1>4, <1>6
  <2>3. \A j \in Imports \ dropped : stage'[j] = stage[j]
    BY <1>3, <1>6
  <2>4. \A j \in dropped : stage'[j] = "waiting"
    BY <1>3, <1>6
  <2> QED BY <1>2, <1>5, <2>1, <2>2, <2>3, <2>4, ImportsGo
<1>8. /\ left' \in Seq(Exported) /\ starts' \in 0 .. MaxStarts
      /\ deleting' \in Seq([id : Nat, row : Row]) /\ gone' \subseteq Live /\ freed' \subseteq Nat
      /\ arrived' \subseteq Live
  BY <1>2, InvTypes
<1> QED BY <1>3, <1>7, <1>8, TranscriptStep

LEMMA DiesAndRecoversKeeps ==
    ASSUME TranscriptInv, DiesAndRecovers
    PROVE  TranscriptInv'
<1>1. PICK S, dropped : /\ dropped = {i \in Imports : Running(i)}
                        /\ S = {r \in DOMAIN rows : \E i \in Imports : Running(i) /\ rows[r].source = i}
  OBVIOUS
<1>2. /\ stage' = [i \in Imports |-> IF Running(i) THEN "waiting" ELSE stage[i]]
      /\ left' = << >> /\ deleting' = << >> /\ rows' = Without(S, {})
      /\ UNCHANGED arrived /\ UNCHANGED starts /\ UNCHANGED gone /\ UNCHANGED freed
  BY <1>1 DEF DiesAndRecovers
<1>3. stage' \in [Imports -> RawStages]
  BY <1>2, InvTypes DEF RawStages
<1>4. \A j \in Imports : ~Running(j)'
  BY <1>2 DEF Running
<1>5. /\ S = {r \in DOMAIN rows : rows[r].source \in dropped} /\ dropped \subseteq Imports
      /\ \A j \in Imports : Running(j) => j \in dropped
      /\ \A j \in Imports \ dropped : stage'[j] = stage[j]
  BY <1>1, <1>2
<1>6. /\ RowsTyped(rows') /\ LinksAreTrue' /\ RowsBelong' /\ OneRowEach' /\ OneStores'
      /\ DeletesWhatItSaw' /\ DeletionsAreTrue'
  BY <1>2, <1>4, <1>5, ImportsGo
<1>7. /\ left' \in Seq(Exported) /\ starts' \in 0 .. MaxStarts
      /\ deleting' \in Seq([id : Nat, row : Row]) /\ gone' \subseteq Live /\ freed' \subseteq Nat
      /\ arrived' \subseteq Live
  BY <1>2, InvTypes
<1> QED BY <1>3, <1>6, <1>7, TranscriptStep

LEMMA OwnerDeletesKeeps ==
    ASSUME TranscriptInv, NEW before, NEW sources, OwnerDeletes(before, sources)
    PROVE  TranscriptInv'
<1>1. PICK S, within : /\ S = {r \in DOMAIN rows : Date[rows[r].message] < before /\ rows[r].source \in sources}
                       /\ within = Imports \cup {FromTelegram}
  OBVIOUS
<1>2. /\ \A i \in Imports : ~Running(i)
      /\ rows' = Without(S, within)
      /\ freed' = freed \cup {r \in S : \E k \in DOMAIN deleting : deleting[k].id = r}
      /\ UNCHANGED arrived /\ UNCHANGED stage /\ UNCHANGED left /\ UNCHANGED starts
      /\ UNCHANGED deleting /\ UNCHANGED gone
  BY <1>1 DEF OwnerDeletes, thread
<1>3. S \subseteq DOMAIN rows /\ S \subseteq Nat
  BY <1>1, InvTypes DEF TranscriptTypes
<1>4. \A r \in DOMAIN rows \ S :
         /\ rows[r].reply \in S => rows[r].source \in within
         /\ rows[r].source # FromTelegram => stage'[rows[r].source] # "waiting"
  BY <1>1, <1>2, RowsAre, InvTypes DEF RowsBelong
<1>5. /\ RowsTyped(rows') /\ DOMAIN rows' = DOMAIN rows \ S
      /\ \A r \in DOMAIN rows' :
            rows'[r].source = rows[r].source /\ rows'[r].message = rows[r].message
      /\ LinksAreTrue' /\ RowsBelong' /\ DeletionsAreTrue'
  BY <1>2, <1>4, RowsGo
<1>6. OneRowEach'
  <2>1. \A r \in DOMAIN rows' : Hidden(r)' <=> Hidden(r)
    BY <1>2, <1>5 DEF Hidden, Running
  <2> QED BY <1>5, <2>1, FewerRowsEach
<1>7. OneStores'
  BY <1>2, <1>5, StoresStay
<1>8. DeletesWhatItSaw'
  <2>1. ASSUME NEW k \in 1 .. Len(deleting)
        PROVE  /\ deleting[k].row.source = FromTelegram /\ deleting[k].row.message \in Own \ Pinned
               /\ deleting[k].id \notin freed' =>
                     /\ deleting[k].id \in DOMAIN rows'
                     /\ rows'[deleting[k].id].source = FromTelegram
                     /\ rows'[deleting[k].id].message = deleting[k].row.message
    <3>1. /\ deleting[k].row.source = FromTelegram /\ deleting[k].row.message \in Own \ Pinned
          /\ deleting[k].id \notin freed =>
                /\ deleting[k].id \in DOMAIN rows
                /\ rows[deleting[k].id].source = FromTelegram
                /\ rows[deleting[k].id].message = deleting[k].row.message
      BY InvTypes DEF DeletesWhatItSaw, Stored
    <3>2. k \in DOMAIN deleting
      BY InvTypes
    <3>3. deleting[k].id \notin freed' => deleting[k].id \notin freed /\ deleting[k].id \notin S
      BY <1>2, <3>2
    <3> QED BY <1>5, <3>1, <3>3
  <2> QED BY <1>2, <2>1 DEF DeletesWhatItSaw, Stored
<1>9. /\ stage' \in [Imports -> RawStages] /\ left' \in Seq(Exported) /\ starts' \in 0 .. MaxStarts
      /\ deleting' \in Seq([id : Nat, row : Row]) /\ gone' \subseteq Live /\ arrived' \subseteq Live
  BY <1>2, InvTypes
<1>10. freed' \subseteq Nat
  BY <1>2, <1>3, InvTypes
<1> QED BY <1>5, <1>6, <1>7, <1>8, <1>9, <1>10, TranscriptStep

LEMMA DeletionBeginsKeeps ==
    ASSUME TranscriptInv, NEW ids \in SUBSET DOMAIN rows, DeletionBegins(ids)
    PROVE  TranscriptInv'
<1>1. PICK order, n : order = InOrder(ids, ByNumber(ids)) /\ n = Cardinality(ids)
  OBVIOUS
<1>2. /\ \A r \in ids : ~Refused(r)
      /\ deleting' = [k \in 1 .. n |-> [id |-> order[k], row |-> rows[order[k]]]]
      /\ UNCHANGED rows /\ UNCHANGED arrived /\ UNCHANGED stage /\ UNCHANGED left
      /\ UNCHANGED starts /\ UNCHANGED gone /\ UNCHANGED freed
  BY <1>1 DEF DeletionBegins, thread
<1>3. IsFiniteSet(ids) /\ ids \subseteq Nat
  BY InvTypes, FS_Subset DEF TranscriptTypes
<1>4. n \in Nat /\ order \in [1 .. n -> ids]
  BY <1>1, <1>3, NumbersInOrder
<1>5. ASSUME NEW k \in 1 .. n
      PROVE  /\ deleting'[k] \in [id : Nat, row : Row] /\ deleting'[k].id \in DOMAIN rows
             /\ deleting'[k].row = rows[deleting'[k].id] /\ deleting'[k].row.source = FromTelegram
             /\ deleting'[k].row.message \in Own \ Pinned
  <2>1. PICK r \in ids : r = order[k]
    BY <1>4
  <2>2. PICK was : was = rows[r]
    OBVIOUS
  <2>3. deleting'[k] = [id |-> r, row |-> was]
    BY <1>2, <2>1, <2>2
  <2>4. was \in Row /\ r \in Nat
    BY <1>3, <2>2, RowsAre
  <2>5. was.source = FromTelegram /\ was.message \in Own \ Pinned
    BY <1>2, <2>2 DEF Refused
  <2>6. /\ deleting'[k] \in [id : Nat, row : Row] /\ deleting'[k].id = r /\ deleting'[k].row = was
    BY <2>3, <2>4
  <2> QED BY <2>1, <2>2, <2>5, <2>6
<1>6. deleting' \in Seq([id : Nat, row : Row]) /\ Len(deleting') = n
  <2>1. PICK s, T : s = deleting' /\ T = [id : Nat, row : Row]
    OBVIOUS
  <2>2. s \in [1 .. n -> T]
    BY <1>2, <1>5, <2>1
  <2>3. s \in Seq(T) /\ Len(s) = n
    BY <1>4, <2>2
  <2> QED BY <2>1, <2>3
<1>7. DeletesWhatItSaw'
  BY <1>2, <1>5, <1>6 DEF DeletesWhatItSaw, Stored
<1>8. RowsTyped(rows') /\ LinksAreTrue' /\ RowsBelong' /\ OneRowEach' /\ DeletionsAreTrue'
  <2>1. \A r \in DOMAIN rows : rows[r].source # FromTelegram => stage'[rows[r].source] # "waiting"
    BY <1>2, InvTypes DEF RowsBelong
  <2>2. \A r \in DOMAIN rows : Hidden(r)' <=> Hidden(r)
    BY <1>2 DEF Hidden, Running
  <2> QED BY <1>2, <2>1, <2>2, SameRows
<1>9. OneStores'
  BY <1>2, StoresStay
<1>10. /\ stage' \in [Imports -> RawStages] /\ left' \in Seq(Exported) /\ starts' \in 0 .. MaxStarts
       /\ gone' \subseteq Live /\ arrived' \subseteq Live /\ freed' \subseteq Nat
  BY <1>2, InvTypes
<1> QED BY <1>6, <1>7, <1>8, <1>9, <1>10, TranscriptStep

LEMMA MarkedIs ==
    ASSUME TranscriptTypes, NEW id, MarkDeleted(id)
    PROVE  /\ RowsTyped(rows') /\ DOMAIN rows' = DOMAIN rows
           /\ \A r \in DOMAIN rows :
                 /\ rows'[r].source = rows[r].source /\ rows'[r].message = rows[r].message
                 /\ rows'[r].reply = rows[r].reply
                 /\ r # id => rows'[r].deleted = rows[r].deleted
<1>1. CASE ~Stored(id)
  <2>1. rows' = rows
    BY <1>1 DEF MarkDeleted
  <2> QED BY <2>1 DEF TranscriptTypes, RowsTyped
<1>2. CASE Stored(id)
  <2>1. PICK was, new : was = rows[id] /\ new = [was EXCEPT !.deleted = TRUE]
    OBVIOUS
  <2>2. id \in DOMAIN rows /\ was \in Row
    BY <1>2, <2>1 DEF Stored, TranscriptTypes
  <2>3. /\ new \in Row /\ new.source = was.source /\ new.message = was.message
        /\ new.reply = was.reply
    BY <2>1, <2>2 DEF Row
  <2>4. rows' = [rows EXCEPT ![id] = new]
    BY <1>2, <2>1 DEF MarkDeleted
  <2>5. /\ DOMAIN rows' = DOMAIN rows /\ rows'[id] = new
        /\ \A r \in DOMAIN rows : r # id => rows'[r] = rows[r]
    BY <2>2, <2>4 DEF TranscriptTypes
  <2>6. rows' \in [DOMAIN rows' -> Row]
    BY <2>2, <2>3, <2>4, <2>5 DEF TranscriptTypes
  <2>7. RowsTyped(rows')
    BY <2>5, <2>6 DEF RowsTyped, TranscriptTypes
  <2> QED BY <2>1, <2>3, <2>5, <2>7
<1> QED BY <1>1, <1>2

LEMMA DeletionGoesOnKeeps ==
    ASSUME TranscriptInv, DeletionGoesOn
    PROVE  TranscriptInv'
<1>1. PICK h, n : h = Head(deleting) /\ n = Len(deleting)
  OBVIOUS
<1>2. /\ deleting # << >> /\ deleting' = Tail(deleting)
      /\ \/ gone' = gone \cup {h.row.message} /\ MarkDeleted(h.id)
         \/ rows' = rows /\ gone' = gone
      /\ UNCHANGED arrived /\ UNCHANGED stage /\ UNCHANGED left
      /\ UNCHANGED starts /\ UNCHANGED freed
  BY <1>1 DEF DeletionGoesOn, thread
<1>3. /\ n \in Nat /\ n >= 1 /\ h = deleting[1] /\ 1 \in 1 .. Len(deleting)
      /\ deleting' \in Seq([id : Nat, row : Row]) /\ Len(deleting') = n - 1
      /\ \A k \in 1 .. n - 1 : deleting'[k] = deleting[k + 1] /\ k + 1 \in 1 .. Len(deleting)
  BY <1>1, <1>2, InvTypes
<1>4. /\ h.row.message \in Own \ Pinned
      /\ h.id \notin freed => h.id \in DOMAIN rows /\ rows[h.id].message = h.row.message
  BY <1>3, InvTypes DEF DeletesWhatItSaw, Stored
<1>5. /\ RowsTyped(rows') /\ DOMAIN rows' = DOMAIN rows
      /\ \A r \in DOMAIN rows :
            /\ rows'[r].source = rows[r].source /\ rows'[r].message = rows[r].message
            /\ rows'[r].reply = rows[r].reply
            /\ rows'[r].deleted => rows[r].deleted \/ (r = h.id /\ h.row.message \in gone')
  <2>1. CASE gone' = gone \cup {h.row.message} /\ MarkDeleted(h.id)
    BY <2>1, InvTypes, MarkedIs
  <2>2. CASE rows' = rows /\ gone' = gone
    BY <2>2, InvTypes
  <2> QED BY <1>2, <2>1, <2>2
<1>6. LinksAreTrue'
  <2> SUFFICES ASSUME NEW r \in DOMAIN rows', rows'[r].reply # Nothing
               PROVE  /\ rows'[r].reply \in DOMAIN rows'
                      /\ rows'[rows'[r].reply].message = ReplyTo[rows'[r].message]
                      /\ rows'[rows'[r].reply].source = rows'[r].source
    BY DEF LinksAreTrue, Stored
  <2>1. PICK q : q = rows[r].reply
    OBVIOUS
  <2>2. /\ rows'[r].reply = q /\ q \in DOMAIN rows /\ rows[q].message = ReplyTo[rows[r].message]
        /\ rows[q].source = rows[r].source
    BY <1>5, <2>1, InvTypes DEF LinksAreTrue, Stored
  <2> QED BY <1>5, <2>2
<1>7. RowsBelong'
  BY <1>2, <1>5, InvTypes DEF RowsBelong
<1>8. OneRowEach'
  <2>1. \A r \in DOMAIN rows' : Hidden(r)' <=> Hidden(r)
    BY <1>2, <1>5 DEF Hidden, Running
  <2> QED BY <1>5, <2>1, FewerRowsEach
<1>9. OneStores'
  BY <1>2, <1>5, StoresStay
<1>10. DeletesWhatItSaw'
  <2>1. ASSUME NEW k \in 1 .. Len(deleting')
        PROVE  /\ deleting'[k].row.source = FromTelegram /\ deleting'[k].row.message \in Own \ Pinned
               /\ deleting'[k].id \notin freed =>
                     /\ deleting'[k].id \in DOMAIN rows'
                     /\ rows'[deleting'[k].id].source = FromTelegram
                     /\ rows'[deleting'[k].id].message = deleting'[k].row.message
    <3>1. PICK j \in 1 .. Len(deleting) : deleting'[k] = deleting[j]
      BY <1>3
    <3>2. /\ deleting[j].row.source = FromTelegram /\ deleting[j].row.message \in Own \ Pinned
          /\ deleting[j].id \notin freed =>
                /\ deleting[j].id \in DOMAIN rows
                /\ rows[deleting[j].id].source = FromTelegram
                /\ rows[deleting[j].id].message = deleting[j].row.message
      BY InvTypes DEF DeletesWhatItSaw, Stored
    <3> QED BY <1>5, <3>1, <3>2
  <2> QED BY <1>2, <2>1 DEF DeletesWhatItSaw, Stored
<1>11. DeletionsAreTrue'
  <2>1. gone' \subseteq Own \ Pinned /\ gone \subseteq gone'
    BY <1>2, <1>4, InvTypes DEF DeletionsAreTrue
  <2>2. ASSUME NEW r \in DOMAIN rows' \ freed, rows'[r].deleted PROVE rows'[r].message \in gone'
    <3>1. CASE rows[r].deleted
      BY <1>5, <2>1, <2>2, <3>1, InvTypes DEF DeletionsAreTrue
    <3>2. CASE ~rows[r].deleted
      BY <1>4, <1>5, <2>2, <3>2
    <3> QED BY <3>1, <3>2
  <2> QED BY <1>2, <2>1, <2>2 DEF DeletionsAreTrue
<1>12. /\ stage' \in [Imports -> RawStages] /\ left' \in Seq(Exported) /\ starts' \in 0 .. MaxStarts
       /\ arrived' \subseteq Live /\ freed' \subseteq Nat
  BY <1>2, InvTypes
<1>13. gone' \subseteq Live
  BY <1>2, <1>4, InvTypes, TheGroup
<1> QED BY <1>3, <1>5, <1>6, <1>7, <1>8, <1>9, <1>10, <1>11, <1>12, <1>13, TranscriptStep

LEMMA NothingStored ==
    ASSUME TranscriptInit
    PROVE  TranscriptInv
<1>1. /\ DOMAIN rows = {} /\ arrived = {} /\ stage = [i \in Imports |-> "waiting"]
      /\ left = << >> /\ starts = 0 /\ deleting = << >> /\ gone = {} /\ freed = {}
  BY DEF TranscriptInit
<1>2. TranscriptTypes
  <2>1. IsFiniteSet(DOMAIN rows)
    BY <1>1, FS_EmptySet
  <2>2. rows \in [DOMAIN rows -> Row]
    BY DEF TranscriptInit
  <2>3. starts \in 0 .. MaxStarts
    BY <1>1, TranscriptAssumption
  <2>4. stage \in [Imports -> RawStages]
    BY <1>1 DEF RawStages
  <2> QED BY <1>1, <2>1, <2>2, <2>3, <2>4 DEF TranscriptTypes
<1>3. Len(left) = 0 /\ Len(deleting) = 0
  BY <1>1
<1>4. \A i \in Imports : ~Running(i)
  BY <1>1 DEF Running
<1>5. OneStores /\ DeletesWhatItSaw
  BY <1>1, <1>3, <1>4 DEF OneStores, DeletesWhatItSaw
<1> QED BY <1>1, <1>2, <1>5 DEF TranscriptInv, LinksAreTrue, RowsBelong, OneRowEach, DeletionsAreTrue

LEMMA TranscriptStutters ==
    ASSUME TranscriptInv, UNCHANGED transcriptVars
    PROVE  TranscriptInv'
<1>1. /\ UNCHANGED rows /\ UNCHANGED arrived /\ UNCHANGED stage /\ UNCHANGED left
      /\ UNCHANGED starts /\ UNCHANGED deleting /\ UNCHANGED gone /\ UNCHANGED freed
  BY DEF transcriptVars, thread, deletion
<1>2. RowsTyped(rows') /\ LinksAreTrue' /\ RowsBelong' /\ OneRowEach' /\ DeletionsAreTrue'
  <2>1. \A r \in DOMAIN rows : rows[r].source # FromTelegram => stage'[rows[r].source] # "waiting"
    BY <1>1, InvTypes DEF RowsBelong
  <2>2. \A r \in DOMAIN rows : Hidden(r)' <=> Hidden(r)
    BY <1>1 DEF Hidden, Running
  <2> QED BY <1>1, <2>1, <2>2, SameRows
<1>3. OneStores'
  BY <1>1, StoresStay
<1>4. DeletesWhatItSaw'
  BY <1>1, InvTypes DEF DeletesWhatItSaw, Stored
<1>5. /\ stage' \in [Imports -> RawStages] /\ left' \in Seq(Exported) /\ starts' \in 0 .. MaxStarts
      /\ deleting' \in Seq([id : Nat, row : Row]) /\ gone' \subseteq Live /\ arrived' \subseteq Live
      /\ freed' \subseteq Nat
  BY <1>1, InvTypes
<1> QED BY <1>2, <1>3, <1>4, <1>5, TranscriptStep

LEMMA TranscriptInvHolds == TranscriptSpec => []TranscriptInv
<1>1. TranscriptInit => TranscriptInv
  BY NothingStored
<1>2. ASSUME TranscriptInv, [TranscriptNext]_transcriptVars PROVE TranscriptInv'
  <2>1. CASE \E m \in Live : InsertLive(m)
    BY <1>2, <2>1, InsertLiveKeeps
  <2>2. CASE \E i \in Imports : RawStarts(i)
    BY <1>2, <2>2, RawStartsKeeps
  <2>3. CASE \E i \in Imports : InsertImported(i)
    BY <1>2, <2>3, InsertImportedKeeps
  <2>4. CASE \E i \in Imports : ResolveImportReplies(i)
    BY <1>2, <2>4, ResolveKeeps
  <2>5. CASE \E i \in Imports : MakeVisible(i)
    BY <1>2, <2>5, MakeVisibleKeeps
  <2>6. CASE \E i \in Imports : RollBack(i)
    BY <1>2, <2>6, RollBackKeeps
  <2>7. CASE DiesAndRecovers
    BY <1>2, <2>7, DiesAndRecoversKeeps
  <2>8. CASE \E m \in Messages, sources \in Sources : OwnerDeletes(Date[m] + 1, sources)
    BY <1>2, <2>8, OwnerDeletesKeeps
  <2>9. CASE \E ids \in SUBSET DOMAIN rows : DeletionBegins(ids)
    BY <1>2, <2>9, DeletionBeginsKeeps
  <2>10. CASE DeletionGoesOn
    BY <1>2, <2>10, DeletionGoesOnKeeps
  <2>11. CASE UNCHANGED transcriptVars
    BY <1>2, <2>11, TranscriptStutters
  <2> QED BY <1>2, <2>1, <2>2, <2>3, <2>4, <2>5, <2>6, <2>7, <2>8, <2>9, <2>10, <2>11 DEF TranscriptNext
<1> QED BY <1>1, <1>2, PTL DEF TranscriptSpec

-----------------------------------------------------------------------------
(* Transcript: what is read *)

LEMMA Quotient ==
    ASSUME NEW x \in Nat, NEW w \in Nat \ {0}
    PROVE  x \div w \in Nat /\ (x \div w) * w <= x /\ x < (x \div w) * w + w
OBVIOUS

\* The lesser of two multiples that are near is the same or one less.
LEMMA NextMultiple ==
    ASSUME NEW x \in Nat, NEW w \in Nat \ {0}
    PROVE  /\ (x \div w) * w \in Nat /\ (x \div w) * w <= x /\ x < (x \div w) * w + w
           /\ ((x + 1) \div w) * w \in {(x \div w) * w, (x \div w) * w + w}
<1>1. PICK q, p : q = x \div w /\ p = (x + 1) \div w
  OBVIOUS
<1>2. q \in Nat /\ q * w <= x /\ x < q * w + w
  BY <1>1, Quotient
<1>3. p \in Nat /\ p * w <= x + 1 /\ x + 1 < p * w + w
  <2>1. x + 1 \in Nat
    OBVIOUS
  <2> QED BY <1>1, <2>1, Quotient
<1>4. (q + 1) * w = q * w + w /\ (p + 1) * w = p * w + w /\ q * w \in Nat /\ p * w \in Nat
  BY <1>2, <1>3
<1>5. p = q \/ p = q + 1
  <2>1. CASE p < q
    <3>1. p + 1 <= q
      BY <1>2, <1>3, <2>1
    <3>2. (p + 1) * w <= q * w
      BY <1>2, <1>3, <3>1
    <3> QED BY <1>2, <1>3, <1>4, <3>2
  <2>2. CASE p > q + 1
    <3>1. q + 2 <= p
      BY <1>2, <1>3, <2>2
    <3>2. (q + 2) * w <= p * w /\ (q + 2) * w = q * w + w + w
      BY <1>2, <1>3, <3>1
    <3> QED BY <1>2, <1>3, <1>4, <3>2
  <2> QED BY <1>2, <1>3, <2>1, <2>2
<1> QED BY <1>1, <1>2, <1>4, <1>5

StartOf(n) == IF n <= RecentWindow THEN 0 ELSE ((n - RecentWindow) \div WindowStep) * WindowStep

LEMMA StartMoves ==
    ASSUME NEW n \in Nat
    PROVE  /\ StartOf(n) \in 0 .. n /\ n - StartOf(n) < RecentWindow + WindowStep
           /\ n - StartOf(n) < RecentWindow => StartOf(n) = 0
           /\ StartOf(n + 1) \in {StartOf(n), StartOf(n) + WindowStep}
           /\ StartOf(n + 1) \in 0 .. n + 1
<1>1. PICK w \in Nat \ {0}, p \in Nat \ {0} : w = RecentWindow /\ p = WindowStep
  BY TranscriptAssumption
<1>2. CASE n < w
  <2>1. StartOf(n) = 0 /\ StartOf(n + 1) = 0
    BY <1>1, <1>2 DEF StartOf
  <2> QED BY <1>1, <1>2, <2>1
<1>3. CASE n >= w
  <2>0. PICK x \in Nat : x = n - w
    BY <1>3
  <2>1. PICK a, b : a = (x \div p) * p /\ b = ((x + 1) \div p) * p
    OBVIOUS
  <2>2. a \in Nat /\ a <= x /\ x < a + p /\ (b = a \/ b = a + p)
    BY <2>1, NextMultiple
  <2>3. b <= x + 1
    <3>1. x + 1 \in Nat
      OBVIOUS
    <3> QED BY <2>1, <3>1, Quotient
  <2>4. StartOf(n) = a
    <3>1. CASE n = w
      <4>1. x = 0 /\ a = 0
        BY <2>0, <2>2, <3>1
      <4> QED BY <1>1, <3>1, <4>1 DEF StartOf
    <3>2. CASE n > w
      BY <1>1, <2>0, <2>1, <3>2 DEF StartOf
    <3> QED BY <1>3, <3>1, <3>2
  <2>5. StartOf(n + 1) = b
    <3>1. n + 1 - w = x + 1 /\ ~(n + 1 <= w)
      BY <1>3, <2>0
    <3> QED BY <1>1, <2>1, <3>1 DEF StartOf
  <2> QED BY <1>1, <2>0, <2>2, <2>3, <2>4, <2>5
<1> QED BY <1>1, <1>2, <1>3

LEMMA LastOf ==
    ASSUME NEW S, NEW s \in Seq(S), NEW d \in 0 .. Len(s)
    PROVE  /\ SubSeq(s, d + 1, Len(s)) \in Seq(S) /\ Len(SubSeq(s, d + 1, Len(s))) = Len(s) - d
           /\ \A k \in 1 .. Len(s) - d : SubSeq(s, d + 1, Len(s))[k] = s[d + k]
<1>1. PICK m \in Int, n \in Nat : m = d + 1 /\ n = Len(s) /\ d \in Nat /\ d <= n
  OBVIOUS
<1>2. \A k \in m .. n : s[k] \in S
  BY <1>1
<1>3. /\ SubSeq(s, m, n) \in Seq(S)
      /\ Len(SubSeq(s, m, n)) = IF m <= n THEN n - m + 1 ELSE 0
      /\ \A k \in 1 .. n - m + 1 : SubSeq(s, m, n)[k] = s[m + k - 1]
  BY <1>1, <1>2, SubSeqProperties
<1>4. n - m + 1 = n - d /\ (IF m <= n THEN n - m + 1 ELSE 0) = n - d
      /\ \A k \in 1 .. n - d : m + k - 1 = d + k
  BY <1>1
<1> QED BY <1>1, <1>3, <1>4

LEMMA EarlierIs ==
    ASSUME TranscriptInv, NEW t
    PROVE  /\ Earlier(t) \in Seq(EarlierRows(t))
           /\ \A date : LET S == {r \in EarlierRows(t) : Date[rows[r].message] >= date}
                        IN  InOrder(S, ByDate(S)) \in Seq(EarlierRows(t))
<1>1. ASSUME NEW S \in SUBSET EarlierRows(t) PROVE InOrder(S, ByDate(S)) \in Seq(EarlierRows(t))
  <2>1. S \in SUBSET DOMAIN rows
    BY DEF EarlierRows
  <2>2. IsFiniteSet(S) /\ S \subseteq Nat /\ \A r \in S : Date[rows[r].message] \in Nat
    <3>1. IsFiniteSet(DOMAIN rows) /\ DOMAIN rows \subseteq Nat
      BY InvTypes DEF TranscriptTypes
    <3>2. \A r \in S : Date[rows[r].message] \in Nat
      BY <2>1, RowsAre, TheGroup
    <3> QED BY <2>1, <3>1, <3>2, FS_Subset
  <2>3. PICK n, s : n = Cardinality(S) /\ s = InOrder(S, ByDate(S))
    OBVIOUS
  <2>4. n \in Nat /\ s \in [1 .. n -> S]
    BY <2>2, <2>3, RowsInOrder
  <2>5. s \in Seq(EarlierRows(t))
    BY <2>4
  <2> QED BY <2>3, <2>5
<1>2. Earlier(t) \in Seq(EarlierRows(t))
  BY <1>1 DEF Earlier
<1>3. ASSUME NEW date, NEW S, S = {r \in EarlierRows(t) : Date[rows[r].message] >= date}
      PROVE  InOrder(S, ByDate(S)) \in Seq(EarlierRows(t))
  <2>1. S \in SUBSET EarlierRows(t)
    BY <1>3
  <2> QED BY <1>1, <2>1
<1> QED BY <1>2, <1>3

LEMMA AtLeastNone ==
    ASSUME NEW n \in Nat, NEW x \in Int, x <= n
    PROVE  Max({0, x}) \in 0 .. n
<1>1. \E k \in {0, x} : \A y \in {0, x} : k >= y
  <2>1. CASE x >= 0
    BY <2>1
  <2>2. CASE x < 0
    BY <2>2
  <2> QED BY <2>1, <2>2
<1>2. Max({0, x}) \in {0, x} /\ \A y \in {0, x} : Max({0, x}) >= y
  BY <1>1 DEF Max
<1> QED BY <1>2

LEMMA RecentIs ==
    ASSUME TranscriptInv, NEW t
    PROVE  /\ Len(Earlier(t)) \in Nat /\ StartOf(Len(Earlier(t))) \in 0 .. Len(Earlier(t))
           /\ RecentWindowOf(t) = SubSeq(Earlier(t), StartOf(Len(Earlier(t))) + 1, Len(Earlier(t)))
           /\ RecentWindowOf(t) \in Seq(EarlierRows(t))
           /\ Len(RecentWindowOf(t)) = Len(Earlier(t)) - StartOf(Len(Earlier(t)))
           /\ \A k \in 1 .. Len(RecentWindowOf(t)) :
                 RecentWindowOf(t)[k] = Earlier(t)[StartOf(Len(Earlier(t))) + k]
<1>1. PICK s, n, d, w : s = Earlier(t) /\ n = Len(s) /\ d = StartOf(n) /\ w = RecentWindowOf(t)
  OBVIOUS
<1>2. s \in Seq(EarlierRows(t)) /\ n \in Nat
  BY <1>1, EarlierIs
<1>3. d \in 0 .. n
  BY <1>1, <1>2, StartMoves
<1>4. w = SubSeq(s, d + 1, n)
  BY <1>1 DEF RecentWindowOf, StartOf
<1>5. w \in Seq(EarlierRows(t)) /\ Len(w) = n - d /\ \A k \in 1 .. n - d : w[k] = s[d + k]
  BY <1>1, <1>2, <1>3, <1>4, LastOf
<1> QED BY <1>1, <1>2, <1>3, <1>4, <1>5

LEMMA WindowsAre ==
    ASSUME TranscriptInv, NEW t, NEW window \in Windows(t)
    PROVE  window \in Seq(EarlierRows(t))
<1>1. CASE window = RecentWindowOf(t)
  BY <1>1, RecentIs
<1>2. CASE \E m \in Messages : window = Since(t, Date[m])
  <2>1. PICK m \in Messages : window = Since(t, Date[m])
    BY <1>2
  <2>2. PICK S, found : /\ S = {r \in EarlierRows(t) : Date[rows[r].message] >= Date[m]}
                        /\ found = InOrder(S, ByDate(S))
    OBVIOUS
  <2>3. found \in Seq(EarlierRows(t))
    BY <2>2, EarlierIs
  <2>4. PICK n, d : n = Len(found) /\ n \in Nat /\ d = Max({0, Len(found) - MaxScope})
    BY <2>3
  <2>5. d \in 0 .. n
    <3>1. n - MaxScope \in Int /\ n - MaxScope <= n
      BY <2>4, TranscriptAssumption
    <3> QED BY <2>4, <3>1, AtLeastNone
  <2>6. window = SubSeq(found, d + 1, n)
    BY <2>1, <2>2, <2>4 DEF Since
  <2> QED BY <2>3, <2>4, <2>5, <2>6, LastOf
<1> QED BY <1>1, <1>2 DEF Windows

\* Every row a prompt is made of is there, and is of a message that may be read.
LEMMA ReadIs ==
    ASSUME TranscriptInv, NEW t \in Requests, NEW window \in Windows(t),
           NEW dropped \in 0 .. Len(window)
    PROVE  \A r \in Read(t, window, dropped) : r \in DOMAIN rows /\ ~Hidden(r)
<1>1. PICK kept : kept = Kept(window, dropped)
  OBVIOUS
<1>2. kept \in Seq(EarlierRows(t))
  BY <1>1, WindowsAre, LastOf DEF Kept
<1>3. \A r \in EarlierRows(t) : r \in DOMAIN rows /\ ~Hidden(r)
  BY DEF EarlierRows, Shown
<1>4. t \in DOMAIN rows /\ ~Hidden(t) /\ rows[t].source = FromTelegram
  BY TheGroup DEF Requests, Hidden
<1>5. ASSUME NEW q \in DOMAIN rows, ~Hidden(q), NEW r, r = rows[q].reply, r \in DOMAIN rows
      PROVE  ~Hidden(r)
  <2>1. rows[r].source = rows[q].source
    BY <1>5, LinkedIs
  <2> QED BY <1>5, <2>1 DEF Hidden
<1>6. \A r \in Range(kept) : r \in EarlierRows(t)
  BY <1>2 DEF Range
<1>7. ASSUME NEW r \in Quoted(kept) PROVE r \in DOMAIN rows /\ ~Hidden(r)
  <2>1. PICK k \in DOMAIN kept : r = rows[kept[k]].reply /\ Stored(r)
    BY <1>7 DEF Quoted
  <2>2. kept[k] \in EarlierRows(t)
    BY <1>2
  <2> QED BY <1>3, <1>5, <2>1, <2>2 DEF Stored
<1>8. ASSUME NEW r \in RequestQuotes(t, window) PROVE r \in DOMAIN rows /\ ~Hidden(r)
  BY <1>4, <1>5, <1>8 DEF RequestQuotes
<1> QED BY <1>1, <1>3, <1>4, <1>6, <1>7, <1>8 DEF Read

LEMMA ReadsAreWhole == TranscriptInv => ReadsWholeImports
<1> SUFFICES ASSUME TranscriptInv, NEW t \in Requests, NEW window \in Windows(t),
                    NEW dropped \in 0 .. Len(window)
             PROVE  /\ \A r \in Read(t, window, dropped) : ~Hidden(r)
                    /\ \A q, r \in Read(t, window, dropped) : rows[q].message = rows[r].message => q = r
  BY DEF ReadsWholeImports
<1>1. PICK read : read = Read(t, window, dropped)
  OBVIOUS
<1>2. \A r \in read : r \in DOMAIN rows /\ ~Hidden(r)
  BY <1>1, ReadIs
<1>3. \A q, r \in read : rows[q].message = rows[r].message => q = r
  BY <1>2, InvTypes DEF OneRowEach
<1> QED BY <1>1, <1>2, <1>3

\* With one message more, the window keeps its start or moves by a step.
LEMMA PrefixMoves == TranscriptInv => PrefixMovesInSteps
<1> SUFFICES ASSUME TranscriptInv, NEW t \in Requests, NEW u \in Requests
             PROVE  /\ Len(RecentWindowOf(t)) < RecentWindow + WindowStep
                    /\ Len(RecentWindowOf(t)) < RecentWindow => RecentWindowOf(t) = Earlier(t)
                    /\ Earlier(u) = Append(Earlier(t), t) =>
                          RecentWindowOf(u) \in {Append(RecentWindowOf(t), t),
                                                 SubSeq(Append(RecentWindowOf(t), t), WindowStep + 1,
                                                        Len(Append(RecentWindowOf(t), t)))}
  BY DEF PrefixMovesInSteps
<1>1. PICK s, n, d, w : s = Earlier(t) /\ n = Len(s) /\ d = StartOf(n) /\ w = RecentWindowOf(t)
  OBVIOUS
<1>2. PICK S : S = DOMAIN rows
  OBVIOUS
<1>3. /\ n \in Nat /\ d \in 0 .. n /\ s \in Seq(S) /\ w \in Seq(S) /\ Len(w) = n - d
      /\ \A k \in 1 .. n - d : w[k] = s[d + k]
  <2>1. EarlierRows(t) \subseteq S
    BY <1>2 DEF EarlierRows
  <2> QED BY <1>1, <2>1, RecentIs, EarlierIs
<1>4. /\ n - d < RecentWindow + WindowStep
      /\ n - d < RecentWindow => d = 0
      /\ StartOf(n + 1) \in {d, d + WindowStep} /\ StartOf(n + 1) \in 0 .. n + 1
  BY <1>1, <1>3, StartMoves
<1>5. ASSUME d = 0 PROVE w = s
  <2>1. Len(w) = Len(s) /\ \A k \in 1 .. Len(w) : w[k] = s[k]
    BY <1>1, <1>3, <1>5
  <2> QED BY <1>3, <2>1, SeqEqual
<1>6. ASSUME Earlier(u) = Append(s, t)
      PROVE  RecentWindowOf(u) \in {Append(w, t), SubSeq(Append(w, t), WindowStep + 1, Len(Append(w, t)))}
  <2>1. PICK x, v, e, long : /\ x = Earlier(u) /\ v = RecentWindowOf(u) /\ e = StartOf(n + 1)
                             /\ long = Append(w, t)
    OBVIOUS
  <2>2. t \in S /\ u \in S
    BY <1>2 DEF Requests
  <2>3. /\ x \in Seq(S) /\ Len(x) = n + 1 /\ x[n + 1] = t /\ \A k \in 1 .. n : x[k] = s[k]
    BY <1>1, <1>3, <1>6, <2>1, <2>2, AppendProperties
  <2>4. /\ long \in Seq(S) /\ Len(long) = n - d + 1 /\ long[n - d + 1] = t
        /\ \A k \in 1 .. n - d : long[k] = w[k]
    BY <1>3, <2>1, <2>2, AppendProperties
  <2>5. \A k \in 1 .. n - d + 1 : long[k] = x[d + k]
    <3>1. ASSUME NEW k \in 1 .. n - d PROVE long[k] = x[d + k]
      <4>1. d + k \in 1 .. n
        BY <1>3
      <4> QED BY <1>3, <2>3, <2>4, <4>1
    <3>2. d + (n - d + 1) = n + 1
      BY <1>3
    <3>3. \A k \in 1 .. n - d + 1 : k \in 1 .. n - d \/ k = n - d + 1
      BY <1>3
    <3> QED BY <2>3, <2>4, <3>1, <3>2, <3>3
  <2>6. /\ e \in 0 .. n + 1 /\ v \in Seq(S) /\ Len(v) = n + 1 - e
        /\ \A k \in 1 .. n + 1 - e : v[k] = x[e + k]
    <3>1. EarlierRows(u) \subseteq S
      BY <1>2 DEF EarlierRows
    <3>2. /\ v \in Seq(EarlierRows(u)) /\ Len(v) = Len(x) - StartOf(Len(x))
          /\ \A k \in 1 .. Len(v) : v[k] = x[StartOf(Len(x)) + k]
      BY <2>1, RecentIs
    <3>3. Len(x) = n + 1 /\ StartOf(Len(x)) = e
      BY <2>1, <2>3
    <3>4. v \in Seq(S)
      BY <3>1, <3>2
    <3>5. e \in 0 .. n + 1
      BY <1>4, <2>1
    <3>6. Len(v) = n + 1 - e
      BY <1>3, <3>2, <3>3, <3>5
    <3>7. \A k \in 1 .. n + 1 - e : v[k] = x[e + k]
      BY <3>2, <3>3, <3>6
    <3> QED BY <3>4, <3>5, <3>6, <3>7
  <2>7. CASE e = d
    <3>0. Len(v) = Len(long) /\ Len(v) = n - d + 1 /\ n + 1 - e = n - d + 1
      BY <1>3, <2>4, <2>6, <2>7
    <3>1. Len(v) = Len(long) /\ \A k \in 1 .. Len(v) : v[k] = long[k]
      BY <2>5, <2>6, <2>7, <3>0
    <3>2. v = long
      BY <2>4, <2>6, <3>1, SeqEqual
    <3> QED BY <2>1, <3>2
  <2>8. CASE e = d + WindowStep
    <3>1. PICK p \in Nat : p = WindowStep
      BY TranscriptAssumption
    <3>2. p \in 0 .. Len(long)
      BY <1>3, <2>4, <2>6, <2>8, <3>1
    <3>3. PICK rest : rest = SubSeq(long, p + 1, Len(long))
      OBVIOUS
    <3>4. /\ rest \in Seq(S) /\ Len(rest) = Len(long) - p
          /\ \A k \in 1 .. Len(long) - p : rest[k] = long[p + k]
      BY <2>4, <3>2, <3>3, LastOf
    <3>5. Len(rest) = Len(v)
      BY <1>3, <2>4, <2>6, <2>8, <3>1, <3>4
    <3>6. ASSUME NEW k \in 1 .. Len(v) PROVE v[k] = rest[k]
      <4>1. k \in 1 .. n + 1 - e /\ k \in 1 .. Len(long) - p /\ p + k \in 1 .. n - d + 1
        BY <1>3, <2>4, <2>6, <2>8, <3>1
      <4>2. d + (p + k) = e + k
        BY <1>3, <2>8, <3>1
      <4>3. long[p + k] = x[d + (p + k)]
        BY <2>5, <4>1
      <4>4. v[k] = x[e + k] /\ rest[k] = long[p + k]
        BY <2>6, <3>4, <4>1
      <4> QED BY <4>2, <4>3, <4>4
    <3>7. v = rest
      BY <2>6, <3>4, <3>5, <3>6, SeqEqual
    <3> QED BY <2>1, <3>1, <3>3, <3>7
  <2> QED BY <1>4, <2>1, <2>7, <2>8
<1> QED BY <1>1, <1>3, <1>4, <1>5, <1>6

\* What the model reads of a group's messages and what is deleted of them:
\* links lead to the message that was replied to, no prompt has a word of an
\* import that is being stored or a message twice, only the bot's own messages
\* are marked as deleted, and the recent window's start moves in whole steps
\* (db/messages.py, importer/service.py, agent/context.py, tg/own_messages.py).
THEOREM TranscriptStaysTrue == TranscriptSpec => []TranscriptIsTrue
<1>1. ASSUME TranscriptInv PROVE TranscriptIsTrue
  <2>1. TranscriptTypeOK
    <3>1. \A r \in DOMAIN rows : r \in Nat \ {0} /\ rows[r] \in Row
      BY <1>1, RowsAre
    <3>2. \A k \in DOMAIN deleting : deleting[k].id \in Nat /\ deleting[k].row \in Row
      <4>1. PICK s, T : s = deleting /\ T = [id : Nat, row : Row]
        OBVIOUS
      <4>2. s \in Seq(T)
        BY <1>1, <4>1, InvTypes
      <4>3. \A k \in DOMAIN s : s[k] \in T
        BY <4>2
      <4> QED BY <4>1, <4>3
    <3> QED BY <1>1, <3>1, <3>2, InvTypes DEF TranscriptTypeOK, TranscriptTypes
  <2> QED BY <1>1, <2>1, InvTypes, ReadsAreWhole, PrefixMoves DEF TranscriptIsTrue
<1> QED BY <1>1, TranscriptInvHolds, PTL
=============================================================================
