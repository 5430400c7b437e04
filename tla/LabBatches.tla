----------------------------- MODULE LabBatches -----------------------------
(***************************************************************************)
(* The experiments of one run of the prompt lab (naruto/lab/executor.py,   *)
(* lab/service.py, lab/preferences.py, db/lab.py): batches of attempts     *)
(* that share a few slots and a budget, while the agent and the owner      *)
(* submit, cancel, resume and stop, and the process is restarted.          *)
(*                                                                         *)
(* A batch has one attempt for each scenario.  What an attempt does is its *)
(* outcome only; the model requests and the hours of the budget are one    *)
(* fact, that they are used up.                                            *)
(***************************************************************************)
EXTENDS Integers, FiniteSets

CONSTANTS Batches,      \* bound: the batches that may be submitted
          Scenarios,    \* the scenarios, in the order a batch runs them
          Parallel,     \* lab.parallel_attempts
          Budget,       \* the attempts of the run's budget
          MaxRestarts   \* bound: how often the process is started again

ASSUME LabAssumption ==
    /\ IsFiniteSet(Batches)
    /\ Scenarios \subseteq Nat \ {0} /\ IsFiniteSet(Scenarios)
    /\ Parallel \in Nat \ {0}
    /\ Budget \in Nat \ {0}
    /\ MaxRestarts \in Nat

Attempts == Batches \X Scenarios

VARIABLES
    run,         \* lab_runs.status
    usedUp,      \* its requests are made or its hours are up
    comparison,  \* the scenario of the comparison that waits for the owner, or 0
    batch,       \* lab_batches.status; "none" before it is submitted
    attempt,     \* lab_attempts.status; "none" without a row
    started,     \* the attempts with a started_at
    job,         \* where _run_batch stands
    todo,        \* the attempts it has listed and not come to
    exhausted,   \* its budget_problem
    runner,      \* where _attempt_task stands
    cancelled,   \* _Running.cancelled
    active,      \* _active
    stopping,    \* _stopping
    restarts

rows == <<run, usedUp, comparison, batch, attempt, started>>
jobs == <<job, todo, exhausted>>
runners == <<runner, cancelled, active>>
process == <<stopping, restarts>>
vars == <<rows, jobs, runners, process>>

Ended == {"done", "cancelled", "skipped"}

TypeOK ==
    /\ run \in {"active", "finished"}
    /\ usedUp \in BOOLEAN
    /\ comparison \in Scenarios \cup {0}
    /\ batch \in [Batches -> {"none", "queued", "running", "done", "cancelled",
                              "interrupted", "budget_exhausted"}]
    /\ attempt \in [Attempts -> {"none", "queued", "running", "interrupted"} \cup Ended]
    /\ started \subseteq {a \in Attempts : attempt[a] # "none"}
    /\ job \in [Batches -> {"none", "new", "ready", "waiting", "gathering"}]
    /\ todo \in [Batches -> SUBSET Scenarios]
    /\ exhausted \in [Batches -> BOOLEAN]
    /\ runner \in [Attempts -> {"none", "new", "running", "stopping"}]
    /\ cancelled \subseteq Attempts
    /\ active \in 0 .. Parallel
    /\ stopping \in BOOLEAN
    /\ restarts \in 0 .. MaxRestarts

Of(b) == {b} \X Scenarios

Idle == [a \in Attempts |-> "none"]

Init ==
    /\ run = "active" /\ usedUp = FALSE /\ comparison = 0
    /\ batch = [b \in Batches |-> "none"]
    /\ attempt = [a \in Attempts |-> "none"]
    /\ started = {}
    /\ job = [b \in Batches |-> "none"]
    /\ todo = [b \in Batches |-> {}]
    /\ exhausted = [b \in Batches |-> FALSE]
    /\ runner = Idle /\ cancelled = {} /\ active = 0
    /\ stopping = FALSE /\ restarts = 0

-----------------------------------------------------------------------------
(* The budget *)

\* Mutant: the attempts that are running are not counted.
EndedOnly ==
    IF run # "active" \/ usedUp THEN 0
    ELSE Budget - Cardinality({a \in started : attempt[a] \in Ended})

\* usage(): the attempts that were started, as far as their rows say so.
Used == Cardinality(started)

\* How many more attempts budget_problem() lets start.
Room ==
    IF run # "active" \/ usedUp THEN 0 ELSE Budget - Used

\* The requests are made, or the hours have passed.
UseUp ==
    /\ ~usedUp
    /\ usedUp' = TRUE
    /\ UNCHANGED <<run, comparison, batch, attempt, started, jobs, runners, process>>

-----------------------------------------------------------------------------
(* A batch *)

\* LabService.submit() and LabExecutor.start().  While a comparison waits, only
\* what the owner asked for.
Submit(b) ==
    /\ batch[b] = "none" /\ run = "active" /\ ~stopping
    /\ \E ownerRequest \in BOOLEAN : comparison # 0 => ownerRequest
    /\ \E S \in SUBSET Scenarios :
          /\ S # {}
          /\ Room > 0 /\ Cardinality(S) <= Room
          /\ attempt' = [a \in Attempts |-> IF a \in {b} \X S THEN "queued" ELSE attempt[a]]
    /\ batch' = [batch EXCEPT ![b] = "queued"]
    /\ job' = [job EXCEPT ![b] = "new"]
    /\ UNCHANGED <<run, usedUp, comparison, started, todo, exhausted, runners, process>>

\* The first step of _run_batch: the batch runs, whatever it was.
BatchBegins(b) ==
    /\ job[b] = "new"
    /\ batch' = [batch EXCEPT ![b] = "running"]
    /\ job' = [job EXCEPT ![b] = "ready"]
    /\ todo' = [todo EXCEPT ![b] = {s \in Scenarios : attempt[<<b, s>>] = "queued"}]
    /\ exhausted' = [exhausted EXCEPT ![b] = FALSE]
    /\ UNCHANGED <<run, usedUp, comparison, attempt, started, runners, process>>

\* Mutant: an attempt that was cancelled while the batch waited is started.
ListedInTodo(b) == todo[b]

\* Those of the list that may still start when it comes to them.
Startable(b) == {s \in todo[b] : attempt[<<b, s>>] = "queued"}

\* The first n of S.
FirstOf(S, n) == {s \in S : Cardinality({t \in S : t < s}) < n}

AtMost(m, n) == IF m < n THEN m ELSE n

\* The slots that _acquire() may still give.
Free == Parallel - active

\* The loop of _run_batch until it has to wait: for a slot (_acquire), or for
\* the attempts it has started.
StartAttempts(b) ==
    LET live == Startable(b)
        n    == AtMost(Cardinality(live), AtMost(Free, Room))
        new  == FirstOf(live, n)
        rest == {s \in todo[b] : \A t \in new : t < s}
        through == n < Free /\ (n = Cardinality(live) \/ n = Room)
    IN  /\ job[b] = "ready"
        /\ attempt' = [a \in Attempts |-> IF a \in {b} \X new THEN "running" ELSE attempt[a]]
        /\ started' = started \cup {b} \X new
        /\ runner' = [a \in Attempts |-> IF a \in {b} \X new THEN "new" ELSE runner[a]]
        /\ cancelled' = cancelled \ {b} \X new
        /\ active' = active + n
        /\ job' = [job EXCEPT ![b] = IF through \/ rest = {} THEN "gathering" ELSE "waiting"]
        /\ todo' = [todo EXCEPT ![b] = IF through THEN {} ELSE rest]
        /\ exhausted' = [exhausted EXCEPT ![b] = through /\ n < Cardinality(live)]
        /\ UNCHANGED <<run, usedUp, comparison, batch, process>>

\* The attempts are over: _finish_batch.
BatchEnds(b) ==
    /\ job[b] = "gathering"
    /\ \A a \in Of(b) : runner[a] = "none"
    /\ attempt' = [a \in Attempts |->
                      IF exhausted[b] /\ a \in Of(b) /\ attempt[a] = "queued"
                      THEN "skipped" ELSE attempt[a]]
    /\ batch' = [batch EXCEPT ![b] =
                    IF exhausted[b] THEN "budget_exhausted"
                    ELSE IF stopping THEN "interrupted"
                    ELSE IF @ = "cancelled" THEN @ ELSE "done"]
    /\ job' = [job EXCEPT ![b] = "none"]
    /\ exhausted' = [exhausted EXCEPT ![b] = FALSE]
    /\ UNCHANGED <<run, usedUp, comparison, started, todo, runners, process>>

-----------------------------------------------------------------------------
(* An attempt *)

\* Mutant: nobody who waits for a slot is told.
ReleaseQuietly(a) ==
    /\ active' = active - 1
    /\ runner' = [runner EXCEPT ![a] = "none"]
    /\ UNCHANGED job

\* _release(): the slot is free and everybody who waits for one looks again.
Release(a) ==
    /\ active' = active - 1
    /\ runner' = [runner EXCEPT ![a] = "none"]
    /\ job' = [b \in Batches |-> IF job[b] = "waiting" THEN "ready" ELSE job[b]]

\* update_attempt(): nothing if the row was deleted meanwhile.
Mark(a, status) ==
    attempt' = [attempt EXCEPT ![a] = IF @ = "none" THEN @ ELSE status]

\* _run_attempt up to its first await: it may find that it can't run.
AttemptBegins(a) ==
    /\ runner[a] = "new"
    /\ \/ /\ runner' = [runner EXCEPT ![a] = "running"]
          /\ UNCHANGED <<attempt, active, job>>
       \/ Mark(a, "skipped") /\ Release(a)
    /\ UNCHANGED <<run, usedUp, comparison, batch, started, todo, exhausted,
                   cancelled, process>>

\* It has run, or raised.
AttemptEnds(a) ==
    /\ runner[a] = "running"
    /\ Mark(a, "done")
    /\ Release(a)
    /\ UNCHANGED <<run, usedUp, comparison, batch, started, todo, exhausted, cancelled,
                   process>>

\* Its task was cancelled while it awaited something.
AttemptStops(a) ==
    /\ runner[a] = "stopping"
    /\ Mark(a, IF stopping /\ a \notin cancelled THEN "interrupted" ELSE "cancelled")
    /\ Release(a)
    /\ UNCHANGED <<run, usedUp, comparison, batch, started, todo, exhausted,
                   cancelled, process>>

\* Task.cancel() of the tasks of A: one that has not begun never does, and
\* runs none of its clean-up.
Stopped(A) ==
    [a \in Attempts |->
        CASE a \in A /\ runner[a] = "new"     -> "none"
          [] a \in A /\ runner[a] = "running" -> "stopping"
          [] OTHER                            -> runner[a]]

-----------------------------------------------------------------------------
(* Control *)

Open == {"queued", "running", "interrupted"}

\* cancel_batch() of each batch of B.
CancelAll(B) ==
    LET A == B \X Scenarios
        running == {a \in A : attempt[a] = "running"}
    IN  /\ attempt' = [a \in Attempts |->
                          IF a \in A /\ attempt[a] = "queued" THEN "cancelled" ELSE attempt[a]]
        /\ cancelled' = cancelled \cup running
        /\ runner' = Stopped(running)
        /\ batch' = [b \in Batches |->
                        IF b \in B /\ batch[b] \in Open THEN "cancelled" ELSE batch[b]]

\* POST /batches/{id}/cancel
CancelBatch(b) ==
    /\ batch[b] # "none" /\ ~stopping
    /\ CancelAll({b})
    /\ UNCHANGED <<run, usedUp, comparison, started, jobs, active, process>>

\* The batches that are stopped with their run.
OpenBatches == {b \in Batches : batch[b] \in Open}

\* stop_run(), by the owner, the agent, or at the end of finish_run().
StopRun ==
    /\ run = "active" /\ ~stopping
    /\ CancelAll(OpenBatches)
    /\ comparison' = 0
    /\ run' = "finished"
    /\ UNCHANGED <<usedUp, started, jobs, active, process>>

\* What resume() queues again.
Resumable(b) == {a \in Of(b) : attempt[a] = "interrupted"}

\* resume(): what was interrupted starts anew; its start no longer counts.
Resume(b) ==
    LET again == Resumable(b)
    IN  /\ run = "active" /\ ~stopping
        /\ again # {}
        /\ attempt' = [a \in Attempts |-> IF a \in again THEN "queued" ELSE attempt[a]]
        /\ started' = started \ again
        /\ batch' = [batch EXCEPT ![b] = "queued"]
        /\ job' = [job EXCEPT ![b] = IF @ = "none" THEN "new" ELSE @]
        /\ UNCHANGED <<run, usedUp, comparison, todo, exhausted, runners, process>>

\* preferences.create(): the owner is asked about two attempts of a scenario.
Compare(s) ==
    /\ run = "active" /\ comparison = 0 /\ ~stopping
    /\ Cardinality({b \in Batches : attempt[<<b, s>>] = "done"}) >= 2
    /\ comparison' = s
    /\ UNCHANGED <<run, usedUp, batch, attempt, started, jobs, runners, process>>

\* answer() or withdraw()
Answer ==
    /\ comparison # 0
    /\ comparison' = 0
    /\ UNCHANGED <<run, usedUp, batch, attempt, started, jobs, runners, process>>

\* delete_scenario(): its attempts go, also one that runs.
DeleteScenario(s) ==
    LET A == {a \in Batches \X {s} : attempt[a] # "none"}
    IN  /\ A # {} /\ ~stopping
        /\ attempt' = [a \in Attempts |-> IF a \in A THEN "none" ELSE attempt[a]]
        /\ started' = started \ A
        /\ comparison' = IF comparison = s THEN 0 ELSE comparison
        /\ UNCHANGED <<run, usedUp, batch, jobs, runners, process>>

\* shutdown(): every attempt is cancelled, then every batch; a batch that has
\* not begun never does, the others end when their attempts have.
Shutdown ==
    /\ ~stopping
    /\ stopping' = TRUE
    /\ runner' = Stopped(Attempts)
    /\ job' = [b \in Batches |->
                  IF job[b] \in {"ready", "waiting"} THEN "gathering"
                  ELSE IF job[b] = "new" THEN "none" ELSE job[b]]
    /\ todo' = [b \in Batches |-> {}]
    /\ UNCHANGED <<rows, exhausted, cancelled, active, restarts>>

\* interrupt_open(), of the status of a batch or an attempt
Interrupted(status) == IF status \in {"queued", "running"} THEN "interrupted" ELSE status

\* The process ends, at any time, and starts again: recover().
Restart ==
    /\ restarts < MaxRestarts
    /\ restarts' = restarts + 1
    /\ stopping' = FALSE
    /\ attempt' = [a \in Attempts |-> Interrupted(attempt[a])]
    /\ batch' = [b \in Batches |-> Interrupted(batch[b])]
    /\ job' = [b \in Batches |-> "none"]
    /\ todo' = [b \in Batches |-> {}]
    /\ exhausted' = [b \in Batches |-> FALSE]
    /\ runner' = Idle /\ cancelled' = {} /\ active' = 0
    /\ UNCHANGED <<run, usedUp, comparison, started>>

BatchStep(b) == BatchBegins(b) \/ StartAttempts(b) \/ BatchEnds(b)

AttemptStep(a) == AttemptBegins(a) \/ AttemptEnds(a) \/ AttemptStops(a)

Next ==
    \/ \E b \in Batches : Submit(b) \/ BatchStep(b) \/ CancelBatch(b) \/ Resume(b)
    \/ \E a \in Attempts : AttemptStep(a)
    \/ \E s \in Scenarios : Compare(s) \/ DeleteScenario(s)
    \/ UseUp \/ StopRun \/ Answer \/ Shutdown \/ Restart

Spec == Init /\ [][Next]_vars

\* The loop resumes every task that can go on, and an attempt ends (each model
\* request has a time-out).
Fairness ==
    /\ \A b \in Batches : WF_vars(BatchStep(b))
    /\ \A a \in Attempts : WF_vars(AttemptStep(a))

FairSpec == Spec /\ Fairness

-----------------------------------------------------------------------------
(* Correctness *)

\* "An attempt starts only while the run has attempts left": however many
\* batches wait for slots, are cancelled and resumed.
WithinBudget == Cardinality(started) <= Budget

\* No attempt runs twice at once, and none without a row of its own: what runs
\* was started, and holds one of the slots.
RunnersHaveSlots ==
    /\ Cardinality({a \in Attempts : runner[a] # "none"}) <= active
    /\ \A a \in Attempts : runner[a] # "none" => attempt[a] \in {"running", "none"}

\* When a run is finished nothing of it waits to start, and what still runs
\* has been told to stop, unless its row was deleted while it ran.
FinishedRunsRest ==
    run = "finished" =>
        \A a \in Attempts :
            /\ attempt[a] # "queued"
            /\ attempt[a] = "running" => runner[a] \in {"none", "stopping"}

\* An attempt that is over keeps its result, whatever is cancelled, resumed or
\* recovered later, unless its scenario is deleted.
ResultsStay ==
    [][\A a \in Attempts : attempt[a] \in Ended => attempt'[a] \in {attempt[a], "none"}]_vars

\* A batch comes to its end, unless a slot was lost: an attempt that is
\* cancelled before the first step of its task keeps the slot it was counted for.
BatchesEnd ==
    \A b \in Batches :
        job[b] # "none" ~>
            \/ job[b] = "none"
            \/ active > Cardinality({a \in Attempts : runner[a] # "none"})

\* What runs was started, holds a slot and is within the budget, and nothing
\* of a finished run waits.
WorkIsWithinLimits == TypeOK /\ WithinBudget /\ RunnersHaveSlots /\ FinishedRunsRest
=============================================================================
