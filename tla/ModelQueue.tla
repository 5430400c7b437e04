---------------------------- MODULE ModelQueue ----------------------------
(***************************************************************************)
(* The queue every model request goes through (naruto/model_queue.py), the *)
(* coroutines that use it (LLMClient.chat in naruto/llm.py) and the log of *)
(* requests the queue page shows (naruto/db/model_requests.py).            *)
(*                                                                         *)
(* The process runs one asyncio loop, so the code between two awaits is    *)
(* one action.  A request is one call of LLMClient.chat.  It awaits its    *)
(* ticket's future, then the model's answer, and perhaps sleeps and queues *)
(* once more.  Its task may be cancelled at each of these awaits.          *)
(***************************************************************************)
EXTENDS Integers, FiniteSets

CONSTANTS Requests,        \* the calls of LLMClient.chat
          Foreground,      \* those made for a reply; the others are background
          Checked,         \* those whose still_wanted asks if the chat is enabled
          MaxWaiting,      \* MAX_WAITING, per priority
          SettingsChoices, \* the values the model.* settings may take
          Logged           \* the queue has a log (it may be made without one)

Priorities == {"foreground", "background"}

Settings == [parallel : Nat \ {0}, background : Nat, reserved : Nat,
             paused : BOOLEAN]

ASSUME RequestsAssumption ==
    /\ IsFiniteSet(Requests)
    /\ Foreground \subseteq Requests
    /\ Checked \subseteq Requests

ASSUME LimitsAssumption ==
    /\ MaxWaiting \in [Priorities -> Nat]
    /\ SettingsChoices \subseteq Settings
    /\ SettingsChoices # {}
    /\ Logged \in BOOLEAN

VARIABLES settings,  \* the stored model.* settings
          up,        \* the process is running
          nextSeq,   \* the next value of _seq
          ticket,    \* each request's Ticket
          queued,    \* _queued: the requests waiting for a slot
          running,   \* _running: the requests that hold a slot
          caller,    \* where each call of chat stands
          gaveUp,    \* waiting callers whose task was cancelled, not yet resumed
          enabled,   \* the chat of the Checked requests is enabled
          row        \* the state column of each request's model_requests row

vars == <<settings, up, nextSeq, ticket, queued, running, caller, gaveUp,
          enabled, row>>

OpenStates == {"queued", "running", "retrying"}
FinalStates == {"done", "failed", "cancelled", "expired"}
ClosedRows == FinalStates \cup {"interrupted"}

\* A ticket is gone with its call: a waiting caller may still see these two.
TicketStates == OpenStates \cup {"cancelled", "expired", "none"}

\* The ticket of a request that takes place n, and that of a retry.
NewTicket(n) ==
    [state |-> "queued", seq |-> n, attempt |-> 1, future |-> "pending"]

\* Mutant: the retry comes behind the requests that came meanwhile.
RequeuedAsNew(t) ==
    [state |-> "queued", seq |-> nextSeq, attempt |-> t.attempt + 1,
     future |-> "pending"]

Requeued(t) ==
    [state |-> "queued", seq |-> t.seq, attempt |-> t.attempt + 1,
     future |-> "pending"]

\* A ticket in another state, with its future as given.
Becomes(t, s, f) ==
    [state |-> s, seq |-> t.seq, attempt |-> t.attempt, future |-> f]

\* set_result and set_exception are not called on a future that is done.
Refused(f) == IF f = "pending" THEN "refused" ELSE f

Blank == [state |-> "none", seq |-> 0, attempt |-> 0, future |-> "none"]

TypeOK ==
    /\ settings \in SettingsChoices
    /\ up \in BOOLEAN
    /\ nextSeq \in Nat
    /\ ticket \in [Requests -> [state : TicketStates,
                                seq : Nat,
                                attempt : 0 .. 2,
                                future : {"none", "pending", "started",
                                          "refused", "cancelled"}]]
    /\ queued \subseteq Requests
    /\ running \subseteq Requests
    /\ caller \in [Requests -> {"idle", "waiting", "calling", "sleeping", "ended"}]
    /\ gaveUp \subseteq Requests
    /\ enabled \in BOOLEAN
    /\ row \in [Requests -> OpenStates \cup ClosedRows \cup {"absent", "deleted"}]

-----------------------------------------------------------------------------
(* compute_limits *)

Least(a, b) == IF a <= b THEN a ELSE b

Total(s) == IF s.parallel >= 1 THEN s.parallel ELSE 1

EffectiveReserved(s) == Least(s.reserved, Total(s) - 1)

EffectiveBackground(s) ==
    IF s.paused THEN 0
    ELSE Least(s.background, Total(s) - EffectiveReserved(s))

-----------------------------------------------------------------------------
(* _dispatch *)

PriorityOf(r) == IF r \in Foreground THEN "foreground" ELSE "background"

OfPriority(S, p) == {r \in S : PriorityOf(r) = p}

\* A popped request starts if it is still wanted and its caller still waits.
Wanted(r) == r \in Checked => enabled

Startable(tk, r) == Wanted(r) /\ tk[r].future = "pending"

\* The waiting requests of q that come before r: _pop takes the lowest seq.
Ahead(tk, q, r) == {u \in q : tk[u].seq < tk[r].seq}

\* What the loop pops from q while it has n slots: it goes on until the
\* requests it started have taken them, and expires the others on the way.
Popped(tk, q, n) ==
    {r \in q : Cardinality({u \in Ahead(tk, q, r) : Startable(tk, u)}) < n}

\* Slots for waiting replies, then for background work within its own limit.
\* Mutants: replies do not count the background work that runs, and background
\* work does not count the replies.
SlotsBesideWork(run) ==
    Total(settings') - Cardinality(OfPriority(run, "foreground"))

ForegroundSlots(run) == Total(settings') - Cardinality(run)

BackgroundSlots(run, startedForeground) ==
    Least(ForegroundSlots(run) - Cardinality(startedForeground),
          EffectiveBackground(settings')
              - Cardinality(OfPriority(run, "background")))

\* The state a request's row gets, if there is a log.
Log(r, s) == IF Logged THEN s ELSE row[r]

\* The whole loop, from the tickets tk, rows rw, waiting requests q and
\* running requests run the handler has left.  Its settings are those of
\* the next state, because a settings change dispatches after it is stored.
Dispatch(tk, rw, q, run) ==
    LET fg      == Popped(tk, OfPriority(q, "foreground"), ForegroundSlots(run))
        fgStart == {r \in fg : Startable(tk, r)}
        bg      == Popped(tk, OfPriority(q, "background"),
                          BackgroundSlots(run, fgStart))
        start   == {r \in fg \cup bg : Startable(tk, r)}
        expire  == (fg \cup bg) \ start
    IN  /\ queued' = q \ (fg \cup bg)
        /\ running' = run \cup start
        /\ ticket' = [r \in Requests |->
               IF r \in start THEN Becomes(tk[r], "running", "started")
               ELSE IF r \in expire
               THEN Becomes(tk[r], "expired", Refused(tk[r].future))
               ELSE tk[r]]
        /\ row' = [r \in Requests |->
               IF r \in start THEN Log(r, "running")
               ELSE IF r \in expire THEN Log(r, "expired") ELSE rw[r]]

-----------------------------------------------------------------------------
Init ==
    /\ settings \in SettingsChoices
    /\ up = TRUE
    /\ nextSeq = 1
    /\ ticket = [r \in Requests |-> Blank]
    /\ queued = {}
    /\ running = {}
    /\ caller = [r \in Requests |-> "idle"]
    /\ gaveUp = {}
    /\ enabled = TRUE
    /\ row = [r \in Requests |-> "absent"]

Full(r) ==
    Cardinality(OfPriority(queued, PriorityOf(r))) >= MaxWaiting[PriorityOf(r)]

\* acquire of a new request: refused when the queue of its priority is full,
\* otherwise queued and dispatched.
RefuseBusy(r) ==
    /\ up
    /\ caller[r] = "idle"
    /\ Full(r)
    /\ caller' = [caller EXCEPT ![r] = "ended"]
    /\ UNCHANGED <<settings, up, nextSeq, ticket, queued, running, gaveUp,
                   enabled, row>>

Acquire(r) ==
    /\ up
    /\ caller[r] = "idle"
    /\ ~Full(r)
    /\ nextSeq' = nextSeq + 1
    /\ caller' = [caller EXCEPT ![r] = "waiting"]
    /\ UNCHANGED <<settings, up, gaveUp, enabled>>
    /\ Dispatch([ticket EXCEPT ![r] = NewTicket(nextSeq)],
                [row EXCEPT ![r] = Log(r, "queued")],
                queued \cup {r}, running)

\* acquire(retry_of): the ticket keeps its place, or fails if the queue is full.
RefuseRetry(r) ==
    /\ caller[r] = "sleeping"
    /\ Full(r)
    /\ ticket' = [ticket EXCEPT ![r] = Blank]
    /\ row' = [row EXCEPT ![r] = Log(r, "failed")]
    /\ caller' = [caller EXCEPT ![r] = "ended"]
    /\ UNCHANGED <<settings, up, nextSeq, queued, running, gaveUp, enabled>>

AcquireRetry(r) ==
    /\ caller[r] = "sleeping"
    /\ ~Full(r)
    /\ caller' = [caller EXCEPT ![r] = "waiting"]
    /\ UNCHANGED <<settings, up, nextSeq, gaveUp, enabled>>
    /\ Dispatch([ticket EXCEPT ![r] = Requeued(@)],
                [row EXCEPT ![r] = Log(r, "queued")],
                queued \cup {r}, running)

-----------------------------------------------------------------------------
\* release: nothing for a ticket without a slot; otherwise it frees the slot,
\* and the ticket is closed (and gone with the call that held it) or, with
\* "retrying", set aside for its retry.
\* Mutant: the slot is freed, but the next request is not started.
ReleaseWithoutDispatch(r, s) ==
    IF r \notin running
    THEN UNCHANGED <<ticket, queued, running, row>>
    ELSE /\ ticket' = [ticket EXCEPT ![r] =
                          IF s = "retrying" THEN Becomes(@, s, @.future) ELSE Blank]
         /\ row' = [row EXCEPT ![r] = Log(r, s)]
         /\ running' = running \ {r}
         /\ UNCHANGED queued

Release(r, s) ==
    IF r \notin running
    THEN UNCHANGED <<ticket, queued, running, row>>
    ELSE Dispatch([ticket EXCEPT ![r] =
                      IF s = "retrying" THEN Becomes(@, s, @.future) ELSE Blank],
                  [row EXCEPT ![r] = Log(r, s)], queued, running \ {r})

\* The caller's task is cancelled while it waits.  A pending future is
\* cancelled at once; the caller's handler runs when the loop resumes it.
GiveUp(r) ==
    /\ caller[r] = "waiting"
    /\ r \notin gaveUp
    /\ gaveUp' = gaveUp \cup {r}
    /\ ticket' = [ticket EXCEPT ![r] =
                      IF @.future = "pending"
                      THEN Becomes(@, @.state, "cancelled") ELSE @]
    /\ UNCHANGED <<settings, up, nextSeq, queued, running, caller, enabled, row>>

\* The await in acquire returns: the request goes to the model.
ResumeStarted(r) ==
    /\ caller[r] = "waiting"
    /\ ticket[r].future = "started"
    /\ r \notin gaveUp
    /\ caller' = [caller EXCEPT ![r] = "calling"]
    /\ UNCHANGED <<settings, up, nextSeq, ticket, queued, running, gaveUp,
                   enabled, row>>

\* ... or raises QueueRefused: cancelled from the queue page, or expired.
ResumeRefused(r) ==
    /\ caller[r] = "waiting"
    /\ ticket[r].future = "refused"
    /\ r \notin gaveUp
    /\ caller' = [caller EXCEPT ![r] = "ended"]
    /\ ticket' = [ticket EXCEPT ![r] = Blank]
    /\ UNCHANGED <<settings, up, nextSeq, queued, running, gaveUp, enabled, row>>

\* Mutant: a caller that gives up leaves the queue but keeps a slot it was given.
LeaveQueueOnly(r) ==
    /\ ticket' = [ticket EXCEPT ![r] = Blank]
    /\ queued' = queued \ {r}
    /\ row' = IF r \in queued THEN [row EXCEPT ![r] = Log(r, "expired")] ELSE row
    /\ UNCHANGED running

\* A slot given meanwhile is handed back; a request that still waits leaves
\* the queue; one that was cancelled or expired has left it.
Leave(r) ==
    IF ticket[r].state = "running"
    THEN Release(r, "expired")
    ELSE /\ ticket' = [ticket EXCEPT ![r] = Blank]
         /\ queued' = queued \ {r}
         /\ row' = IF r \in queued THEN [row EXCEPT ![r] = Log(r, "expired")] ELSE row
         /\ UNCHANGED running

\* ... or raises CancelledError.
ResumeCancelled(r) ==
    /\ caller[r] = "waiting"
    /\ r \in gaveUp
    /\ gaveUp' = gaveUp \ {r}
    /\ caller' = [caller EXCEPT ![r] = "ended"]
    /\ UNCHANGED <<settings, up, nextSeq, enabled>>
    /\ Leave(r)

\* request_completion ends: with an answer, with an error that ends the
\* request (any on the second attempt), or because the task is cancelled.
Finish(r) ==
    /\ caller[r] = "calling"
    /\ caller' = [caller EXCEPT ![r] = "ended"]
    /\ UNCHANGED <<settings, up, nextSeq, gaveUp, enabled>>
    /\ \E s \in {"done", "failed", "expired"} : Release(r, s)

\* A transient error on the first attempt: free the slot, sleep, try again.
FailTransiently(r) ==
    /\ caller[r] = "calling"
    /\ ticket[r].attempt = 1
    /\ caller' = [caller EXCEPT ![r] = "sleeping"]
    /\ UNCHANGED <<settings, up, nextSeq, gaveUp, enabled>>
    /\ Release(r, "retrying")

\* The task is cancelled while it sleeps before its retry.
Abandon(r) ==
    /\ caller[r] = "sleeping"
    /\ caller' = [caller EXCEPT ![r] = "ended"]
    /\ IF ticket[r].state = "retrying"
       THEN row' = [row EXCEPT ![r] = Log(r, "expired")]
       ELSE UNCHANGED row
    /\ ticket' = [ticket EXCEPT ![r] = Blank]
    /\ UNCHANGED <<settings, up, nextSeq, queued, running, gaveUp, enabled>>

-----------------------------------------------------------------------------
\* The owner cancels a waiting request on the queue page.
Cancel(r) ==
    /\ r \in queued
    /\ UNCHANGED <<settings, up, nextSeq, caller, gaveUp, enabled>>
    /\ Dispatch([ticket EXCEPT ![r] =
                      Becomes(@, "cancelled", Refused(@.future))],
                [row EXCEPT ![r] = Log(r, "cancelled")],
                queued \ {r}, running)

\* Mutant: nobody listens to the settings.
ChangeSettingsUnheard ==
    /\ up
    /\ settings' \in SettingsChoices \ {settings}
    /\ UNCHANGED <<up, nextSeq, ticket, queued, running, caller, gaveUp, enabled, row>>

\* Some model.* settings are stored; the listener dispatches.
ChangeSettings ==
    /\ up
    /\ settings' \in SettingsChoices \ {settings}
    /\ UNCHANGED <<up, nextSeq, caller, gaveUp, enabled>>
    /\ Dispatch(ticket, row, queued, running)

\* The chat is disabled or enabled again.  Nothing dispatches: a request that
\* waits is asked when its turn comes (and nobody asks if none is Checked).
ChangeEnabled ==
    /\ up
    /\ Checked # {}
    /\ enabled' = ~enabled
    /\ UNCHANGED <<settings, up, nextSeq, ticket, queued, running, caller,
                   gaveUp, row>>

\* Retention: a closed row old enough is deleted.
DeleteOldRow(r) ==
    /\ up
    /\ row[r] \in ClosedRows
    /\ row' = [row EXCEPT ![r] = "deleted"]
    /\ UNCHANGED <<settings, up, nextSeq, ticket, queued, running, caller,
                   gaveUp, enabled>>

\* The process ends, by a crash or a stop: only the database is left.
Crash ==
    /\ up
    /\ up' = FALSE
    /\ nextSeq' = 1
    /\ ticket' = [r \in Requests |-> Blank]
    /\ queued' = {}
    /\ running' = {}
    /\ caller' = [r \in Requests |-> IF caller[r] = "idle" THEN "idle" ELSE "ended"]
    /\ gaveUp' = {}
    /\ UNCHANGED <<settings, enabled, row>>

\* Mutants: the rows left open are not marked, or closed ones are, too.
RestartUnmarked ==
    /\ ~up
    /\ up' = TRUE
    /\ UNCHANGED <<settings, nextSeq, ticket, queued, running, caller, gaveUp,
                   enabled, row>>

\* run(): the rows left open are marked before anything can queue.
Restart ==
    /\ ~up
    /\ up' = TRUE
    /\ row' = [r \in Requests |->
                   IF row[r] \in OpenStates THEN "interrupted" ELSE row[r]]
    /\ UNCHANGED <<settings, nextSeq, ticket, queued, running, caller, gaveUp,
                   enabled>>

-----------------------------------------------------------------------------
Resume(r) == ResumeStarted(r) \/ ResumeRefused(r) \/ ResumeCancelled(r)

Answer(r) == Finish(r) \/ FailTransiently(r)

WakeUp(r) == AcquireRetry(r) \/ RefuseRetry(r)

\* What a call does by itself wherever it stands: the loop resumes it when its
\* future is done, a request to the model ends at the latest by its time-out,
\* and the sleep before a retry ends.
Progress(r) == Resume(r) \/ Answer(r) \/ WakeUp(r)

RequestStep(r) ==
    \/ RefuseBusy(r)
    \/ Acquire(r)
    \/ Progress(r)
    \/ GiveUp(r)
    \/ Abandon(r)
    \/ Cancel(r)
    \/ DeleteOldRow(r)

Next ==
    \/ \E r \in Requests : RequestStep(r)
    \/ ChangeSettings
    \/ ChangeEnabled
    \/ Crash
    \/ Restart

Spec == Init /\ [][Next]_vars

\* The process is started again.
Fairness ==
    /\ \A r \in Requests : WF_vars(Progress(r))
    /\ WF_vars(Restart)

FairSpec == Spec /\ Fairness

-----------------------------------------------------------------------------
(* Correctness *)

BackgroundRunning == Cardinality(OfPriority(running, "background"))

\* Between two steps no waiting request could start: a reply waits only when
\* every slot is taken, background work only when it may not have another.
\* Each release, cancellation and settings change must therefore dispatch.
NoStartableWaiting ==
    /\ OfPriority(queued, "foreground") # {} =>
           Cardinality(running) >= Total(settings)
    /\ OfPriority(queued, "background") # {} =>
           \/ Cardinality(running) >= Total(settings)
           \/ BackgroundRunning >= EffectiveBackground(settings)

\* Every slot belongs to a call that uses it or is about to, and only such a
\* call talks to the model: whatever becomes of the caller (an answer, an
\* error, a cancelled task at any await), its slot is neither lost nor shared.
SlotsHeldByCallers ==
    running = {r \in Requests :
                  \/ caller[r] = "calling"
                  \/ caller[r] = "waiting" /\ ticket[r].future = "started"}

\* While the process runs, the queue page shows the truth: a row is open
\* exactly when its request is, with the same state, and it waits or runs
\* there exactly when it does in the queue.
RowsFollowTickets ==
    up /\ Logged => \A r \in Requests :
              /\ row[r] \in OpenStates \/ ticket[r].state \in OpenStates =>
                     row[r] = ticket[r].state
              /\ row[r] = "queued" <=> r \in queued
              /\ row[r] = "running" <=> r \in running

\* A request starts only within the limits in force: within the total, and
\* background work within its share, with no reply left waiting.  Nobody who
\* gave up or is not wanted any more gets a slot.  A lowered limit does not
\* count against what already runs.
StartIsWithinLimits ==
    LET started == running' \ running
    IN  /\ started # {} => Cardinality(running') <= Total(settings')
        /\ OfPriority(started, "background") # {} =>
               /\ BackgroundRunning' <= EffectiveBackground(settings')
               /\ OfPriority(queued', "foreground") = {}
        /\ \A r \in started : Wanted(r) /\ r \notin gaveUp

StartsWithinLimits == [][StartIsWithinLimits]_vars

\* First come, first served within a priority, with the place a request took
\* when it first came: a retry keeps it, ahead of the requests that came later.
StartIsInOrder ==
    /\ \A s \in running' \ running, w \in queued' :
           PriorityOf(s) = PriorityOf(w) => ticket'[s].seq < ticket'[w].seq
    /\ \A r \in Requests :
           ticket[r].state \in OpenStates /\ ticket'[r].state \in OpenStates =>
               ticket'[r].seq = ticket[r].seq

FirstComeFirstServed == [][StartIsInOrder]_vars

\* The log never changes its mind: a row closed in one way stays so until
\* retention deletes it, through late cancellations, releases and restarts.
ClosedRowsStay ==
    \A r \in Requests : row[r] \in ClosedRows => row'[r] \in {row[r], "deleted"}

RowsClosedForGood == [][ClosedRowsStay]_vars

\* No request waits for ever: it starts, is refused or its caller goes, if the
\* settings do not come to hold all background work.  Only calls that end free
\* the slots; the queue itself must not lose a wakeup.
WaitingEnds ==
    \A r \in Requests :
        r \in queued ~> \/ r \notin queued
                        \/ r \notin Foreground /\ EffectiveBackground(settings) = 0

\* The queue with its tickets, futures and callers keeps the promise of
\* SlotAdmission: the order, the limits and no idle slot, whatever its callers
\* do and whenever the settings change.
Admission == INSTANCE SlotAdmission WITH
    phase <- [r \in Requests |-> IF r \in queued THEN "waiting"
                                 ELSE IF r \in running THEN "holding" ELSE "away"],
    place <- [r \in Requests |-> ticket[r].seq],
    total <- Total(settings),
    background <- EffectiveBackground(settings)

KeepsAdmissionPromise == Admission!Spec
=============================================================================
