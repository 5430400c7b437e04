------------------------------ MODULE Reminders -------------------------------
(***************************************************************************)
(* Reminders (naruto/db/reminders.py, tg/reminders.py): set by a run of    *)
(* the agent, sent when due by a background job that reads a list of them  *)
(* and sends one after another, tried again after a passing failure, and   *)
(* cancelled in a chat or in the web admin.                                *)
(*                                                                         *)
(* An action is the code between two waits.  What was sent is lost from    *)
(* the table when the process dies before it is marked.                    *)
(***************************************************************************)
EXTENDS Integers, FiniteSets, FiniteSetsExt, Sequences, Functions

CONSTANTS ReminderIds,            \* reminders
          MaxDue,         \* bound: when reminders are due; the clock stops there
          MaxPending,     \* MAX_PENDING_PER_CHAT
          PerPass,        \* due(limit)
          RetryBase, RetryMax,
          MaxFailures,    \* bound: passing failures of Telegram
          MaxCrashes      \* bound: restarts

ASSUME RemindersAssumption ==
    /\ ReminderIds \subseteq Nat \ {0} /\ PerPass \in Nat \ {0}
    /\ {MaxDue, MaxPending, RetryBase, RetryMax, MaxFailures, MaxCrashes} \subseteq Nat

VARIABLES
    reminders,   \* the table
    pass,        \* what send_due() read and has not sent yet
    elapsed,     \* the time since it did, up to RetryMax
    sending,     \* the reminder that waits for Telegram, or none
    now, chatEnabled, failures, crashes,
    sent,        \* per reminder: how often the group got it
    unsure       \* those whose answer was lost

bounds == <<now, failures, crashes>>
remVars == <<reminders, pass, elapsed, sending, now, chatEnabled, failures, crashes,
             sent, unsure>>

NoReminder == << >>
Unset == 0
Statuses == {"pending", "sent", "failed", "cancelled"}
Reminder == [status : Statuses, due : 1 .. MaxDue, attempts : 0 .. MaxFailures + 1,
             next : 0 .. RetryMax]   \* next_attempt_at, from now

Exists(r) == reminders[r] # NoReminder
IsPending(r) == Exists(r) /\ reminders[r].status = "pending"

RemindersTypeOK ==
    /\ reminders \in [ReminderIds -> Reminder \cup {NoReminder}]
    /\ pass \in Seq(ReminderIds)
    /\ elapsed \in 0 .. RetryMax /\ sending \in ReminderIds \cup {Unset}
    /\ now \in 0 .. MaxDue /\ chatEnabled \in BOOLEAN
    /\ failures \in 0 .. MaxFailures /\ crashes \in 0 .. MaxCrashes
    /\ sent \in [ReminderIds -> 0 .. 1 + MaxFailures + MaxCrashes] /\ unsure \subseteq ReminderIds

RemindersInit ==
    /\ reminders = [r \in ReminderIds |-> NoReminder]
    /\ pass = << >> /\ elapsed = 0 /\ sending = Unset
    /\ now = 0 /\ chatEnabled = TRUE /\ failures = 0 /\ crashes = 0
    /\ sent = [r \in ReminderIds |-> 0] /\ unsure = {}

-----------------------------------------------------------------------------
(* The repository *)

PendingCount == Cardinality({r \in ReminderIds : IsPending(r)})

DueNow == {r \in ReminderIds : IsPending(r) /\ reminders[r].due <= now /\ reminders[r].next = 0}
Sooner(q, r) == reminders[q].due < reminders[r].due \/ (reminders[q].due = reminders[r].due /\ q < r)

\* due(): pending, its time come, not waiting to be tried again; the earliest
\* PerPass of them, in their order
IsDueList(list) ==
    /\ \A i, j \in DOMAIN list : i < j => Sooner(list[i], list[j])
    /\ \A r \in DueNow \ Range(list) :
          Len(list) = PerPass /\ \A i \in DOMAIN list : Sooner(list[i], r)
DueLists == {list \in UNION {[1 .. n -> DueNow] : n \in 1 .. PerPass} : IsDueList(list)}

\* Updates find no row when the reminder was deleted meanwhile.
Mark(r, row) == reminders' = IF Exists(r) THEN [reminders EXCEPT ![r] = row] ELSE reminders

MarkSent(r) == Mark(r, [reminders[r] EXCEPT !.status = "sent", !.next = 0])
MarkFailed(r) == Mark(r, [reminders[r] EXCEPT !.status = "failed", !.attempts = @ + 1,
                                              !.next = 0])
MarkRetry(r, at) ==
    IF IsPending(r) THEN Mark(r, [reminders[r] EXCEPT !.attempts = @ + 1, !.next = at])
    ELSE UNCHANGED reminders

\* retry_delay(): doubled with every attempt, up to a limit
RetryDelay(attempts) == Min({RetryBase * 2 ^ attempts, RetryMax} \cap 0 .. RetryMax)

-----------------------------------------------------------------------------
(* Setting and cancelling *)

\* set_reminder(): for a later time, while there are not too many
Set(r, due) ==
    /\ ~Exists(r) /\ sent[r] = 0 /\ \A q \in ReminderIds : q < r => Exists(q) \/ sent[q] > 0
    /\ due > now /\ PendingCount < MaxPending
    /\ reminders' = [reminders EXCEPT ![r] = [status |-> "pending", due |-> due,
                                              attempts |-> 0, next |-> 0]]
    /\ UNCHANGED <<pass, elapsed, sending, bounds, chatEnabled, sent, unsure>>

\* cancel_reminder(), in a run and in the web admin
Cancel(r) ==
    /\ IsPending(r)
    /\ reminders' = [reminders EXCEPT ![r].status = "cancelled"]
    /\ UNCHANGED <<pass, elapsed, sending, bounds, chatEnabled, sent, unsure>>

\* delete_finished_before(): pending ones stay, however old.
CleanUp(cutoff) ==
    /\ \E r \in ReminderIds : Exists(r) /\ ~IsPending(r) /\ reminders[r].due < cutoff
    /\ reminders' = [r \in ReminderIds |-> IF Exists(r) /\ ~IsPending(r) /\ reminders[r].due < cutoff
                                   THEN NoReminder ELSE reminders[r]]
    /\ UNCHANGED <<pass, elapsed, sending, bounds, chatEnabled, sent, unsure>>

-----------------------------------------------------------------------------
(* Sending *)

\* send_due() reads those that are due; the job starts anew when it is over.
\* Mutant: it starts every half minute, even while one is under way.
StartsAnyway ==
    /\ pass = << >> /\ pass' \in DueLists /\ elapsed' = 0
    /\ UNCHANGED <<reminders, sending, bounds, chatEnabled, sent, unsure>>
Starts ==
    /\ pass = << >> /\ sending = Unset
    /\ pass' \in DueLists /\ elapsed' = 0
    /\ UNCHANGED <<reminders, sending, bounds, chatEnabled, sent, unsure>>

\* The next of the list: not looked up again.
SendsNext ==
    /\ pass # << >> /\ sending = Unset
    /\ pass' = Tail(pass)
    /\ IF chatEnabled THEN sending' = Head(pass) /\ UNCHANGED reminders
       ELSE MarkFailed(Head(pass)) /\ UNCHANGED sending
    /\ UNCHANGED <<elapsed, bounds, chatEnabled, sent, unsure>>

Got(r) == sent' = [sent EXCEPT ![r] = @ + 1]

\* Telegram's answer: a passing failure (it may have been sent), or one for
\* good, or done.
Delivered ==
    /\ sending # Unset
    /\ MarkSent(sending) /\ Got(sending) /\ sending' = Unset
    /\ UNCHANGED <<pass, elapsed, bounds, chatEnabled, unsure>>

Refused ==
    /\ sending # Unset
    /\ MarkFailed(sending) /\ sending' = Unset
    /\ UNCHANGED <<pass, elapsed, bounds, chatEnabled, sent, unsure>>

Fails ==
    /\ sending # Unset /\ failures < MaxFailures /\ failures' = failures + 1
    /\ LET tries == IF Exists(sending) THEN reminders[sending].attempts ELSE 0
       IN  MarkRetry(sending, Max({0, RetryDelay(tries) - elapsed}))
    /\ \/ UNCHANGED <<sent, unsure>>
       \/ Got(sending) /\ unsure' = unsure \cup {sending}
    /\ sending' = Unset
    /\ UNCHANGED <<pass, elapsed, now, crashes, chatEnabled>>

\* The process dies: what waits for Telegram was sent, or was not.
Dies ==
    /\ crashes < MaxCrashes /\ crashes' = crashes + 1
    /\ IF sending = Unset THEN UNCHANGED <<sent, unsure>>
       ELSE \/ UNCHANGED <<sent, unsure>>
            \/ Got(sending) /\ unsure' = unsure \cup {sending}
    /\ pass' = << >> /\ sending' = Unset
    /\ UNCHANGED <<reminders, elapsed, now, failures, chatEnabled>>

\* Counted as far as it matters.
Tick ==
    /\ now < MaxDue \/ \E r \in ReminderIds : Exists(r) /\ reminders[r].next > 0
    /\ now' = Min({now + 1, MaxDue})
    /\ elapsed' = IF pass = << >> /\ sending = Unset THEN elapsed
                  ELSE Min({elapsed + 1, RetryMax})
    /\ reminders' = [r \in ReminderIds |-> IF Exists(r) /\ reminders[r].next > 0
                                   THEN [reminders[r] EXCEPT !.next = @ - 1] ELSE reminders[r]]
    /\ UNCHANGED <<pass, sending, chatEnabled, failures, crashes, sent, unsure>>

\* The owner disables the chat.
Disables ==
    /\ chatEnabled /\ chatEnabled' = FALSE
    /\ UNCHANGED <<reminders, pass, elapsed, sending, bounds, sent, unsure>>

RemindersNext ==
    \/ \E r \in ReminderIds : Cancel(r) \/ \E due \in 1 .. MaxDue : Set(r, due)
    \/ CleanUp(now)
    \/ Starts \/ SendsNext \/ Delivered \/ Refused \/ Fails
    \/ Dies \/ Tick \/ Disables

\* The job comes round, Telegram answers, and time goes on.
RemindersFairness ==
    /\ WF_remVars(Starts) /\ WF_remVars(SendsNext)
    /\ WF_remVars(Delivered \/ Refused \/ Fails) /\ WF_remVars(Tick)

RemindersSpec == RemindersInit /\ [][RemindersNext]_remVars /\ RemindersFairness

-----------------------------------------------------------------------------
(* Properties *)

\* Nobody is reminded twice, but after a lost answer or a crash.
SentOnce == \A r \in ReminderIds \ unsure : sent[r] <= 1

RemindedOnce == RemindersTypeOK /\ SentOnce

\* A pending reminder is sent, fails for good or is cancelled in the end, and
\* none keeps others from their turn, if Telegram's passing failures end
\* (MaxFailures): the attempts themselves have no limit.
RemindersEnd == \A r \in ReminderIds : IsPending(r) ~> ~IsPending(r)
=============================================================================
