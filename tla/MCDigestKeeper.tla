--------------------------- MODULE MCDigestKeeper ---------------------------
(***************************************************************************)
(* Small instances for TLC of three parts that share no state: the digest  *)
(* keeper, the sending of reminders and the database connection of the     *)
(* process.  A behaviour is one of any, so that one run checks them all.   *)
(***************************************************************************)
EXTENDS DigestKeeper, Reminders, Database

\* Two messages of the same second, and one of an earlier one stored last.
MCDate == <<2, 2, 1>>

VARIABLE part

JobsInit ==
    /\ Init /\ RemindersInit /\ DatabaseInit
    /\ part \in {"digest", "reminders", "database"}

jobs == <<part, vars, remVars, databaseVars>>
\* Bound: the owner changes the digest once less if the group is upgraded.
FewChanges == chat = "new" => changes < MaxChanges
Keeper(A) == part = "digest" /\ A /\ UNCHANGED <<part, remVars, databaseVars>> /\ FewChanges'
Sender(A) == part = "reminders" /\ A /\ UNCHANGED <<part, vars, databaseVars>>
Connection(A) == part = "database" /\ A /\ UNCHANGED <<part, vars, remVars>>

JobsNext == Keeper(Next) \/ Sender(RemindersNext) \/ Connection(DatabaseNext)

\* Fairness and RemindersFairness, of the part at hand
JobsSpec ==
    /\ JobsInit /\ [][JobsNext]_jobs
    /\ WF_jobs(Keeper(Check)) /\ WF_jobs(Keeper(CheckNothing)) /\ WF_jobs(Keeper(Turn))
    /\ WF_jobs(Keeper(Save \/ Fail)) /\ WF_jobs(Keeper(RetryTimeComes))
    /\ WF_jobs(Sender(Starts)) /\ WF_jobs(Sender(SendsNext))
    /\ WF_jobs(Sender(Delivered \/ Refused \/ Fails)) /\ WF_jobs(Sender(Tick))
    /\ \A t \in Threads : WF_jobs(Connection(GoesOn(t)))

\* What is due is done: a reminder is sent or given up if Telegram fails for
\* the time being only so often (there is no limit to the attempts), an update
\* is made if the passes of the keeper come to the chat, and no thread waits
\* for the database, or to write a log record, for ever.
DueIsDone == RemindersEnd /\ (PassesReachTheChat => DueIsUpdated) /\ ThreadsGoOn
=============================================================================
