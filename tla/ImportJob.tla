----------------------------- MODULE ImportJob -----------------------------
(***************************************************************************)
(* The imports of one chat's history (naruto/importer/service.py): the     *)
(* job that stores an export's messages (raw stage) and has its periods    *)
(* summarized (archive stage), the owner's pause, resume and cancel, the   *)
(* expiry of a paused import, shutdown, crash and recovery.                *)
(*                                                                         *)
(* The job is an asyncio task: what it does between two awaits is one      *)
(* action.  Reading the export runs in a worker thread, beside the loop.   *)
(* Where a handler makes several writes that a restart can tell apart, the *)
(* process may die between them (Dies).  Here a period is only a status;   *)
(* HistoryPublish has the periods with their digests.                      *)
(***************************************************************************)
EXTENDS Integers, FiniteSets

CONSTANTS Imports,      \* the uploaded exports
          Days,         \* the dates of their messages
          PeriodCount,  \* the most periods an archive stage has
          MaxCrashes,   \* bound: how often the process dies or is stopped
          Upgrades      \* the group may become a supergroup meanwhile

ASSUME BoundsAssumption ==
    /\ IsFiniteSet(Imports)
    /\ IsFiniteSet(Days)
    /\ PeriodCount \in Nat \ {0}
    /\ MaxCrashes \in Nat
    /\ Upgrades \in BOOLEAN

VARIABLES
    status,       \* imports.status
    raw,          \* imports.raw_status
    archive,      \* imports.archive_status
    file,         \* the uploaded file: "kept", "lost" from the disk or "deleted"
    days,         \* the dates chosen for the raw stage
    stored,       \* the messages table: each import's <<date, chat ID>>
    periods,      \* the status of each import's periods
    chat,         \* the chat's ID: "old", or "new" once upgraded
    process,      \* "down", "starting", "up" or "stopping"
    job,          \* where each import's task is
    under,        \* the chat ID its worker thread read
    pausing,      \* _pause
    cancelling,   \* _cancel
    interrupted,  \* tasks cancelled where they wait and not yet resumed
    locked,       \* somebody else holds the chat's history lock
    crashes,
    beside,       \* history: imports stored under an ID the group had lost
    reopened      \* history: imports a pause of which reopened the raw stage

stages == <<raw, archive, reopened>>
data == <<days, stored, chat, beside>>
records == <<status, stages, file, data, periods>>
flags == <<pausing, cancelling>>
task == <<job, under, interrupted>>
machine == <<process, locked, crashes>>
vars == <<records, flags, task, machine>>

Ids == {"old", "new"}
StageStatuses == {"skipped", "waiting", "running", "paused", "done",
                  "cancelled", "expired"}
UNFINISHED_STAGES == {"waiting", "running", "paused"}
PeriodStatuses == {"none", "waiting", "running", "done", "failed", "cancelled"}
Finished == {"done", "partial", "failed", "replaced", "discarded"}

\* A worker thread runs, or has ended and its task has not resumed yet.
StoreThread == {"storing", "stored", "rolled back", "gave up"}
LoadThread == {"loading", "loaded", "load stopped", "load failed"}

\* Where a task may be cancelled: it has _started and is not _in_thread.
Interruptible == {"locking", "summarizing"}

\* Where it holds the history lock.
Holding == StoreThread \cup LoadThread \cup {"summarizing"}

TypeOK ==
    /\ status \in [Imports -> Finished \cup {"preview", "running", "paused"}]
    /\ raw \in [Imports -> StageStatuses]
    /\ archive \in [Imports -> StageStatuses]
    /\ file \in [Imports -> {"kept", "lost", "deleted"}]
    /\ days \in [Imports -> SUBSET Days]
    /\ stored \in [Imports -> SUBSET (Days \X Ids)]
    /\ periods \in [Imports -> [1 .. PeriodCount -> PeriodStatuses]]
    /\ chat \in Ids
    /\ process \in {"down", "starting", "up", "stopping"}
    /\ job \in [Imports -> Holding \cup {"none", "new", "locking", "ended"}]
    /\ under \in [Imports -> Ids]
    /\ pausing \subseteq Imports
    /\ cancelling \subseteq Imports
    /\ interrupted \subseteq Imports
    /\ locked \in BOOLEAN
    /\ crashes \in 0 .. MaxCrashes
    /\ beside \subseteq Imports
    /\ reopened \subseteq Imports

Init ==
    /\ status = [i \in Imports |-> "preview"]
    /\ raw = [i \in Imports |-> "skipped"]
    /\ archive = [i \in Imports |-> "skipped"]
    /\ file = [i \in Imports |-> "kept"]
    /\ days = [i \in Imports |-> {}]
    /\ stored = [i \in Imports |-> {}]
    /\ periods = [i \in Imports |-> [p \in 1 .. PeriodCount |-> "none"]]
    /\ chat = "old"
    /\ process = "up"
    /\ job = [i \in Imports |-> "none"]
    /\ under = [i \in Imports |-> "old"]
    /\ pausing = {}
    /\ cancelling = {}
    /\ interrupted = {}
    /\ locked = FALSE
    /\ crashes = 0
    /\ beside = {}
    /\ reopened = {}

-----------------------------------------------------------------------------
\* The process dies: only the database and the disk are left.
Dies ==
    /\ crashes < MaxCrashes
    /\ crashes' = crashes + 1
    /\ process' = "down"
    /\ job' = [i \in Imports |-> "none"]
    /\ under' = [i \in Imports |-> "old"]
    /\ pausing' = {}
    /\ cancelling' = {}
    /\ interrupted' = {}
    /\ locked' = FALSE

\* The task is done; its callback takes it out of _tasks a little later.
JobEnds(i) ==
    /\ job' = [job EXCEPT ![i] = "ended"]
    /\ interrupted' = interrupted \ {i}
    /\ UNCHANGED <<under, machine>>

JobGoesTo(i, position) ==
    /\ job' = [job EXCEPT ![i] = position]
    /\ UNCHANGED <<under, interrupted, machine>>

\* The periods of i with a status in S get status s.
Marked(i, S, s) ==
    [periods EXCEPT ![i] =
        [p \in 1 .. PeriodCount |-> IF @[p] \in S THEN s ELSE @[p]]]

\* The stage waits for the owner, one that was over too.
Stays(i, stage) ==
    IF stage = "raw"
    THEN /\ raw' = [raw EXCEPT ![i] = "paused"]
         /\ reopened' = IF raw[i] \in UNFINISHED_STAGES THEN reopened ELSE reopened \cup {i}
         /\ UNCHANGED archive
    ELSE archive' = [archive EXCEPT ![i] = "paused"] /\ UNCHANGED <<raw, reopened>>

\* Mutant: the owner's request to pause stays.
PauseStageOnRequest(i, stage, ps) ==
    /\ Stays(i, stage)
    /\ status' = [status EXCEPT ![i] = "paused"]
    /\ periods' = [periods EXCEPT ![i] = ps]
    /\ UNCHANGED <<file, flags>>

\* _pause_stage.  A request to cancel is not looked at.
PauseStage(i, stage, ps) ==
    /\ Stays(i, stage)
    /\ status' = [status EXCEPT ![i] = "paused"]
    /\ periods' = [periods EXCEPT ![i] =
           [p \in 1 .. PeriodCount |->
               IF ps[p] = "running" THEN "waiting" ELSE ps[p]]]
    /\ pausing' = pausing \ {i}
    /\ UNCHANGED <<file, cancelling>>

Verdict(S) ==
    IF S = {"done"} THEN "done" ELSE IF "done" \in S THEN "partial" ELSE "failed"

\* _complete, after the stages got their last status: the verdict, then the
\* file and the owner's requests go.  Rest says what becomes of the task; the
\* process may die before the verdict or after it.
Complete(i, Rest) ==
    \/ UNCHANGED <<status, file>> /\ Dies
    \/ /\ status' = [status EXCEPT ![i] =
                         Verdict({raw'[i], archive'[i]} \ {"skipped"})]
       /\ \/ /\ file' = [file EXCEPT ![i] = "deleted"]
             /\ pausing' = pausing \ {i}
             /\ cancelling' = cancelling \ {i}
             /\ Rest
          \/ UNCHANGED file /\ Dies

\* _abandon: the unfinished stages and periods end with status s.
Abandon(i, s, Rest) ==
    LET Last(stage) == IF stage[i] \in UNFINISHED_STAGES THEN s ELSE stage[i]
    IN  /\ raw' = [raw EXCEPT ![i] = Last(raw)]
        /\ archive' = [archive EXCEPT ![i] = Last(archive)]
        /\ UNCHANGED <<days, chat, beside, reopened>>
        /\ \/ UNCHANGED <<status, file, stored, periods>> /\ Dies
           \/ /\ periods' = Marked(i, {"waiting", "running", "failed"}, "cancelled")
              /\ stored' = [stored EXCEPT ![i] =
                                IF raw[i] \in UNFINISHED_STAGES THEN {} ELSE @]
              /\ Complete(i, Rest)

\* _after_stop
AfterStop(i, stage) ==
    \/ /\ i \in cancelling
       /\ Abandon(i, "cancelled", JobEnds(i))
    \/ /\ i \notin cancelling
       /\ i \in pausing
       /\ PauseStage(i, stage, periods[i])
       /\ UNCHANGED data
       /\ JobEnds(i)
    \/ /\ i \notin cancelling \cup pausing  \* shutting down
       /\ UNCHANGED <<records, flags>>
       /\ JobEnds(i)

\* _should_stop
ShouldStop(i) == process = "stopping" \/ i \in pausing \cup cancelling

Busy == \E i \in Imports : status[i] \in {"running", "paused"}

LockFree == ~locked /\ \A i \in Imports : job[i] \notin Holding

-----------------------------------------------------------------------------
(* The owner *)

\* start, with the stages chosen: nothing else may be unfinished.
Start(i) ==
    /\ process = "up"
    /\ status[i] = "preview"
    /\ ~Busy
    /\ status' = [status EXCEPT ![i] = "running"]
    /\ \E chosen \in (SUBSET {"raw", "archive"}) \ {{}},
          D \in (SUBSET Days) \ {{}}, n \in 1 .. PeriodCount :
           /\ raw' = [raw EXCEPT ![i] =
                  IF "raw" \in chosen THEN "waiting" ELSE "skipped"]
           /\ archive' = [archive EXCEPT ![i] =
                  IF "archive" \in chosen THEN "waiting" ELSE "skipped"]
           /\ days' = [days EXCEPT ![i] = IF "raw" \in chosen THEN D ELSE {}]
           /\ periods' = [periods EXCEPT ![i] = [p \in 1 .. PeriodCount |->
                  IF "archive" \in chosen /\ p <= n THEN "waiting" ELSE "none"]]
    /\ UNCHANGED <<file, stored, chat, beside, reopened, flags>>
    /\ JobGoesTo(i, "new")

\* discard, by the owner or of a preview grown stale.
Discard(i) ==
    /\ process = "up"
    /\ status[i] = "preview"
    /\ status' = [status EXCEPT ![i] = "discarded"]
    /\ file' = [file EXCEPT ![i] = "deleted"]
    /\ UNCHANGED <<stages, data, periods, flags, task, machine>>

\* _interrupt
Interrupt(i) ==
    interrupted' = IF job[i] \in Interruptible THEN interrupted \cup {i}
                   ELSE interrupted

Pause(i) ==
    /\ process = "up"
    /\ status[i] = "running"
    /\ job[i] # "none"
    /\ pausing' = pausing \cup {i}
    /\ Interrupt(i)
    /\ UNCHANGED <<records, cancelling, job, under, machine>>

\* cancel_unfinished: asks the job to, if there is one.
Cancel(i) ==
    /\ process = "up"
    /\ status[i] \in {"running", "paused"}
    /\ \/ /\ job[i] # "none"
          /\ cancelling' = cancelling \cup {i}
          /\ Interrupt(i)
          /\ UNCHANGED <<records, pausing, job, under, machine>>
       \/ /\ job[i] = "none"
          /\ Abandon(i, "cancelled", UNCHANGED <<task, machine>>)

\* resume
Resume(i) ==
    /\ process = "up"
    /\ status[i] = "paused"
    /\ job[i] = "none"
    /\ file[i] = "kept"
    /\ status' = [status EXCEPT ![i] = "running"]
    /\ raw' = [raw EXCEPT ![i] = IF @ = "paused" THEN "waiting" ELSE @]
    /\ archive' = [archive EXCEPT ![i] = IF @ = "paused" THEN "waiting" ELSE @]
    /\ periods' = Marked(i, {"failed"}, "waiting")
    /\ UNCHANGED <<file, data, reopened, flags>>
    /\ JobGoesTo(i, "new")

\* expire_paused: the file has been kept long enough (since the first pause).
Expire(i) ==
    /\ process \in {"up", "stopping"}
    /\ status[i] = "paused"
    /\ Abandon(i, "expired", UNCHANGED <<task, machine>>)

\* delete_messages on the chat's page: refused while an import is unfinished
\* or the history lock is taken.
DeleteMessages ==
    /\ process = "up"
    /\ ~Busy
    /\ LockFree
    /\ stored' = [i \in Imports |-> stored[i] \ (Days \X {chat})]
    /\ UNCHANGED <<status, stages, file, days, periods, chat, beside, flags, task, machine>>

-----------------------------------------------------------------------------
(* The job: _job, _run_stages *)

\* The archive stage starts to load the file, or nothing is left to do.
RunArchive(i) ==
    \/ /\ archive[i] \in {"waiting", "running"}
       /\ archive' = [archive EXCEPT ![i] = "running"]
       /\ UNCHANGED <<status, raw, reopened, file, data, periods, flags>>
       /\ JobGoesTo(i, "loading")
    \/ /\ archive[i] \notin {"waiting", "running"}
       /\ UNCHANGED <<stages, data, periods>>
       /\ Complete(i, JobEnds(i))

RunStages(i) ==
    \/ /\ raw[i] \in {"waiting", "running"}
       /\ raw' = [raw EXCEPT ![i] = "running"]
       /\ job' = [job EXCEPT ![i] = "storing"]
       /\ under' = [under EXCEPT ![i] = chat]
       /\ UNCHANGED <<status, archive, reopened, file, data, periods, flags,
                      interrupted, machine>>
    \/ /\ raw[i] \notin {"waiting", "running"}
       /\ RunArchive(i)

WaitForLock(i) ==
    /\ job[i] = "new"
    /\ ~LockFree
    /\ UNCHANGED <<records, flags>>
    /\ JobGoesTo(i, "locking")

TakeLock(i) ==
    /\ job[i] \in {"new", "locking"}
    /\ i \notin interrupted
    /\ LockFree
    /\ RunStages(i)

\* _current_stage: the first unfinished one; with none left (the process died
\* before _complete, and the job waits for the lock again) the raw stage.
CurrentStage(i) ==
    IF raw[i] \notin UNFINISHED_STAGES /\ archive[i] \in UNFINISHED_STAGES
    THEN "archive" ELSE "raw"

\* CancelledError where the job waits: for the lock, a slot, a delay, an answer.
BeInterrupted(i) ==
    /\ i \in interrupted
    /\ AfterStop(i, CurrentStage(i))

\* The callback of the task.
Reap(i) ==
    /\ job[i] = "ended"
    /\ UNCHANGED <<records, flags>>
    /\ JobGoesTo(i, "none")

-----------------------------------------------------------------------------
(* The raw stage: run, in a worker thread *)

\* A batch is inserted, under the chat ID the thread has read.
StoreBatch(i) ==
    /\ job[i] = "storing"
    /\ \E d \in days[i] :
           /\ <<d, under[i]>> \notin stored[i]
           /\ stored' = [stored EXCEPT ![i] = @ \cup {<<d, under[i]>>}]
    /\ UNCHANGED <<status, stages, file, days, chat, beside, periods, flags, task, machine>>

\* The last batch is in.  One transaction shows the messages and deletes the
\* earlier imports' of these dates; an import with none left is "replaced".
\* After an upgrade of the group it is done under an ID that has no others.
\* (A raw stage that was reopened but never chosen has no dates and fails.)
StoreEnds(i) ==
    /\ job[i] = "storing"
    /\ days[i] # {}
    /\ LET Kept(j) == stored[j] \ (days[i] \X {under[i]})
       IN  /\ stored' = [j \in Imports |->
                  IF j = i THEN stored[i] \cup (days[i] \X {under[i]}) ELSE Kept(j)]
           /\ status' = [j \in Imports |->
                  IF /\ j # i
                     /\ chat = under[i]
                     /\ status[j] \in {"done", "partial"}
                     /\ raw[j] = "done"
                     /\ Kept(j) = {}
                  THEN "replaced" ELSE status[j]]
    /\ raw' = [raw EXCEPT ![i] = "done"]
    /\ beside' = IF under[i] = chat THEN beside ELSE beside \cup {i}
    /\ UNCHANGED <<archive, reopened, file, days, chat, periods, flags>>
    /\ JobGoesTo(i, "stored")

\* Mutant: what was stored is not deleted.
StopWithoutRollback(i) ==
    /\ job[i] = "storing"
    /\ ShouldStop(i)
    /\ raw' = [raw EXCEPT ![i] = "waiting"]
    /\ UNCHANGED <<status, archive, reopened, file, data, periods, flags>>
    /\ JobGoesTo(i, "rolled back")

\* The flag is seen between two messages.
StoreStopped(i) ==
    /\ job[i] = "storing"
    /\ ShouldStop(i)
    /\ stored' = [stored EXCEPT ![i] = {}]
    /\ raw' = [raw EXCEPT ![i] = "waiting"]
    /\ UNCHANGED <<status, archive, reopened, file, days, chat, beside, periods, flags>>
    /\ JobGoesTo(i, "rolled back")

\* An error: the thread itself pauses the import.
StoreFails(i) ==
    /\ job[i] = "storing"
    /\ stored' = [stored EXCEPT ![i] = {}]
    /\ PauseStage(i, "raw", periods[i])
    /\ UNCHANGED <<days, chat, beside>>
    /\ JobGoesTo(i, "gave up")

\* The task resumes with what the thread returned.
ResumeFromStore(i) ==
    \/ job[i] = "stored" /\ RunArchive(i)
    \/ job[i] = "rolled back" /\ AfterStop(i, "raw")
    \/ job[i] = "gave up" /\ UNCHANGED <<records, flags>> /\ JobEnds(i)

-----------------------------------------------------------------------------
(* The archive stage *)

LoadEnds(i) ==
    /\ job[i] = "loading"
    /\ UNCHANGED <<records, flags>>
    /\ \/ JobGoesTo(i, "loaded")
       \/ ShouldStop(i) /\ JobGoesTo(i, "load stopped")
       \/ JobGoesTo(i, "load failed")

ToDo(ps) == {p \in 1 .. PeriodCount : ps[p] \in {"waiting", "running"}}

\* The loop over the periods goes on, with their statuses ps: the next one to
\* do is started; after the last one the stage is done, unless summaries that
\* replace older ones went missing and must be made again.
Work(i, ps) ==
    \/ \E p \in ToDo(ps) :
           /\ \A q \in ToDo(ps) : p <= q
           /\ periods' = [periods EXCEPT ![i] = [ps EXCEPT ![p] = "running"]]
           /\ UNCHANGED <<status, stages, file, data, flags>>
           /\ JobGoesTo(i, "summarizing")
    \/ /\ ToDo(ps) = {}
       /\ periods' = [periods EXCEPT ![i] = ps]
       /\ archive' = [archive EXCEPT ![i] = "done"]
       /\ UNCHANGED <<raw, reopened, data>>
       /\ Complete(i, JobEnds(i))
    \/ /\ ToDo(ps) = {}
       /\ \E p \in 1 .. PeriodCount :
              /\ ps[p] = "done"
              /\ PauseStage(i, "archive", [ps EXCEPT ![p] = "waiting"])
       /\ UNCHANGED data
       /\ JobEnds(i)

\* Work, or the flag is seen before the next period.
ResumeFromLoad(i) ==
    \/ /\ job[i] = "loaded"
       /\ IF ShouldStop(i) /\ ToDo(periods[i]) # {}
          THEN AfterStop(i, "archive")
          ELSE Work(i, periods[i])
    \/ job[i] = "load stopped" /\ AfterStop(i, "archive")
    \/ /\ job[i] = "load failed"
       /\ PauseStage(i, "archive", periods[i])
       /\ UNCHANGED data
       /\ JobEnds(i)

InWork(i, p) ==
    /\ job[i] = "summarizing"
    /\ i \notin interrupted
    /\ periods[i][p] = "running"

\* The period's summary is saved with its status.  (During a shutdown the
\* last answer is dropped, and the period waits.)
PeriodEnds(i, p) ==
    /\ InWork(i, p)
    /\ \/ /\ process = "up"
          /\ Work(i, [periods[i] EXCEPT ![p] = "done"])
       \/ /\ process = "stopping"
          /\ periods' = [periods EXCEPT ![i][p] = "waiting"]
          /\ UNCHANGED <<status, stages, file, data, flags>>
          /\ JobEnds(i)

\* A part kept failing: the period fails, then the import is paused.
PeriodFails(i, p) ==
    /\ InWork(i, p)
    /\ UNCHANGED data
    /\ \/ /\ PauseStage(i, "archive", [periods[i] EXCEPT ![p] = "failed"])
          /\ JobEnds(i)
       \/ /\ periods' = [periods EXCEPT ![i][p] = "failed"]
          /\ UNCHANGED <<status, stages, file>>
          /\ Dies

\* Its request was cancelled on the queue page, or an unexpected error.
PeriodGivesUp(i, p) ==
    /\ InWork(i, p)
    /\ PauseStage(i, "archive", periods[i])
    /\ UNCHANGED data
    /\ JobEnds(i)

-----------------------------------------------------------------------------
(* Everybody else *)

\* The live archiver takes the history lock, if it is free and nobody waits.
OthersTakeLock ==
    /\ process = "up"
    /\ LockFree
    /\ \A i \in Imports : job[i] # "locking"
    /\ locked' = TRUE
    /\ UNCHANGED <<records, flags, task, process, crashes>>

OthersFreeLock ==
    /\ locked
    /\ locked' = FALSE
    /\ UNCHANGED <<records, flags, task, process, crashes>>

\* ChatRepository.migrate: every row of the old ID moves.
Upgrade ==
    /\ Upgrades
    /\ process = "up"
    /\ chat = "old"
    /\ chat' = "new"
    /\ stored' = [i \in Imports |-> {<<d[1], "new">> : d \in stored[i]}]
    /\ UNCHANGED <<status, stages, file, days, beside, periods, flags, task, machine>>

\* The upload vanishes while nothing runs.
LoseFile(i) ==
    /\ process = "down"
    /\ file[i] = "kept"
    /\ file' = [file EXCEPT ![i] = "lost"]
    /\ UNCHANGED <<status, stages, data, periods, flags, task, machine>>

Crash ==
    /\ process # "down"
    /\ Dies
    /\ UNCHANGED records

\* shutdown: the jobs are told; those that still wait later are cancelled.
Shutdown ==
    /\ process = "up"
    /\ crashes < MaxCrashes
    /\ process' = "stopping"
    /\ UNCHANGED <<records, flags, task, locked, crashes>>

StopWaiting(i) ==
    /\ process = "stopping"
    /\ job[i] \in Interruptible
    /\ i \notin interrupted
    /\ interrupted' = interrupted \cup {i}
    /\ UNCHANGED <<records, flags, job, under, machine>>

Exit ==
    /\ process = "stopping"
    /\ \A i \in Imports : job[i] \in {"none", "ended"}
    /\ Dies
    /\ UNCHANGED records

\* Mutant: the messages of an interrupted raw stage are kept.
AllMessagesKept(i) == stored[i]

Resumable(i) == status[i] = "running" /\ file[i] = "kept"

Expired(i) == status[i] = "running" /\ file[i] # "kept"

\* A running raw stage starts over from nothing, an unfinished one that can't
\* go on leaves nothing.
MessagesKept(i) ==
    IF \/ status[i] = "running" /\ raw[i] = "running"
       \/ Expired(i) /\ raw[i] \in UNFINISHED_STAGES
    THEN {} ELSE stored[i]

StageKept(stage) ==
    IF stage \in UNFINISHED_STAGES THEN "expired" ELSE stage

PeriodKept(i, s) ==
    IF Expired(i) /\ s \in {"waiting", "running", "failed"} THEN "cancelled"
    ELSE IF Resumable(i) /\ s = "running" THEN "waiting" ELSE s

FileKept(i) == IF Expired(i) \/ status[i] \in Finished THEN "deleted" ELSE file[i]

\* recover: a running import goes on from its checkpoints; without its file it
\* is abandoned.  A finished import whose file outlived it loses it.
Recover ==
    /\ process = "down"
    /\ process' = "starting"
    /\ stored' = [i \in Imports |-> MessagesKept(i)]
    /\ raw' = [i \in Imports |->
           IF Expired(i) THEN StageKept(raw[i])
           ELSE IF status[i] = "running" /\ raw[i] = "running" THEN "waiting" ELSE raw[i]]
    /\ archive' = [i \in Imports |-> IF Expired(i) THEN StageKept(archive[i]) ELSE archive[i]]
    /\ periods' = [i \in Imports |->
           [p \in 1 .. PeriodCount |-> PeriodKept(i, periods[i][p])]]
    /\ status' = [i \in Imports |->
           IF Expired(i) THEN Verdict({raw'[i], archive'[i]} \ {"skipped"}) ELSE status[i]]
    /\ file' = [i \in Imports |-> FileKept(i)]
    /\ UNCHANGED <<days, chat, beside, reopened, flags, task, locked, crashes>>

\* resume_interrupted, once the bot is up.
ResumeInterrupted ==
    /\ process = "starting"
    /\ process' = "up"
    /\ job' = [i \in Imports |-> IF status[i] = "running" THEN "new" ELSE job[i]]
    /\ UNCHANGED <<records, flags, under, interrupted, locked, crashes>>

-----------------------------------------------------------------------------
StoreStep(i) == StoreBatch(i) \/ StoreEnds(i) \/ StoreStopped(i) \/ StoreFails(i)

PeriodStep(i) ==
    \E p \in 1 .. PeriodCount : PeriodEnds(i, p) \/ PeriodFails(i, p) \/ PeriodGivesUp(i, p)

\* What a job does by itself, wherever it is.
JobStep(i) ==
    \/ WaitForLock(i)
    \/ TakeLock(i)
    \/ StoreStep(i)
    \/ ResumeFromStore(i)
    \/ LoadEnds(i)
    \/ ResumeFromLoad(i)
    \/ PeriodStep(i)
    \/ BeInterrupted(i)
    \/ Reap(i)

Owner(i) == Start(i) \/ Discard(i) \/ Pause(i) \/ Cancel(i) \/ Resume(i)

Next ==
    \/ \E i \in Imports :
           JobStep(i) \/ Owner(i) \/ Expire(i) \/ StopWaiting(i) \/ LoseFile(i)
    \/ DeleteMessages
    \/ OthersTakeLock
    \/ OthersFreeLock
    \/ Upgrade
    \/ Crash
    \/ Shutdown
    \/ Exit
    \/ Recover
    \/ ResumeInterrupted

Spec == Init /\ [][Next]_vars

\* Tasks are resumed, threads and requests end, the history lock is freed, and
\* the process is started again and comes up.
Fairness ==
    /\ \A i \in Imports : WF_vars(JobStep(i)) /\ WF_vars(StopWaiting(i))
    /\ WF_vars(OthersFreeLock)
    /\ WF_vars(Exit)
    /\ WF_vars(Recover)
    /\ WF_vars(ResumeInterrupted)

FairSpec == Spec /\ Fairness

-----------------------------------------------------------------------------
(* Correctness *)

\* The messages of import i the chat shows: none while its raw stage runs.
Shown(i) == IF raw[i] = "running" THEN {} ELSE {d[1] : d \in stored[i] \cap (Days \X {chat})}

\* No import hangs: while the process is up, an import that is said to run has
\* a task that has not ended, or the owner could neither pause nor resume it.
RunningImportsHaveJobs ==
    process = "up" =>
        \A i \in Imports :
            status[i] = "running" => job[i] \notin {"none", "ended", "gave up"}

\* The raw stage is all or nothing: stored messages belong to a stage that
\* runs (and are hidden) or is done, after errors, cancellations and crashes.
\* Only a pause may say of a stage that is done that it has still to run: that
\* of an import whose stages are all over, which a restart put in line for the
\* history lock once more before it got its verdict.
RawStageIsWhole ==
    \A i \in Imports :
        stored[i] # {} => raw[i] \in {"running", "done"} \/ i \in reopened

\* No date of the chat shows the messages of two imports, except those stored
\* by a thread under whose hands the group was upgraded, which replace none.
DatesShownOnce ==
    \A i, j \in Imports :
        i # j => Shown(i) \cap Shown(j) = {} \/ i \in beside \/ j \in beside

\* The upload is there as long as its import may go on, and no longer: after a
\* restart no finished import still has its file.
FileLivesWithImport ==
    \A i \in Imports :
        /\ status[i] \in {"preview", "running", "paused"} => file[i] # "deleted"
        /\ status[i] \in Finished /\ process # "down" => file[i] = "deleted"

\* Imports are as they are kept: a running import has its job, a raw stage is
\* there whole or not at all, whatever thread, crash or roll-back met it, no
\* date shows two imports unless the group was upgraded under the thread that
\* stored one, and the upload lives as long as its import may go on.
ImportsSound ==
    TypeOK /\ RunningImportsHaveJobs /\ RawStageIsWhole /\ DatesShownOnce /\ FileLivesWithImport

\* The chat sees none of the threads, flags, crashes and restarts: it sees the
\* imports of ImportPromise, one at a time, each with its messages whole and in
\* place of the earlier ones of their dates, or without any; two exceptions are
\* part of it: the one import over which the group was upgraded, and an import
\* whose finished raw stage a pause has reopened.
Promise == INSTANCE ImportPromise WITH
    phase <- [i \in Imports |-> IF status[i] \in Finished THEN "finished" ELSE status[i]],
    shown <- [i \in Imports |-> Shown(i)]

KeepsImportPromise == Promise!Spec

\* A pause takes effect: the import comes to rest (paused, finished, or for the
\* next start to go on with) wherever its job was.
PauseTakesEffect == \A i \in Imports : i \in pausing ~> i \notin pausing

\* Every import that runs comes to an end or a pause.
RunsEnd == \A i \in Imports : status[i] = "running" ~> status[i] # "running"
=============================================================================
