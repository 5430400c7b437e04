# Verification of naruto-chat-bot

TLA+ modules that model the parts of the bot whose correctness depends on the
order of things: the model request queue, imports of a chat's history and the
summaries made of it, the rolling digest, reminders, requests on their way to
an answer, groups, people and notes, the prompt lab, and the database
connection under all of them. TLC checks them on small instances. TLAPS proves
the safety properties of all of them for every value of the constants, and that
the queue and the imports implement their abstract specifications.

The program is one Python process with one asyncio loop (`naruto/main.py`) and
one SQLite connection (`naruto/db/database.py`). Everything between two
`await`s is atomic with respect to the other coroutines, so **an action is the
code between two awaits**. Two things break that atomicity and are modelled
where they matter:

* worker threads (`asyncio.to_thread` in the importer), which run beside the
  loop and write to the database;
* the process dying. A write outside a transaction is durable when it returns,
  a transaction is written whole or not at all (`Database` is about that); so a
  handler that makes several writes can be cut between two of them. SQLite runs
  in WAL mode with `synchronous=NORMAL`: a loss of power may take the last
  commits with it, which no module models.

## 1. Inventory

| Part | State it keeps | Operations | What is hard | What makes it correct |
|---|---|---|---|---|
| **Model queue and client** `model_queue.py`, `llm.py`, `db/model_requests.py` | `_queued`, `_running`, heaps, tickets; one log row per request | `acquire`, `release`, `_dispatch`, `cancel`, `cancel_all`, `settings_changed`, `interrupt_open` | callers cancelled in the turn in which they are started; limits that change under running requests; a retry that queues again | no slot lost or idle, limits and order kept, the log says what happened |
| **Import jobs** `importer/service.py`, `db/imports.py` | `imports`, `history_periods`, messages of a source, the upload; `_tasks`, `_pause`, `_cancel`, `_in_thread`, `_started` | `start`, `pause`, `resume`, `cancel`, `discard`, `expire_paused`, `shutdown`, `recover`, the job itself | a thread, flags and a task that can be interrupted only at some awaits; death anywhere, also in `recover` | all or nothing, one import of a chat at a time, each ends or rests |
| **Import planning** `importer/planning.py`, `periods.py` | none | boundaries, `plan_periods`, what is replaced | date arithmetic at the edges; edits between the plan and the job | the periods cover the dates chosen, live chat is left alone, the preview is true |
| **Publishing of summaries** `db/history.py`, `importer/service.py`, `web/history.py` | `history_digests`, `history_periods` | `_create_periods`, `complete_period`, `publish_group`, `_abandon`, the owner's edit, delete, clear | a group becomes ready over hours while the owner edits what it replaces | old summaries give way at once, edits are kept, nothing overlaps |
| **History writer, live archiver** `memory/history.py` | a period's checkpoint and attempts, the chat's history lock | `archive`, `run_due`, retry | restarts in the middle of a period whose messages or settings changed | a summary covers all of its messages, attempts are bounded |
| **Rolling digest** `memory/keeper.py`, `db/digests.py` | `digests` (text, cursor, revision), `_requested`, a lock per chat | `update`, `run_due`, the owner's save and clear | the owner edits while the model works | the owner's version wins, every message is read once |
| **Reminders** `tg/reminders.py`, `db/reminders.py` | `reminders` | `send_due`, set, cancel | a list read once and sent one by one; death between sending and recording | sent once, none holds up the others |
| **Replies and Telegram** `tg/responder.py`, `bot.py`, `progress.py`, `sending.py`, `own_messages.py`, ... | requests in progress, placeholders | `respond`, progress, delivery | the chat is disabled or upgraded meanwhile; calls whose answer is lost | each request is settled, nothing goes to a chat that is not enabled |
| **Agent runner, tools, context** `agent/*` | a run's steps and counters | rounds, tool calls, limits, deadline, repairs | limits reached inside a round | a run ends, within its limits, and says what it did |
| **Messages** `db/messages.py`, `agent/context.py` | rows with links between them | insert, resolve replies, hide, delete, recent window | row IDs that are used again, imports that are half there | what the model reads is what was said |
| **Board, plans, polls** `tg/board.py`, `db/board.py`, `db/plans.py` | items, the board's one message | change, publish, repost | two publications at once | one board, showing the last change |
| **Chats and groups** `tg/access.py`, `tg/recorder.py`, `db/chats.py`, `db/members.py` | status, membership, members, aliases of IDs | approve, join, leave, upgrade | two announcements of an upgrade in any order | one chat, the owner told, rows moved whole |
| **People and notes** `db/people.py`, `memory/notes.py`, `db/memory.py` | accounts, people, aliases, notes, their history | merge, move, split, name, note actions, locks | a thread that inserts the same account | every account has its person, locked notes stay |
| **Settings** `settings/*` | rows and a cache | `set_many`, `reset`, revert, seed | new defaults after an update | the cache equals the rows, history explains them |
| **Prompt lab** `lab/*`, `db/lab.py` | runs, batches, attempts, candidates, scenarios, sets, judgments, comparisons, activations | lease, execute, recover, judge, compare, choose, activate, revert | restarts with work in flight, evidence that goes stale | budgets hold, choices are blind, activations can be undone |
| **Process life cycle** `main.py`, `jobs.py`, `services.py` | -- | start-up repairs, shutdown, daily jobs | the order of repairs | interrupted work is found |
| **Web admin** `web/*` | sessions | the owner's buttons | -- | -- |
| **Database and logs** `db/database.py`, `logs.py`, `db/logs.py` | a connection, a lock, a depth, a buffer | `transaction`, `execute`, migrations, `backup`, `flush` | blocks inside blocks, from several threads, when COMMIT fails | the disk has whole transactions only |
| **Export parser, lab client, health, media** | -- | -- | -- | not modelled (section 6) |

How they interact: the responder, the keeper, the history writer and the lab
all send their model requests through the queue. The import job holds the
chat's history lock and calls the history writer for each period, and asks
`db/history.py` to publish. The live archiver wants the same lock. An upgrade
of a group to a supergroup (`db/chats.py`) changes the chat ID under all of
them. A sandbox of the lab runs the bot's own recorder, responder and reminder
job against a stand-in for Telegram. The web admin calls the same services from
its own coroutines.

`PROJECT.json` lists the components with their status, every hazard found with
the line where it bites, also those no property covers, and the lines each
definition stands for.

## 2. Modules

| Module | What it is | Small instances |
|---|---|---|
| `ModelQueue`, `SlotAdmission` | the queue, the coroutines of `LLMClient.chat` that use it and the request log; what it promises without tickets, futures or callers | `MCModelQueue` |
| `ImportJob`, `ImportPromise` | the imports of one chat: task, thread, flags, stages, file, crashes; what a chat sees of them | `MCImportJob` |
| `Periods`, `ImportPlanning` | months, weeks and ranges of dates; the plan of an import and the periods its job makes of it | `MCImportJob` |
| `HistoryPublish` | the periods and summaries of one import against the older summaries | `MCHistoryPublish` |
| `LiveArchive` | the summaries of live chat: archiver, history writer, checkpoints | `MCHistoryPublish` |
| `DigestKeeper` | the rolling digest of one chat | `MCDigestKeeper` |
| `Reminders` | reminders of one chat and the job that sends them | `MCDigestKeeper` |
| `Database` | the connection all threads share, migrations, backups, the log buffer | `MCDigestKeeper` |
| `AgentRun`, `Replies` | a run of the agent as operators on a record; requests from the trigger to the posted answer | `MCReplies` |
| `Transcript` | the stored messages, with imports and deletions, and what the model reads of them | `MCReplies` |
| `Chats` | a group: approval, membership, messages, members, two chat IDs | `MCChats` |
| `Board` | a group's board and its publications | `MCChats` |
| `People`, `PeopleNotes` | people, accounts and notes as operators on a database; who changes them, and when | `MCPeopleNotes` |
| `Settings`, `LabActivation` | rows, cache and history of settings; runs, candidates, activations and reverts | `MCLab` |
| `LabScenario`, `LabSandbox` | parsing a scenario's IDs and dates; playing it | `MCLab` |
| `LabEvidence`, `LabChoices` | scenarios, sets, rubrics, judgments, reports; the owner's blind comparisons | `MCLab` |
| `LabBatches` | the attempts of a run: slots, budget, cancellation, restart | `MCLabBatches` |
| `ModelQueueProofs` | the theorems (section 4) about `ModelQueue` | |
| `ImportJobProofs` | about `ImportJob` and `ImportPlanning` | |
| `HistoryPublishProofs` | about `HistoryPublish` and `LiveArchive` | |
| `MemoryProofs` | about `DigestKeeper`, `Reminders`, `Database` and `PeopleNotes` | |
| `RepliesProofs` | about `Replies` and `Transcript` | |
| `GroupsProofs` | about `Chats` and `Board` | |
| `LabProofs` | about `LabBatches`, `LabActivation`, `LabEvidence` and `LabChoices` | |
| `LabSandboxProofs` | about `LabSandbox` | |

Two or three components that share no state are checked in one run: a variable
`part` says which of them a behaviour is of, and the others stand still. That
only saves runs; each component has its own `Init`, `Next` and properties and
can be checked alone.

### ModelQueue

`caller[r]` is where the coroutine of request `r` stands: awaiting its ticket
(`waiting`), awaiting the model (`calling`), asleep before its one retry
(`sleeping`). `ticket[r]` holds state, place (`seq`), attempt and future.
A cancelled task that waits for its ticket is in `gaveUp` until the loop
resumes it: between the two, `release` by somebody else may still start its
ticket, which is the race `acquire` handles in its `except CancelledError`.

| Action | Code |
|---|---|
| `Acquire`, `RefuseBusy`, `AcquireRetry`, `RefuseRetry` | `ModelQueue.acquire` |
| `Dispatch` | `_dispatch` with `_pop` and `_wanted`: what the loop pops is stated as a set, not as a loop |
| `GiveUp`, `ResumeCancelled`, `ResumeStarted`, `ResumeRefused` | a caller's task cancelled in `acquire`, and its resumption |
| `Finish`, `FailTransiently`, `Abandon` | the three ways out of the request in `LLMClient.chat`, all through `Release` |
| `Cancel`, `ChangeSettings`, `ChangeEnabled` | the queue page, the settings page, the chat's switch |
| `Crash`, `Restart`, `DeleteOldRow` | the process, `interrupt_open`, retention |

`cancel_all` is a series of `Cancel` steps without an await between them; each
prefix is reachable by single cancellations. Left out: the HTTP exchange, token
estimates, the text of errors. A time-out of a request is an error of the call.

### ImportJob and ImportPromise

`job[i]` is the await at which the import's task stands, or its thread:
`new` (created, not yet run), `locking` (waiting for the history lock),
`storing`, `stored`, `rolled back`, `gave up` (raw stage), `loading` and its
outcomes (reading the export for the archive stage), `summarizing`, `ended`
(done, its callback not yet run). `pausing`, `cancelling` are the sets `_pause`
and `_cancel`; `interrupted` are tasks cancelled at an await and not resumed.
`stored[i]` has the dates stored with the chat ID they were stored under.

`ImportPromise` says whether an import is previewed, running, paused or finished,
and of which dates the chat shows messages from it. `ImportJob` implements it,
with `Shown(i)` empty while a raw stage runs (those messages are hidden by
`source_visible`). The two exceptions the code makes are steps of the promise of
their own, each with a variable that says for which import it happened: `beside`
(the group was upgraded while the import's thread, which has read the old chat
ID, stored: what it stores appears beside the messages of its dates, or not at
all), and `reopened` (a pause met a job that had both stages behind it and
waited for the lock again: `_current_stage(...) or "raw"` pauses the raw stage
once more, which hides its messages). `beside` and `reopened` are history
variables of `ImportJob` too: no guard looks at them.

What is approximated: one chat; `start` is one step although it may read the
export again in a thread (service.py:397); uploads begin as analysed previews;
the history lock is one lock for the chat also after an upgrade; a shutdown
whose grace of ten seconds passes while a thread still runs is the process
ending there; the live archiver is seen only as somebody else who holds the
lock (`OthersTakeLock`); the upload is lost from the disk only while the
process is down; `Dies` inside `Complete`, `_abandon` and `PeriodFails` are the
cuts between writes that a restart can tell apart.

### Periods and ImportPlanning

A moment is a number, a day `DayLength` of them, a month and a week fixed
numbers of days. `MakePlan` is what the preview computes for the owner's choices
`o` (`make_plan`): the dates kept as raw chat and those summarized, cut where
live recording began, and per period what it uses again, replaces or is refused
for. `Choose`, `OwnerEdits`, `CreatePeriods` and `Publish` are the owner's
decision, their edits before the job gets there, `_create_periods` and the
publication of what it made. Left out: estimates, warnings, labels, time zones
(a day has the same length all year).

### HistoryPublish and LiveArchive

`HistoryPublish`: one import, its periods `1 .. PeriodCount` with a row each
(status, the older summaries it replaces, its own summary, and whether its
`digest_id` is set), the older summaries and which of them the owner edited.
The raw stage, the wait for the lock and the reading of the export are one
state, `loading`; a pause or a cancellation takes effect when it is asked for
(how is `ImportJob`'s subject). The owner may act at any moment until the import
is over. `Outcome` and `Publish` are `publish_group` with its five answers,
`Complete` is `complete_period` with what follows, `Cancel` is `_abandon`. A
handler that makes several writes may die between any two of them.
Approximations: every period has readable messages, the import may replace
summaries (otherwise `start` refuses overlaps), edits of new summaries are not
recorded (`publish_group` only looks at the old ones), and `recover` is part of
the crash.

`LiveArchive`: messages are numbered by date, each costs one unit of a request.
A summary is the sequence of lines it was made of, each with the generation of
the settings of its request. `Round` is one pass of `run_due`: it makes the due
periods' rows, takes the next one and sends its first request; `Answers`,
`Refuses`, `CancelledInQueue`, `QueueFull` are the model's and the queue's
answers, each with all that `archive` does until its next request. `Owner` edits
and deletes messages, deletes summaries, retries, switches the settings and the
summaries; `ImportLocks` is an import that holds the history lock.

### DigestKeeper, Reminders and Database

A digest's text is what it was made from: the owner's change it builds on and
the messages it has read. `row` is the table by chat ID, with cursor and
revision; `asked` is what `_update` has read before it awaits the model; a pass
of `run_due` either updates the chat at once (`Check`, `CheckWhenQuiet`) or has
`listed` it and comes to it after other chats (`Turn`), without looking at its
status again; an exception in a chat before it ends the pass (`PassBreaksOff`).
`Date` gives each message any date: they are stored in any order of dates, and
`late` remembers those stored behind what was already read (a history variable,
as is `cleared`, the owner's last deletion of the digest).
`Save` and `Fail` are the rest of `_update` after the model's answer. Time is
two facts: the chat has been quiet (a choice), and `RETRY_AFTER_SECONDS` have
passed since a failure. Row IDs only grow in the model; SQLite gives the newest
row's ID again once that row is deleted, which matters only if a message of the
same second comes after the deletion. Left out: the notes an answer changes (in
`PeopleNotes`), the record of the run, and a merge with a supergroup that
already has a digest.

`Reminders`: `pass` is the list `send_due` has read, `sending` the reminder that
waits for Telegram; `sent` counts what the group got, `unsure` are those whose
answer was lost (sent again by design). Recurrence is left out.

`Database`: a thread is in `blocks[t]` calls of `transaction()`, one inside the
other, and `depth` is the connection's. A row is a name; `wrote[t]` is what the
thread wrote in each of its blocks and still has to see kept or undone. A
statement, BEGIN or COMMIT may fail, and SQLite may then have rolled back by
itself; an exception ends all blocks of its thread (no caller catches one, or
awaits, inside a block). Migrations are numbered scripts of statements.
`restore_from` is left out (only the lab's sandboxes use it, on databases of
their own).

### AgentRun, Replies and Transcript

`AgentRun` is `agent/runner.py` as operators on a record: `at` says what the run
waits for, `requests` and `tools` count against the limits, `done` is
`state.actions` (what the run did, by tool) and `posted` whether it grew since the
calls at hand began. A tool waits for Telegram once or, `update_board`, any
number of times: it counts as soon as the board is saved, shows the board in as
many calls as it takes (`Board` has them), and may go on to a message of its own
that mentions who is asked (`ping`), with no look at the chat's status in
between. A poll, a pin and a deletion count when Telegram has answered. A
result's text answers, claims that something was done, is internal JSON, or is
empty. `Replies` has the handler of each request
(`job`), its progress message with the two tasks that post and edit it
(`place`), and the chat's lock with its queue (`line`): its head has the lock,
and `Release` hands it to the next. A call of Telegram is
done, refused, or done with the answer lost (`trouble` remembers for whom).
`enabled` and `upgraded` change at any moment.

`Transcript` has the table `messages` by row ID, the raw stages of two imports
with their hidden rows, the owner's deletions and the bot's own, which awaits
Telegram between reading rows and marking them. Its operators are the recent
window, the dropping of the oldest messages (`WindowStep` at a time) and the
links of a prompt.

### Chats and Board

`Chats`: `db` is the four tables a group is spread over, by its two chat IDs;
`notices` are the upgrade's two service messages still to be handed over,
`updates` what else is (a crash may lose the next of either, or have it handed
over again); `tasks` are handlers that wait for Telegram. `told`
says whether the owner heard of the bot's latest joining. What the bot may do
there (`set_rights`) is left out: it decides nothing here.

`Board`: `row` is the table's row, `messages` the board messages in the group,
`publishing` the publications that wait for Telegram. The owner's form may be
older than the row.

### People and PeopleNotes

`People` is `db/people.py` and `memory/notes.py` as operators from database to
database; `PeopleNotes` says who calls them: a handler of a message on the loop,
an import's thread (each statement of either is a step, `loop` and `thread` are
what each has found), the owner's pages and the model. `meant[n]` remembers
whose accounts a note was about when that was set.

### The prompt lab

| Module | State | Actions |
|---|---|---|
| `LabBatches` | `batch`, `attempt` (statuses), `job`, `todo` (`_run_batch`), `runner` (`_attempt_task`), `active`, `stopping` | submit, begin, start and end attempts, cancel, resume, compare, stop, delete a scenario, shut down, restart |
| `Settings`, `LabActivation` | `stored` rows, `live` cache, `last` history entry; `run` snapshots, `candidates`, `activations` | save, reset, revert, seed, restart with newer code; start a run, add a candidate, activate (changes or all), revert |
| `LabScenario` | -- | IDs and dates of messages given or made up, addressing, refusals |
| `LabSandbox` | `clock`, `chat`, `reminders`, `turns`, `outcome`, `saved` | play a message, deliver reminders, ask, answer a turn, judge, finish, continue |
| `LabEvidence` | scenarios and versions, the validation set, attempts, rubrics, judgments, `readAt` | add, change, delete, submit, run, read (the details of one attempt, or an overview of several), judge, clean up; the report's rows and counts as operators |
| `LabChoices` | comparisons with their mapping and choices, `told` | compare, show (a comparison; the report, export and pages), choose, correct, withdraw |

In `LabBatches` requests and hours of a budget are one fact (`usedUp`), and an
attempt's outcome is all of what it does. `LabSandbox` has what it does; the
model's answer to a turn is any of `Answers`; how a command is used is sent and
takes a message ID, but is no message of the stored chat (sandbox.py:728).
`dated` and `named` remember that a scenario gave dates, or a continuing one
IDs, of its own: nothing in the code keeps such a scenario from writing over a
message of the attempt it continues. Tokens, the run's policy, notes, statistics
and layout are left out, and so is the snapshot of a real chat.

## 3. Properties and runs

Every property of a passing run has a mutant in `PROJECT.json`: a plausible slip
in a mapped definition that makes TLC find the property violated.

| Run | Property | Says |
|---|---|---|
| `queue_safety` | `NoStartableWaiting` | no handler ends with a request waiting that could start |
| | `SlotsHeldByCallers` | no slot is lost or shared |
| | `RowsFollowTickets` | open log rows are those of the queue |
| | `FirstComeFirstServed` | requests of a priority start in the order they came, a retry in its old place |
| `queue_promise` | `WaitingEnds`, `KeepsAdmissionPromise` | a waiting request starts or is told why not; the queue implements `SlotAdmission` |
| `imports` | `ImportsSound` | a running import has its job, a raw stage is whole or absent unless a pause reopened it, no date shows two imports unless one was stored while the group was upgraded, the upload lives as long as the import |
| | `PlanIsTrue` | the periods cover the dates chosen, they are those of the preview, live chat is left alone |
| | `HistoryIsReplacedWhole` | what is replaced was allowed, and is made anew as a whole while nobody edits |
| | `KeepsImportPromise`, `JobsAnswer` | `ImportJob` implements `ImportPromise`; a job runs to an end, a pause takes effect |
| `history` | `HistorySound` | no date has a new and an old summary, an import that is done published all it made |
| | `ReplacedAsAllowed` | groups are swapped at once, edits are kept |
| | `MadeOnceAndWhole`, `MonthsEnd` | live summaries are of everything their work began with, made once, say what was deleted, within the attempts; no month stays due |
| `background_jobs` | `RemindedOnce` | a reminder is sent once unless Telegram's answer was lost |
| | `OwnersVersionWins` | an update does not replace the owner's text, unless they deleted the digest and wrote another while it ran |
| | `ReadsEachOnce`, `RequestsAreNotLost` | no message is read twice, none skipped that was not stored late; a request is served after it was made |
| | `DatabaseIsSound` | the disk has whole transactions and migrations only, no record is lost or stored twice, a backup has no part of a transaction |
| | `DueIsDone` | reminders are sent or given up, updates made if the passes come to the chat, and no thread waits for ever |
| `lab_batches` | `WorkIsWithinLimits`, `ResultsStay`, `BatchesEnd` | budget and slots, results that stay, batches that end |
| `lab` | `LiveSettingsAreExplained` | cache, rows, history and activations agree, reverts add up in any order |
| | `ReportIsFair`, `IndependentOfDetails` | rows of one situation, differences of the models only, by the rubric of now; no candidate was made with the details of its attempts read while a set is called independent |
| | `ChoicesAreFair`, `ChoicesAreKept` | the owner chooses blindly, or it is recorded, between replies to one situation, unless a reply was compared before; choices stay |
| | `ChatIsTrue`, `OutcomeIsTheModels` | the sandbox's chat is what was said by then, unless a scenario gives IDs or dates of its own; an attempt passes or fails by the model's answers |
| `groups` | `GroupsSound`, `StandingKept` | one chat per group with its messages and members, the owner told; nothing but the owner's decision changes the standing |
| | `BoardIsTrue` | one pinned board that shows what is saved |
| `people_notes` | `MemoryIsSound`, `LockedNotesStay` | every person has an account, notes keep subject and past; the model changes no locked note |
| `replies` | `RequestsAreSettled`, `EndsAreKept`, `RequestsEnd` | a group's requests come one at a time, unless they came under its two IDs, and nobody is left with silence or a "working" line; errors stay shown, no request, tool call or answer begins after disabling; every request ends |
| | `TranscriptIsTrue` | links, hidden imports, deletions and the recent window of the messages the model reads |
| `import_left_out`, `reply_target_dropped` | `NotReplacedInPart`, `RequestShowsItsTarget` | violated: section 5 |

### Bounds

*Queue.* Three requests are a slot, a waiter and a latecomer, and both orders of
two requests of one priority beside one of the other; the four settings are one
slot, two with and without one reserved, and paused background work. In
`queue_promise` the queues have one place, so that requests are refused; there
the log is off (it is optional) and every request is wanted.

*Imports.* Two are enough for one to replace the other and to be refused
meanwhile; two dates for a part stored and a part not; two periods for one done
and one to come. `MaxCrashes` is two so that the process can die again in the
recovery of the first crash. The run has three parts. "one import" has
everything. "two imports" has the upgrade too, at any moment, but no summaries,
one crash, and the history lock to itself; the second import is of one of the
dates of the first. The dates chosen are both or none. "plan" enumerates four
exports, five boundaries of live recording, ten histories and 144 choices, over
months of four days, weeks of three, days of two moments, and one edit of the
owner: weeks cross months, ranges begin and end inside both, and boundaries lie
inside a day and a month.

*History.* `HistoryPublish` has no artificial bound; three new weeks, the second
of which crosses two of three old months, make a group of two, linked through
the one that crosses, and a group of one. `LiveArchive` has a month of three
messages, one unreadable, in parts of one, and a month of one; two attempts
of a part, two refusals, two acts of others, two generations of settings.

*Background jobs.* Three messages, two of one second and one of an earlier
second stored last, with `Every` at two: a batch that is due, a message left for
later, one that comes meanwhile, one that comes late. Two changes of the owner,
at any moments, also both during one update, or one and an upgrade. Two
reminders, one per pass, two failures, one crash. Two
threads, blocks two deep, four calls, a migration of two statements, a buffer
of one record, one death of the process.

*Lab.* Two batches of two attempts, one slot, a budget of three, one restart. In
`lab`: two scenarios, three attempts of which two are compared at a time (two
attempts, where a second scenario or version is there to choose about),
two rubrics, one reuse of a validation set where the code allows two, two
candidates at different seconds; two settings of which one is tunable, two
runs, two activations, one update of the code; conversations of two attempts
and two reminders. `part` also says which use of the evidence a behaviour is
about (choices, validation, report, judging), since together they multiply;
a run is stopped and deleted in the report part.

*Groups, people, replies.* One message, two comings and goings, two decisions of
the owner, two handlers at once; two plans and a question, three board
messages, three changes, two publications at once. Two accounts in two chats,
three people, two notes, five changes; the names are such that one is part of
the other. Two requests of one chat, one of which hands over to another skill;
two model requests and two tool calls; one disabling, one upgrade. Three live
and two exported messages with replies across them, a window of one that moves
by two, two imports.

Symmetry is used between requests of a priority (safety only), between runs of
the lab and between chats, where no property is a liveness property.

### Fairness

`ModelQueue`: weak fairness of each caller's progress (a task that can be
resumed is resumed by the loop, a model call ends by an answer, an error or the
client's time-out, a sleep ends) and of the restart (the container restarts the
process, `docker-compose.yml`). The owner's and callers' choices have none.
`ImportJob`: weak fairness of each job's step, of the end of a stop that waits
(`StopWaiting`), of the lock being freed by its other holder, of the shutdown,
and of the start-up. `LiveArchive`: weak fairness of "something goes on"
(`GoesOnWorking`): the archiver comes round, the model answers, time passes, an
import ends. `DigestKeeper`: weak fairness of the pass, of the model's answer,
of the chat's turn and of the back-off's end. That is not enough: `run_due`
takes the chats in one order, and an update that raises each time keeps the
chats after it from their turn for ever (keeper.py:86-103). So what is checked
is `PassesReachTheChat => DueIsUpdated`: if passes stop being broken off before
this chat's turn at some time, what is due is made. `Reminders`: weak fairness
of the job, of Telegram's answer (the client has a time-out) and of the clock;
that reminders end also rests on Telegram failing for the time being only
finitely often (`MaxFailures`), since the job tries without a limit. `Database`:
weak fairness of each thread's step; a lock that others take again and again
would need strong fairness, but the calls are bounded (`MaxCalls`), so that weak
is enough and says the same. `LabBatches`: weak fairness of each batch's and
each attempt's task. `Replies`: weak fairness of the steps of each request,
since every call of Telegram and of the model ends, a tool makes finitely many,
and a run has a deadline.

## 4. What is proved

For every value of the constants that satisfies the named assumptions of the
modules (which say that bounds are numbers, sets are finite, and spans of dates
are what spans are).

**`ModelQueueProofs`** (any requests, limits and settings):

* `TypeCorrect`, `WorkConserving` (`NoStartableWaiting`), `NoSlotLeaks`
  (`SlotsHeldByCallers`), `LogIsTrue` (`RowsFollowTickets`), `OrderHolds`
  (`FirstComeFirstServed`); and `LimitsHold`, `LogIsFinal`: no dispatch starts
  more than the limits allow, a closed row is never rewritten;
* `PromiseKept` (`KeepsAdmissionPromise`): `Spec` implements `SlotAdmission`.

None of the invariants is inductive alone: that no startable request waits
depends on queued requests having pending futures or callers that gave up, and
on the two sets agreeing with the callers. `Inv` adds that `queued` and
`running` are exactly the requests with a ticket in that state, which futures go
with which callers, that places are distinct and below `nextSeq`, and that
nothing is under way while the process is down. Almost all actions end in
`Dispatch`; so the core is one lemma about it (`DispatchEffect`): the set it
pops is a prefix by place, it starts at most the free slots, and it leaves a
startable request only when the slots are gone. That lemma rests on facts about
any finite set with places (`TakenFrom`: the elements with fewer than `n` of a
subset before them form a prefix, at most `n` of that subset are among them, and
exactly `n` when any is left out). `DispatchingStep` and `QuietStep` reduce
every action to what it changes before it dispatches.

**`MemoryProofs`**. Of the digest, for any messages, settings and changes of the
owner:

* `TypeCorrect`, and `RequestsKept` (`RequestsAreNotLost`);
* `OwnerWins` (`OwnersVersionWins`), for any number of the owner's changes at any
  moments. `UpdateKnows` adds what makes `save` safe: if the update under way is
  for the chat's present ID, the row's revision differs from the one it was asked
  with once the owner changed the digest, unless they both deleted it and wrote
  it anew (`RevisionTells`, `WrittenAnew`); an upgrade leaves the update behind;
* `ReadOnce` (`ReadsEachOnce`), for messages stored in any order of their dates.
  `ReadInv` adds that the update under way, too, has read the messages up to its
  last one but for late ones, and that nothing was read that is not stored.

Of reminders, for any number of them and of failures: `RemindersSentOnce`
(`RemindedOnce`). `PassIsSound` says that the list a pass works through has each
reminder once and the one that waits for Telegram no more; `Counted` that the only
answer for good is the one that closes a reminder, so that every other sending of
it was a failure or a crash whose answer was lost.

Of the database, for any threads, migrations, buffer and bounds:
`DatabaseTypeCorrect` and `DatabaseHolds` (`DatabaseIsSound`). `Shape` says where
the threads are: one at most is in a block, it has the lock, and a transaction
is open for it alone; it is inductive by itself. `Content` says what the open
transaction has beyond the disk and that its rows are new; with `Shape` it is
inductive too, and implies the property.

Of people and notes, for any accounts, chats, names and bounds:
`MemoryStaysSound` (`MemoryIsSound`) and `LockedNotesAreKept` (`LockedNotesStay`).
`MemoryInv` adds that every row is one the code can have written, that no ID
above the highest was given, that every history tells of its note (a deleted
note's ends with its deletion), and that the page of a merge shows two different
people. The operators of `People` are functions of a database, so most of the
proof is lemmas about them. An operator either adds to a record without taking
an account from anybody (`Follows`), merges two people, or changes one note
(`NoteChanged`); a note keeps its subject in the first case because who has its
accounts keeps them, and in the second because it moves with them. A handler is
a chain of such changes, each of which may be the last before the next
coroutine's or the thread's.

**`HistoryPublishProofs`** (any periods and older summaries, however they
overlap): `PublishedIsSound` (`HistorySound`) and `ReplacedRightly`
(`ReplacedAsAllowed`). That no date has two summaries is not inductive: it
depends on what will still be published. `PublishInv` says that an older summary
in use is in the way of no new one in use, that what may still be made replaces
all that is in its way (`Good`), that a group is cancelled as a whole
(`Together`) and that nothing waits when the import is done. A handler publishes
up to twice and may die in between; so `Good` is stated of any rows and
older summaries, and what may happen to them is a transitive relation (`Keeps`)
that each write is in. A group is the least set closed under sharing an
older summary, which is all the proofs need to know of it.

Of live chat, for any months, messages, parts and settings:
`LiveSummariesAreWhole` (`MadeOnceAndWhole`). `ArchiveInv` says that what was
saved of a month's work is the beginning of what that work read, all of it still
stored (`Progresses`), that the row counts what failed, across restarts
(`TriesMatch`), that only a month that is done has a summary
(`SummariesAreOfDone`), and that a summary tells of what was deleted (`GoneIsSaid`).

**`ImportJobProofs`** (any imports, dates and periods, any number of deaths):

* `ImportsAreKept`: types, `RunningImportsHaveJobs`, `RawStageIsWhole` and
  `FileLivesWithImport`;
* `ImportsAreSound` (`ImportsSound`, which adds `DatesShownOnce`) and `PromiseKept`
  (`KeepsImportPromise`), with the group upgraded at any moment.

`ImportInv` says of each import where its task may be: a task that goes on has a
running import; while the process is up and not stopping, a running import has
such a task, and a task that stopped by a flag still has the owner's request
(`TaskOk`); a running raw stage has its thread unless the process is down, and
messages are stored only in a raw stage that runs or is done (`StageOk`); at most
one import is unfinished. Most actions end in one of a few ways (`JobEnds`,
`JobGoesTo`, `Complete`, `Abandon`, `PauseStage`, `Dies`), each with a lemma.
For the chat nearly every step is `Gentle`: no message appears or
disappears, one import at most moves from phase to phase. What is left are four
actions, of which `StoreBatch` and `Upgrade` change nothing that shows and
`StoreEnds` and `DeleteMessages` are `Appear` or `AppearBeside`, and `Forget`; a
reopened raw stage may take its messages away again (`Vanish`). `MessagesInPlace`
says that before the upgrade everything is under the old ID, that once a thread
has stored on under an ID the group had lost no later one does, and that no two
imports that show their messages, neither hidden by a raw stage nor `beside`
(`Hides`), have a date in common.

Of the plan, for any exports, boundaries, histories and choices and any lengths
of days, weeks and months: `PlansStayTrue` (`PlanIsTrue`) and `HistoryStaysWhole`
(`HistoryIsReplacedWhole`). The named assumption is what the code starts from:
summaries in use lie apart, and an export has a last message. That months, weeks
and ranges divide the dates chosen without a gap is a set of lemmas by division
(`Partition`); `PlanningInv` says that the plan of a job is what `MakePlan` makes
of the history it was previewed on, and that every summary in use is one of that
history (`Known`), edited or not.

**`RepliesProofs`** (any requests, any results of the model, any limits of the
agent, any number of times the chat is disabled):

* `RequestsStaySettled` (`RequestsAreSettled`): types, `InTurn`, `OneAtATime`,
  `PlaceholderSettled` and `NobodyIsIgnored`;
* `EndsStayKept` (`EndsAreKept`): `ErrorsStay` and `NothingAfterDisabling`.

`Fits` is what a run is between two waits: the limit of requests is one higher
exactly after a hand-over and holds, a run says that it posted only if it did
something, and one that ended silently although it ran tools, or its last result
called for some, did something. `Same` and `Begun` say what a step from one
wait to another adds: in a disabled chat it begins no call, and what a run counts
only when Telegram agrees (a poll) is not counted without. Each operator of
`AgentRun` has a lemma that says so. The tool calls of a result are a recursive
function: `StepwiseExists` shows that it exists, and `CallsFit` that each of its
steps fits, both by the least number for which it would not. `Fine` says, for one
request, where its handler can be while the timer of its placeholder runs, while
the placeholder is sent and while it is edited (`TasksFine`); that a catch-up has
none (`CatchupFine`); what a placeholder shows once it is forgotten (`ShownFine`);
that a counted poll is in the group (`RunFine`); and what excuses a request that
is over (`HeardFine`). There is a line for each ID of the chat, and `LineFine`
(`InTurn`) needs three lemmas: a line stays, grows at its end (`Arrives`), or
loses its head when who has the lock returns. `OneAtATime` follows from it and
`Keys`: a request has the new ID's lock only if the group was upgraded.

Of the transcript, for any messages, replies, exports, deletions and windows:
`TranscriptStaysTrue` (`TranscriptIsTrue`). `TranscriptInv` says that a row belongs
to a message that came, or to an import that was begun, of its dates
(`RowsBelong`); that an import has a message once, and that of all rows of a
message one may be read (`OneRowEach`); that one import is being stored, and what
is left of it was not stored yet (`OneStores`); and that a deletion that waits for
Telegram still means the row it looked at unless the owner deleted that meanwhile
(`DeletesWhatItSaw`). The links and the deletions are part of it. The window needs
how long a set put in order is, which is proved by the rank of its members
(`OrderedByRank`), and arithmetic of whole steps.

**`GroupsProofs`** (any updates, tasks and bounds):

* `GroupsStaySound` (`GroupsSound`) and `OwnersWordStands` (`StandingKept`).
  `GroupsInv` says that the tables of the two IDs are one chat's (`Whole`), that
  the updates still to come are in the order Telegram gives them (`Aligned`),
  that the latest update of the membership is true, and once it is handled the
  row is (`Truth`), as is what Telegram answered a handler that still waits
  (`AnswersTrue`), and that a group nobody has decided about was announced or
  will be (`Telling`); unless a crash lost an update or a notice of the upgrade,
  which is when the owner may not have been told. An operation of the
  repositories writes one row of the tables (`Writes`) or migrates the old ID's;
  that is all the proofs of the steps need.
* `TheBoardIsTrue` (`BoardIsTrue`), for any plans and any number of
  publications. `BoardInv` counts messages (`MessagesCount`) and says of the
  times when nothing overlapped or was refused: one publication is under way
  (`OneAtATime`), what it carries is what the row says (`Carries`), pinned are
  the message the board is kept in and the one about to take its place (`Kept`,
  `Successors`), and once nothing is under way what is shown is what is saved
  (`Settled`).

**`LabProofs`**:

* `LimitsKept` (`WorkIsWithinLimits`) and `ResultsKept` (`ResultsStay`), for any
  batches, scenarios, slots and budget. That a finished run rests needs the open
  batches to be all that has work left (`Waiting`, `Watched`), and that a batch
  ends with nothing queued needs its list to hold all that waits (`Listed`). The
  budget needs the cardinality of a first part of a list (`FirstOfFacts`).
* `LabLeavesItsMark` (`LiveSettingsAreExplained`), for any settings, values,
  versions of the code, runs and candidates. `NothingBeforeTheSeed` is what is
  added: nothing is activated before the database is seeded. That reverts add up
  in any order is about sums over sequences, whose partial sums are a recursive
  function of numbers (`SumOfMore`, `SumOfChanged`).
* `EvidenceIsSound` (the invariant `LabInv`), and from it `ReportsAreFair`,
  `IndependenceIsTrue` (`IndependentOfDetails`) and `OwnersChooseFairly`, for
  any scenarios, attempts, rubrics and results; `OwnersChoicesStay`
  (`ChoicesAreKept`). `LabInv` says that a version is given once while its
  scenario is there (`VersionsTellApart`), that an attempt names a scenario and
  its result is of that body (`Grounded`), that the first reading of its details
  is one an attempt remembers (`ReadingsAreKept`), that a judgment is by the
  rubric it names (`JudgedByARubric`), and that a comparison's replies stay what
  they were while it is there (`ComparisonsHold`). Of what is shown, by any
  page, report or export, `Blind` says that two comparisons that wait share no
  reply, and that one of which it was told who gave which reply was revealed or
  shares a reply with one that has ended (`ShownBlindly`). The limit of choices
  of a comparison is assumed to be one at least.

**`LabSandboxProofs`** (any scenarios with turns and finitely many reminders, any
answers, any number of attempts that continue one another):

* `OutcomesAreTheModels` (`OutcomeIsTheModels`). `SandboxInv` says that the
  results so far are of the scenario's turns, one by one (`TurnsAreTrue`,
  `Judged`), and of the messages played so far (`ScriptIsTrue`, `Numbered`).
  Parsing and combining are recursive functions of numbers; that they exist, and
  what they keep, is shown by the least number for which it would fail.
* `ChatsAreTrue` (`ChatIsTrue`). Parsing gives IDs of their own (`Placed`) and
  dates in order (`Timed`); `ChatInv` says that the IDs of what is still to be
  played are free and below the bot's next (`IdsAreFree`), that the clock is
  behind every turn to come (`TimeIsAhead`), and that what an attempt saved for
  the one that continues it is where it ended (`SavedIsTrue`).

**Only model-checked** is liveness: `WaitingEnds`, `JobsAnswer`, `MonthsEnd`,
`DueIsDone`, `BatchesEnd` and `RequestsEnd` hold under fairness, which needs
`ENABLED`, and that is out of this prover's reach. So is induction over data: the
library's induction theorems take an operator parameter that none of the
installed provers can instantiate. Where a property depends on what a recursive
function computes, the function is one of numbers and the proof follows it to
its least counterexample; where it depends on a list put in order, to the rank
of an element. `RECURSIVE` operators are not used in modules with theorems or
below them. The properties of the two runs that expect a violation
(`NotReplacedInPart`, `RequestShowsItsTarget`) are false (section 5).

## 5. Where code and words disagree

Two runs show a disagreement between the code and what the repository says of it:

1. **Dates left without a summary** (`import_left_out`): the owner edits one
   of two summaries a new period overlaps, after `start` and before the periods
   are made. That period is left out, and the other old summary is replaced by
   its other period alone (service.py:742).
2. **A request without its target** (`reply_target_dropped`): the message a
   request replies to was in the recent window when the request was written
   (context.py:128) and is dropped to fit the budget; it is neither shown nor
   quoted.

What else was met while modelling. The modules follow the code in these steps,
and the properties are stated so that they hold (with the exception named), or
leave the matter out.

*Memory and imports:*

* after a deletion and a new text during one update, the revision starts at 1
  again and the update overwrites the owner's text (db/digests.py:74), although
  "their version wins" (keeper.py:232); the exception in `OwnersVersionWins`;
* a message stored behind one of a later date that was already read is never
  read (db/digests.py:111); `late` in `ReadsEachOnce`;
* an update that raises each time keeps the chats after it in `run_due`'s order
  from their turn (keeper.py:86-103); hence `PassesReachTheChat`;
* after an upgrade of the group during a raw stage the thread, which read the chat
  ID before (service.py:618), goes on storing under the old one; those messages
  appear beside the ones of another import, or not at all; `beside`;
* after a crash between the end of the last stage and `_complete`, a pause or an
  error of the recovered job falls on the raw stage again (service.py:449, 453:
  `_current_stage(...) or "raw"`), which hides the messages of an import that was
  as good as done; `reopened`. If the raw stage was not chosen, resuming fails
  each time with a `TypeError`, and the import pauses with the error;
* the flag of a cancellation outlives a job that pauses itself after an error,
  and acts on the resumed one (service.py:508-521);
* an import is done although a period failed, if the process dies between the
  two writes that mark the period and pause the import (service.py:688);
* after a group was published and one of its summaries deleted, `publish_group`
  calls the others missing although they are in use (db/history.py:319);
* `start` reads the export twice, and the second reading decides
  (service.py:397).

*Lab:*

* "a candidate was made after its results were read" (LAB.md:283-285) counts the
  page of a single attempt; the batch's page, comparisons, reports and exports
  show results too and mark nothing as read (lab/service.py:624). A set is called
  independent after them; `IndependentOfDetails` says what is left;
* replies of a comparison that waits are left out of reports and exports
  (LAB.md:395), but an answered or withdrawn comparison that has one of the same
  attempts names its configuration (preferences.py:166, 300); `ComparedBefore`
  in `BlindOrLogged`. Not in `told` are the agent's requests for a batch or an
  attempt and the page of a comparison with `?show=1`, which the owner asks for;
* confirming the same criteria again makes judgments stale
  (lab/service.py:699-737);
* a slot is lost when an attempt is cancelled before the first step of its task
  (lab/executor.py:97); `BatchesEnd` excepts it;
* a sandbox's reminder loop does not end when sending fails for the time being
  and the scenario's clock stands still (lab/sandbox.py:621, with 618).

*Replies and messages:*

* "runs in one chat happen one after another" (responder.py:3-5): the lock is the
  chat ID's, so that in a group just upgraded two runs may go on at once, one
  under each ID (responder.py:59, 83); the exception in `OneAtATime`;
* "nothing more may happen in the chat" once it is disabled (runner.py:231-232):
  `update_board` goes on with the calls that show the board and then sends a new
  message to mention who is asked (group.py:51-53, 95), without looking again;
  `NothingAfterDisabling` is about what begins;
* "the group sees it, so the run may end without an answer" (runner.py:214-216):
  a change of the board counts as done before it is shown (group.py:48), also
  when showing it failed (board.py:189, 211); the run then ends silently, and
  the one who asked sees neither board nor answer. So `NobodyIsIgnored` counts a
  change of the board as something done, not as something seen;
* deleted messages are still quoted as targets of replies (db/messages.py:199,
  agent/context.py:294 and 375); a row's ID may have been given again when the
  bot's deletion comes back from Telegram (own_messages.py:107);
* after SQLite has rolled back by itself, `transaction()` rolls back once more,
  which raises and hides the first error (database.py:76).

## 6. What is not modelled

The export parser (it transforms text and keeps no state), the lab's
command-line client, streaming of answers (not used in production), most of a
prompt's text, health, the files of media (deleted by age), sessions and pages
of the web admin, polls, `restore_from`, time zones. Of the components marked
"partly" in `PROJECT.json` the note says what is left out.

## 7. Running

In this directory, for instance:

    tlc -workers 2 -config MCModelQueue.cfg MCModelQueue
    tlapm ModelQueueProofs.tla

A run takes at most four minutes with two workers, a proof module a few, up to
ten if others run beside it.
