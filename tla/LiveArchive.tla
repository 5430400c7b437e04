----------------------------- MODULE LiveArchive ------------------------------
(***************************************************************************)
(* The summaries of live chat (naruto/memory/history.py: HistoryWriter and *)
(* LiveArchiver, with db/history.py and the History page).                 *)
(*                                                                         *)
(* Once a month is over its messages are summarized in parts, and each     *)
(* part is saved with the summary so far.  Meanwhile members edit          *)
(* messages; the owner deletes messages and summaries, changes the         *)
(* settings, turns summaries off, cancels the request on the queue page;   *)
(* and the process restarts.                                               *)
(*                                                                         *)
(* One chat; its messages are numbered by date and each costs one unit of  *)
(* a request.  A summary is the lines it was made of, each with the        *)
(* settings of its request.  The time zone stays as it is.                 *)
(***************************************************************************)
EXTENDS Integers, FiniteSets, FiniteSetsExt, Sequences

CONSTANTS Months,       \* number of months
          FirstOf,      \* the first message of each month, and of the one after
          Unreadable,   \* messages without a text
          PerRequest,   \* the messages one request has room for
          ATTEMPTS_PER_PART,
          Generations,  \* the settings that shape a summary
          NoRoom,       \* those whose instructions leave no room for messages
          MaxActs,      \* bound: what others do
          MaxRefusals   \* bound: failing answers of the model

AllMonths == 1 .. Months
AllLines == 1 .. FirstOf[Months + 1] - 1
LinesOf(k) == FirstOf[k] .. FirstOf[k + 1] - 1

ASSUME ArchiveAssumption ==
    /\ {Months, PerRequest, ATTEMPTS_PER_PART} \subseteq Nat \ {0}
    /\ FirstOf \in [1 .. Months + 1 -> Nat \ {0}]
    /\ \A j, k \in 1 .. Months + 1 : j <= k => FirstOf[j] <= FirstOf[k]
    /\ Generations \subseteq Nat /\ Generations # {} /\ NoRoom \subseteq Generations /\ {MaxActs, MaxRefusals} \subseteq Nat

VARIABLES
    stored,      \* messages: "none" (not yet, or deleted) or the text's version
    monthsOver,  \* how many months are over
    since,       \* chats.recording_since: a message's date, or NoDate
    wanted,      \* the chat is enabled and history.live_archive is on
    settings,    \* the generation of the settings
    periods,     \* history_periods of the chat's live months
    summaries,   \* history_digests
    writer,      \* the archiver: "idle", "asking" the model, "sleeping" before it asks again
    work,        \* what it has in memory
    coolsOff,    \* _failed_at is recent
    lockTaken,   \* an import holds the chat's history lock
    failedTries, \* per month: how often the next part has failed
    archiveActs, refusals

counters == <<archiveActs, refusals>>
outside == <<monthsOver, wanted, settings, lockTaken>>
archiveVars == <<stored, since, outside, periods, summaries, writer, work, coolsOff,
                 failedTries, counters>>

NoDate == 0
NoPeriod == [status |-> "absent"]
NoSummary == [status |-> "absent"]
NoWork == [month |-> 0]

Period == [status : {"waiting", "running", "done", "failed"}, start : AllLines,
           count : 0 .. Cardinality(AllLines), partial : Seq(AllLines \X {"first", "edited"} \X Generations),
           settings_hash : Generations \cup {NoDate}, attempts : 0 .. ATTEMPTS_PER_PART]

ArchiveTypeOK ==
    /\ stored \in [AllLines -> {"none", "first", "edited"}]
    /\ monthsOver \in 0 .. Months /\ since \in AllLines \cup {NoDate}
    /\ wanted \in BOOLEAN /\ coolsOff \in BOOLEAN /\ lockTaken \in BOOLEAN
    /\ settings \in Generations
    /\ \A k \in AllMonths : periods[k] = NoPeriod \/ periods[k] \in Period
    /\ writer \in {"idle", "asking", "sleeping"}
    /\ archiveActs \in 0 .. MaxActs /\ refusals \in 0 .. MaxRefusals

ArchiveInit ==
    /\ stored = [m \in AllLines |-> "none"]
    /\ monthsOver = 0 /\ since = NoDate /\ wanted = TRUE /\ settings = Min(Generations)
    /\ periods = [k \in AllMonths |-> NoPeriod] /\ summaries = [k \in AllMonths |-> NoSummary]
    /\ writer = "idle" /\ work = NoWork /\ coolsOff = FALSE /\ lockTaken = FALSE
    /\ failedTries = [k \in AllMonths |-> 0] /\ archiveActs = 0 /\ refusals = 0

Acts == archiveActs < MaxActs /\ archiveActs' = archiveActs + 1 /\ UNCHANGED refusals

-----------------------------------------------------------------------------
(* What is due *)

HasPeriod(k) == periods[k] # NoPeriod
StoredOf(k, start) == {m \in LinesOf(k) : m >= start /\ stored[m] # "none"}
StartOf(k) == Max({FirstOf[k], since})

\* A month without a period whose live messages can be summarized
Untouched(k) == k <= monthsOver /\ ~HasPeriod(k) /\ StoredOf(k, StartOf(k)) # {}

Unfinished == {k \in AllMonths : HasPeriod(k) /\ periods[k].status \in {"waiting", "running"}}

IsDue(k) == Untouched(k) \/ k \in Unfinished

\* due_month(): unfinished work first
\* Mutant: only months nothing was begun for.
NeverBegun == {k \in AllMonths : Untouched(k)}
DueMonths == IF Unfinished # {} THEN Unfinished ELSE {k \in AllMonths : Untouched(k)}

\* StoredSource.between(): in the order of their dates
ByDate(ms) ==
    CHOOSE s \in [1 .. Cardinality(ms) -> ms] : \A i, j \in DOMAIN s : i < j => s[i] < s[j]
\* Those with a body, as they are now
Readable(ms) ==
    LET readable == ByDate(ms \ Unreadable)
    IN  [i \in DOMAIN readable |-> <<readable[i], stored[readable[i]]>>]

\* source_hash(): the lines themselves
SourceHash(read) == [i \in DOMAIN read |-> <<read[i][1], read[i][2]>>]

-----------------------------------------------------------------------------
(* The writer *)

SetPeriod(k, row) == periods' = [periods EXCEPT ![k] = row]

Waiting(row) == [row EXCEPT !.status = "waiting"]
FailedRow(row) == [row EXCEPT !.status = "failed"]
StartedOver(row) == [row EXCEPT !.partial = << >>, !.attempts = 0, !.settings_hash = NoDate]

Rests == writer' = "idle" /\ work' = NoWork

\* should_stop(), or the request was cancelled: later
Stops(k, row) == SetPeriod(k, Waiting(row)) /\ Rests /\ UNCHANGED summaries

\* HistoryFailed: the owner has to retry it
GivesUp(k, row) ==
    /\ SetPeriod(k, FailedRow(row)) /\ Rests /\ coolsOff' = TRUE /\ UNCHANGED summaries

\* complete_period() in one transaction; gone: messages were deleted before
Completes(k, row, gone) ==
    /\ SetPeriod(k, [row EXCEPT !.status = "done", !.partial = << >>])
    /\ summaries' = [summaries EXCEPT ![k] = [status |-> "active", of |-> row.partial,
                                              noted |-> gone]]
    /\ Rests /\ coolsOff' = FALSE

\* build_prompt(), for all attempts of a part
Prompted(w) == [w EXCEPT !.asked = settings]

\* _summarize(): the next attempt of the next part, after a wait unless it is
\* the first, while there are any
Asks(k, row, w) ==
    IF w.failures < ATTEMPTS_PER_PART
    THEN /\ SetPeriod(k, row) /\ work' = Prompted(w)
         /\ writer' = IF w.failures = 0 THEN "asking" ELSE "sleeping"
         /\ UNCHANGED <<summaries, coolsOff>>
    ELSE GivesUp(k, row)

Rest(row, w) == SubSeq(w.lines, Len(row.partial) + 1, Len(w.lines))

\* The loop over the parts, before the next of them
GoesOn(k, row, w) ==
    CASE ~wanted -> Stops(k, row) /\ UNCHANGED coolsOff
      [] wanted /\ Rest(row, w) = << >> -> Completes(k, row, w.gone)
      [] OTHER -> Asks(k, row, w)

\* process(): an unfinished summary is continued if the settings and the
\* lines read so far are the same.
\* Mutant: it always is.
ContinuesAnyway(row, lines) == row
Checked(row, lines) ==
    LET read == row.partial
        same == /\ row.settings_hash = settings /\ Len(read) <= Len(lines)
                /\ SourceHash(read) = SubSeq(lines, 1, Len(read))
    IN  IF read = << >> \/ same THEN row ELSE StartedOver(row)

\* The attempts are kept across restarts.
Attempts(row) == row.attempts

\* ... up to the first request, or the end
Process(k, row) ==
    LET all == StoredOf(k, row.start)
        lines == Readable(all)
        checked == [Checked(row, lines) EXCEPT !.status = "running"]
        w == [month |-> k, lines |-> lines, gone |-> Cardinality(all) < row.count,
              settings |-> settings, asked |-> settings, failures |-> Attempts(checked)]
    IN  /\ failedTries' = IF checked.partial = row.partial THEN failedTries
                          ELSE [failedTries EXCEPT ![k] = 0]
        /\ CASE lines = << >> ->
                    /\ SetPeriod(k, [checked EXCEPT !.status = "done"]) /\ Rests
                    /\ coolsOff' = FALSE /\ UNCHANGED summaries
             [] lines # << >> /\ settings \in NoRoom -> GivesUp(k, checked)
             [] OTHER -> GoesOn(k, checked, w)

NewPeriod(k) ==
    [status |-> "waiting", start |-> StartOf(k), count |-> Cardinality(StoredOf(k, StartOf(k))),
     partial |-> << >>, settings_hash |-> NoDate, attempts |-> 0]

\* run_due(), for this chat; archive() holds its lock until it ends.
Round ==
    /\ writer = "idle" /\ wanted /\ ~coolsOff /\ ~lockTaken /\ DueMonths # {}
    /\ LET k == Min(DueMonths)
       IN  Process(k, IF HasPeriod(k) THEN periods[k] ELSE NewPeriod(k))
    /\ UNCHANGED <<stored, since, outside, counters>>

\* The wait before the next attempt is over.
Slept ==
    /\ writer = "sleeping" /\ writer' = "asking"
    /\ UNCHANGED <<stored, since, outside, periods, summaries, work, coolsOff, failedTries,
                   counters>>

\* The model's summary of the part, made with the settings of its prompt.
\* checkpoint() saves it under those the work began with.
Answers ==
    /\ writer = "asking"
    /\ LET k == work.month
           rest == Rest(periods[k], work)
           part == SubSeq(rest, 1, Min({PerRequest, Len(rest)}))
           made == [i \in DOMAIN part |-> <<part[i][1], part[i][2], work.asked>>]
           row == [periods[k] EXCEPT !.partial = periods[k].partial \o made, !.attempts = 0,
                                     !.settings_hash = work.settings]
           w == [work EXCEPT !.failures = 0]
       IN  CASE ~wanted -> Stops(k, row) /\ UNCHANGED coolsOff
             [] wanted /\ Rest(row, w) = << >> -> Completes(k, row, w.gone)
             [] OTHER -> SetPeriod(k, row) /\ work' = Prompted(w) /\ UNCHANGED <<writer, summaries, coolsOff>>
    /\ failedTries' = [failedTries EXCEPT ![work.month] = 0]
    /\ UNCHANGED <<stored, since, outside, counters>>

\* No answer, none that is a summary, or one that was cut short
Refuses ==
    /\ writer = "asking" /\ refusals < MaxRefusals /\ refusals' = refusals + 1
    /\ LET k == work.month
           row == [periods[k] EXCEPT !.attempts = work.failures + 1]
       IN  /\ failedTries' = [failedTries EXCEPT ![k] = @ + 1]
           /\ IF work.failures + 1 < ATTEMPTS_PER_PART
              THEN /\ SetPeriod(k, row) /\ writer' = "sleeping"
                   /\ work' = [work EXCEPT !.failures = @ + 1] /\ UNCHANGED <<summaries, coolsOff>>
              ELSE GivesUp(k, row)
    /\ UNCHANGED <<stored, since, outside, archiveActs>>

\* The owner cancels the request on the queue page.
CancelledInQueue ==
    /\ writer = "asking" /\ Acts
    /\ Stops(work.month, periods[work.month]) /\ coolsOff' = TRUE
    /\ UNCHANGED <<stored, since, outside, failedTries>>

\* The queue has no room for it (REFUSED_BUSY).
QueueFull ==
    /\ writer = "asking" /\ Acts
    /\ GivesUp(work.month, periods[work.month]) /\ UNCHANGED failedTries
    /\ UNCHANGED <<stored, since, outside>>

\* RETRY_AFTER_SECONDS later
CoolsOff ==
    /\ coolsOff /\ coolsOff' = FALSE
    /\ UNCHANGED <<stored, since, outside, periods, summaries, writer, work, failedTries, counters>>

-----------------------------------------------------------------------------
(* The others *)

\* A month passes; its messages were stored as they came.
MonthPasses ==
    /\ monthsOver < Months /\ monthsOver' = monthsOver + 1
    /\ stored' = [m \in AllLines |-> IF m \in LinesOf(monthsOver + 1) THEN "first" ELSE stored[m]]
    /\ UNCHANGED <<since, wanted, settings, lockTaken, periods, summaries, writer, work, coolsOff,
                   failedTries, counters>>

EditMessage(m) ==
    /\ stored[m] = "first" /\ Acts
    /\ stored' = [stored EXCEPT ![m] = "edited"]
    /\ UNCHANGED <<since, outside, periods, summaries, writer, work, coolsOff, failedTries>>

\* note_deleted_messages(): the summaries of those dates say so.
Noted(before) ==
    [k \in AllMonths |-> IF summaries[k] # NoSummary /\ periods[k].start < before
                         THEN [summaries[k] EXCEPT !.noted = TRUE] ELSE summaries[k]]

\* The owner deletes the messages before a date: refused while the lock is
\* held.
DeletesBefore(before) ==
    /\ writer = "idle" /\ ~lockTaken /\ Acts
    /\ \E m \in AllLines : m < before /\ stored[m] # "none"
    /\ stored' = [m \in AllLines |-> IF m < before THEN "none" ELSE stored[m]]
    /\ summaries' = Noted(before)
    /\ UNCHANGED <<since, outside, periods, writer, work, coolsOff, failedTries>>

DeletesSummary(k) ==
    /\ summaries[k] # NoSummary /\ Acts
    /\ summaries' = [summaries EXCEPT ![k] = NoSummary]
    /\ UNCHANGED <<stored, since, outside, periods, writer, work, coolsOff, failedTries>>

\* delete_for_chat(): the periods of live months stay.
ClearsSummaries ==
    /\ Acts /\ \E k \in AllMonths : summaries[k] # NoSummary
    /\ summaries' = [k \in AllMonths |-> NoSummary]
    /\ UNCHANGED <<stored, since, outside, periods, writer, work, coolsOff, failedTries>>

\* retry_live_month()
Retries(k) ==
    /\ HasPeriod(k) /\ periods[k].status = "failed" /\ Acts
    /\ SetPeriod(k, [Waiting(periods[k]) EXCEPT !.attempts = 0])
    /\ failedTries' = [failedTries EXCEPT ![k] = 0]
    /\ coolsOff' = FALSE
    /\ UNCHANGED <<stored, since, outside, summaries, writer, work>>

SetsSince(date) ==
    /\ date # since /\ Acts /\ since' = date
    /\ UNCHANGED <<stored, outside, periods, summaries, writer, work, coolsOff, failedTries>>

\* The chat's status, the switch, or the settings that shape a summary
Changes ==
    /\ Acts
    /\ \/ wanted' = ~wanted /\ UNCHANGED settings
       \/ settings' \in Generations \ {settings} /\ UNCHANGED wanted
    /\ UNCHANGED <<stored, since, monthsOver, lockTaken, periods, summaries, writer, work, coolsOff,
                   failedTries>>

\* An import takes the lock when it is free, and gives it back.
ImportLocks ==
    /\ writer = "idle" /\ ~lockTaken /\ Acts /\ lockTaken' = TRUE
    /\ UNCHANGED <<stored, since, monthsOver, wanted, settings, periods, summaries, writer, work,
                   coolsOff, failedTries>>
ImportUnlocks ==
    /\ lockTaken /\ lockTaken' = FALSE
    /\ UNCHANGED <<stored, since, monthsOver, wanted, settings, periods, summaries, writer, work,
                   coolsOff, failedTries, counters>>

\* The process dies, and starts again.
Restarts ==
    /\ Acts /\ Rests /\ coolsOff' = FALSE /\ lockTaken' = FALSE
    /\ UNCHANGED <<stored, since, monthsOver, wanted, settings, periods, summaries, failedTries>>

\* ... between the last failed attempt and the end of the month's work
DiesGivingUp ==
    /\ writer = "asking" /\ work.failures + 1 = ATTEMPTS_PER_PART
    /\ refusals < MaxRefusals /\ Acts
    /\ SetPeriod(work.month, [periods[work.month] EXCEPT !.attempts = ATTEMPTS_PER_PART])
    /\ failedTries' = [failedTries EXCEPT ![work.month] = @ + 1]
    /\ Rests /\ coolsOff' = FALSE /\ UNCHANGED <<stored, since, outside, summaries>>

Owner ==
    \/ \E m \in AllLines : EditMessage(m) \/ DeletesBefore(m + 1) \/ SetsSince(m)
    \/ \E k \in AllMonths : DeletesSummary(k) \/ Retries(k)
    \/ ClearsSummaries \/ Changes

ArchiveNext ==
    \/ Round \/ Slept \/ Answers \/ Refuses \/ CancelledInQueue \/ QueueFull \/ CoolsOff
    \/ MonthPasses \/ Owner \/ ImportLocks \/ ImportUnlocks \/ Restarts \/ DiesGivingUp

\* Something goes on while it can: the archiver comes round, the model answers,
\* time passes, an import ends.
GoesOnWorking == Round \/ Slept \/ Answers \/ Refuses \/ CoolsOff \/ ImportUnlocks
ArchiveFairness == WF_archiveVars(GoesOnWorking)

ArchiveSpec == ArchiveInit /\ [][ArchiveNext]_archiveVars /\ ArchiveFairness

-----------------------------------------------------------------------------
(* Properties *)

\* The lines the work on the month k has read, or reads now
LinesRead(k) == IF writer = "idle" THEN Readable(StoredOf(k, periods[k].start)) ELSE work.lines

\* A new summary is of every readable message its work began with, in order,
\* once, as it was then: whatever was read before a restart is checked again
\* (process()).
SummariesAreWhole ==
    [][\A k \in AllMonths : summaries[k] = NoSummary /\ summaries'[k] # NoSummary =>
            SourceHash(summaries'[k].of) = LinesRead(k)]_archiveVars

\* A summary says so when messages it was made of have been deleted
\* (note_deleted_messages(), live_limitations()).
GoneIsSaid ==
    \A k \in AllMonths : summaries[k] # NoSummary /\ ~summaries[k].noted =>
        \A i \in DOMAIN summaries[k].of : stored[summaries[k].of[i][1]] # "none"

\* A month that is done is not summarized again, also not when the owner
\* deletes its summary (delete_for_chat()).
DoneForGood ==
    [][\A k \in AllMonths : HasPeriod(k) /\ periods[k].status = "done" =>
            /\ periods'[k] # NoPeriod /\ periods'[k].status = "done"
            /\ summaries[k] = NoSummary => summaries'[k] = NoSummary]_archiveVars

\* A part is asked for at most ATTEMPTS_PER_PART times, restarts included,
\* unless the owner retries it.
TriesAreCounted == \A k \in AllMonths : failedTries[k] <= ATTEMPTS_PER_PART

\* A summary of live chat is made once, of everything its work began with,
\* and tells of deleted messages; no part was asked for too often.
MadeOnceAndWhole ==
    /\ SummariesAreWhole /\ DoneForGood
    /\ [](ArchiveTypeOK /\ GoneIsSaid /\ TriesAreCounted)

\* While summaries are wanted, the archiver catches up again and again: no
\* month stays due, it is done, or fails where the owner sees it.
MonthsEnd == []<>(~wanted \/ \A k \in AllMonths : ~IsDue(k))
=============================================================================
