--------------------------- MODULE HistoryPublish ---------------------------
(***************************************************************************)
(* How an import's new summaries take the place of older ones              *)
(* (naruto/db/history.py; ImportService._archive_stage, _create_periods,   *)
(* _publish_ready and _abandon).                                           *)
(*                                                                         *)
(* A new period that overlaps older summaries has its own summary staged.  *)
(* Periods that replace any of the same older summaries form a group, and  *)
(* a group is swapped in at once.  Meanwhile the owner edits, deletes and  *)
(* clears summaries on the History page, pauses, resumes and cancels.      *)
(*                                                                         *)
(* ImportJob models the task, its flags and its thread; here the raw       *)
(* stage, the wait for the history lock and the reading of the export are  *)
(* one state, "loading", and a pause or a cancellation takes effect when   *)
(* it is asked for.  Every period has readable messages.                   *)
(***************************************************************************)
EXTENDS Integers, FiniteSets, FiniteSetsExt

CONSTANTS PeriodCount,  \* the periods of the export that have messages
          NewSpan,      \* the dates of each
          Olds,         \* the summaries there were when the import started
          OldSpan,      \* the dates of each
          Crashes       \* the process may die

Periods == 1 .. PeriodCount

\* Active summaries don't overlap, and make_plan() refuses dates that cover
\* an older summary in part.
ASSUME SpansAssumption ==
    /\ PeriodCount \in Nat
    /\ IsFiniteSet(Olds)
    /\ \A p, q \in Periods : p # q => NewSpan[p] \cap NewSpan[q] = {}
    /\ \A o, u \in Olds : o # u => OldSpan[o] \cap OldSpan[u] = {}
    /\ \A o \in Olds : OldSpan[o] \subseteq UNION {NewSpan[p] : p \in Periods}
    /\ Crashes \in BOOLEAN

VARIABLES
    status,   \* imports.status: "running", "paused" or "over"
    archive,  \* imports.archive_status
    replaceEdited,  \* options: archive.replace_edited
    job,      \* the task: "none", "loading" or "summarizing"
    at,       \* the period it summarizes
    todo,     \* the rows it read when its loop began
    period,   \* history_periods, with the summary each period has
    old,      \* the older summaries: "active", "replaced" or "deleted"
    edited    \* those of them the owner edited

record == <<status, archive, replaceEdited>>
task == <<job, at, todo>>
vars == <<record, task, period, old, edited>>

(* summary: the digest whose period_id is this period's; linked: the       *)
(* period's digest_id is that of its latest digest, deleted or not.        *)
Row == [status : {"absent", "waiting", "running", "done", "reused", "failed",
                  "cancelled"},
        replaces : SUBSET Olds,
        summary : {"none", "staged", "active"},
        linked : BOOLEAN]

Absent == [status |-> "absent", replaces |-> {}, summary |-> "none", linked |-> FALSE]

Statuses == {"waiting", "running", "paused", "done", "cancelled"}
UNFINISHED_STAGES == {"waiting", "running", "paused"}

TypeOK ==
    /\ status \in {"running", "paused", "over"}
    /\ archive \in Statuses
    /\ replaceEdited \in BOOLEAN
    /\ job \in {"none", "loading", "summarizing"}
    /\ at \in 0 .. PeriodCount
    /\ todo \subseteq Periods
    /\ period \in [Periods -> Row]
    /\ old \in [Olds -> {"active", "replaced", "deleted"}]
    /\ edited \subseteq Olds

\* The older summary of exactly the period's dates.
Twins(p) == {o \in Olds : OldSpan[o] = NewSpan[p]}

\* start() refuses to replace an edited summary without permission; what the
\* owner edited before is edited here while the job is loading.
Init ==
    /\ status = "running"
    /\ archive = "waiting"
    /\ replaceEdited \in BOOLEAN
    /\ job = "loading"
    /\ at = 0
    /\ todo = {}
    /\ period = [p \in Periods |-> Absent]
    /\ old = [o \in Olds |-> "active"]
    /\ edited = {}

-----------------------------------------------------------------------------
(* Publishing: operators on the rows rs of history_periods and the older   *)
(* summaries os.                                                           *)

Candidates(rs) ==
    {p \in Periods : rs[p].replaces # {} /\ rs[p].status # "cancelled"}

Share(rs, p, q) == rs[p].replaces \cap rs[q].replaces # {}

GroupAlone(p, rs) == {p}

\* The candidates that replace any of the same summaries as p, those that
\* replace any of the same as they do, and so on.
Group(p, rs) ==
    LET candidates == Candidates(rs)
        Closed(S) == \A q \in S, r \in candidates \ S : ~Share(rs, q, r)
    IN  {q \in candidates :
            \A S \in SUBSET candidates : p \in S /\ Closed(S) => q \in S}

\* What the period's digest_id points to.
Found(r) == IF r.linked THEN r.summary ELSE "none"

ReplacedBy(G, rs, os) ==
    {o \in UNION {rs[p].replaces : p \in G} : os[o] = "active"}

KeepsEdited(G, rs, os) ==
    ~replaceEdited /\ ReplacedBy(G, rs, os) \cap edited # {}

\* publish_group(), what it does with the group G.
Outcome(G, rs, os) ==
    IF \E p \in G : rs[p].status # "done" THEN "not ready"
    ELSE IF \A p \in G : Found(rs[p]) = "active" THEN "already published"
    ELSE IF \E p \in G : Found(rs[p]) # "staged" THEN "incomplete"
    ELSE IF KeepsEdited(G, rs, os) THEN "kept edited"
    ELSE "published"

OutcomeFor(p, rs, os) ==
    IF p \in Candidates(rs) THEN Outcome(Group(p, rs), rs, os) ELSE "already published"

\* The rows once the groups of the periods H have been through it.
Publish(rs, os, H) ==
    [p \in Periods |->
        LET outcome == OutcomeFor(p, rs, os)
        IN  IF p \notin H THEN rs[p]
            ELSE CASE outcome = "published" -> [rs[p] EXCEPT !.summary = "active"]
                   [] outcome = "kept edited" ->
                         [rs[p] EXCEPT !.status = "cancelled", !.summary = "none",
                                       !.linked = FALSE]
                   [] outcome = "incomplete" /\ Found(rs[p]) # "staged" ->
                         [rs[p] EXCEPT !.status = "waiting", !.linked = FALSE]
                   [] OTHER -> rs[p]]

\* ... and the older summaries.
Swap(rs, os, H) ==
    LET published == {p \in H : OutcomeFor(p, rs, os) = "published"}
    IN  [o \in Olds |->
            IF \E p \in published : o \in ReplacedBy(Group(p, rs), rs, os)
            THEN "replaced" ELSE os[o]]

\* Whole groups: each is published in one transaction.  (Rows to be made
\* again are updated one by one.)
Whole(H, rs, os) ==
    \A p \in H : OutcomeFor(p, rs, os) # "incomplete" => Group(p, rs) \subseteq H

\* _publish_ready() returns more than 0.
SomeWait(rs, os) ==
    \E p \in Candidates(rs) : OutcomeFor(p, rs, os) \in {"not ready", "incomplete"}

-----------------------------------------------------------------------------
JobEnds == job' = "none" /\ at' = 0 /\ todo' = {}

Halted(rs) ==
    [p \in Periods |->
        IF rs[p].status = "running" THEN [rs[p] EXCEPT !.status = "waiting"] ELSE rs[p]]

\* The process dies with the rows rs and the older summaries os written, and
\* recover() puts back the periods that were running.
Dies(rs, os) ==
    /\ Crashes
    /\ JobEnds
    /\ period' = Halted(rs)
    /\ old' = os
    /\ UNCHANGED <<status, replaceEdited, edited>>

\* ... in _publish_ready(), after some of the groups.
DiesPublishing(rs, os) ==
    /\ archive' = "running"
    /\ \E H \in SUBSET Periods :
        /\ Whole(H, rs, os)
        /\ Dies(Publish(rs, os, H), Swap(rs, os, H))

PauseStage(rs, os) ==
    /\ archive' = "paused"
    /\ status' = "paused"
    /\ period' = Halted(rs)
    /\ old' = os
    /\ JobEnds
    /\ UNCHANGED <<replaceEdited, edited>>

\* The archive stage is done; the process may die before the import is.
Finish(rs, os) ==
    /\ archive' = "done"
    /\ \/ /\ status' = "over"
          /\ JobEnds
          /\ period' = rs
          /\ old' = os
          /\ UNCHANGED <<replaceEdited, edited>>
       \/ Dies(rs, os)

\* The loop goes on after the row p of the rows list (a row deleted since
\* raises, and the job pauses itself), or ends.
Proceed(rs, os, list, p) ==
    LET Upcoming == {q \in list : q > p /\ rs[q].status \in {"absent", "waiting", "running"}}
        next == Min(Upcoming)
    IN  \/ /\ Upcoming # {}
           /\ rs[next].status = "absent"
           /\ PauseStage(rs, os)
        \/ /\ Upcoming # {}
           /\ rs[next].status # "absent"
           /\ archive' = "running"
           /\ job' = "summarizing"
           /\ at' = next
           /\ todo' = list
           /\ period' = [rs EXCEPT ![next].status = "running"]
           /\ old' = os
           /\ UNCHANGED <<status, replaceEdited, edited>>
        \/ /\ Upcoming = {}
           /\ \E published \in {Publish(rs, os, Periods)}, swapped \in {Swap(rs, os, Periods)} :
                IF SomeWait(published, swapped)
                THEN PauseStage(published, swapped)
                ELSE Finish(published, swapped)
        \/ Upcoming = {} /\ DiesPublishing(rs, os)

-----------------------------------------------------------------------------
(* The job.                                                                *)

\* _create_periods(): the row of period p.  same: the periods with the
\* fingerprint of an older summary (none to regenerate).
Created(p, same) ==
    LET existing == {o \in Olds : old[o] = "active" /\ OldSpan[o] \cap NewSpan[p] # {}}
    IN  IF p \in same /\ existing \cap Twins(p) # {}
        THEN [Absent EXCEPT !.status = "reused"]
        ELSE IF existing \cap edited # {} /\ ~replaceEdited
        THEN [Absent EXCEPT !.status = "cancelled"]
        ELSE [Absent EXCEPT !.status = "waiting", !.replaces = existing]

\* The periods that may come out the same as before.
Repeatable == {p \in Periods : Twins(p) # {}}

Rows == {p \in Periods : period[p].status # "absent"}

\* The export is read.  The rows are added one by one, if there are none.
LoadEnds ==
    /\ job = "loading"
    /\ archive \in {"waiting", "running"}
    /\ IF Rows = {}
       THEN \E same \in SUBSET Repeatable :
                Proceed([p \in Periods |-> Created(p, same)], old, Periods, 0)
       ELSE Proceed(period, old, Rows, 0)

DiesCreating ==
    /\ job = "loading"
    /\ archive \in {"waiting", "running"}
    /\ Rows = {}
    /\ archive' = "running"
    /\ \E k \in Periods, same \in SUBSET Repeatable :
        Dies([p \in Periods |-> IF p <= k THEN Created(p, same) ELSE Absent], old)

\* A resumed import whose archive stage is over already.
CompleteOnly ==
    /\ job = "loading"
    /\ archive \in {"done", "cancelled"}
    /\ status' = "over"
    /\ JobEnds
    /\ UNCHANGED <<archive, replaceEdited, period, old, edited>>

CompletedActive(r) == [r EXCEPT !.status = "done", !.summary = "active", !.linked = TRUE]

\* complete_period(): a summary that was saved before is kept.
Completed(r) ==
    [r EXCEPT !.status = "done", !.linked = TRUE,
              !.summary = IF @ # "none" THEN @
                          ELSE IF r.replaces = {} THEN "active" ELSE "staged"]

\* The last part of the period is summarized.
PeriodEnds ==
    /\ job = "summarizing"
    /\ LET rs == [period EXCEPT ![at] = Completed(@)]
       IN  \/ \E published \in {Publish(rs, old, Periods)}, swapped \in {Swap(rs, old, Periods)} :
                Proceed(published, swapped, todo, at)
           \/ DiesPublishing(rs, old)

\* A part kept failing.
PeriodFails ==
    /\ job = "summarizing"
    /\ LET rs == [period EXCEPT ![at].status = "failed"]
       IN  PauseStage(rs, old) \/ (Dies(rs, old) /\ UNCHANGED archive)

\* The owner's pause, a request cancelled on the queue page, or an error.
Pause ==
    /\ job # "none"
    /\ archive \in UNFINISHED_STAGES
    /\ PauseStage(period, old)

Resume ==
    /\ status = "paused"
    /\ status' = "running"
    /\ archive' = IF archive = "paused" THEN "waiting" ELSE archive
    /\ period' = [p \in Periods |->
                    IF period[p].status = "failed"
                    THEN [period[p] EXCEPT !.status = "waiting"] ELSE period[p]]
    /\ job' = "loading"
    /\ UNCHANGED <<replaceEdited, at, todo, old, edited>>

Crash == Dies(period, old) /\ status = "running" /\ UNCHANGED archive

ResumeInterrupted ==
    /\ status = "running"
    /\ job = "none"
    /\ job' = "loading"
    /\ UNCHANGED <<record, at, todo, period, old, edited>>

\* _abandon(): the rows whose summary is staged, those summaries, and the
\* rest of the rows.
DropLinked(rs) ==
    [p \in Periods |->
        IF Found(rs[p]) = "staged"
        THEN [rs[p] EXCEPT !.status = "cancelled", !.linked = FALSE] ELSE rs[p]]

DropStaged(rs) ==
    [p \in Periods |->
        IF rs[p].summary = "staged" THEN [rs[p] EXCEPT !.summary = "none"] ELSE rs[p]]

CancelUnfinished(rs) ==
    [p \in Periods |->
        IF rs[p].status \in {"waiting", "running", "failed"}
        THEN [rs[p] EXCEPT !.status = "cancelled"] ELSE rs[p]]

\* The owner cancels the rest of the import, or its upload expires.
Cancel ==
    LET unlinked == DropLinked(period)
        dropped == DropStaged(unlinked)
        rest == CancelUnfinished(dropped)
    IN  /\ status \in {"running", "paused"}
        /\ archive' = IF archive \in UNFINISHED_STAGES THEN "cancelled" ELSE archive
        /\ \/ /\ status' = "over"
              /\ period' = rest
              /\ JobEnds
              /\ UNCHANGED <<replaceEdited, old, edited>>
           \/ \E rs \in {period, unlinked, dropped, rest} : Dies(rs, old)

-----------------------------------------------------------------------------
(* The owner, on the History page, until the import is over.               *)

\* Any summary may be edited, also a replaced one.
Edit(o) ==
    /\ status # "over"
    /\ old[o] # "deleted"
    /\ edited' = edited \cup {o}
    /\ UNCHANGED <<record, task, period, old>>

DeleteOld(o) ==
    /\ status # "over"
    /\ old[o] # "deleted"
    /\ old' = [old EXCEPT ![o] = "deleted"]
    /\ edited' = edited \ {o}
    /\ UNCHANGED <<record, task, period>>

DeleteNew(p) ==
    /\ status # "over"
    /\ period[p].summary # "none"
    /\ period' = [period EXCEPT ![p].summary = "none"]
    /\ UNCHANGED <<record, task, old, edited>>

\* delete_for_chat(): every summary, and the rows that are finished.
Clear ==
    /\ status # "over"
    /\ old' = [o \in Olds |-> "deleted"]
    /\ period' = [p \in Periods |->
                    IF period[p].status \in {"done", "reused", "failed", "cancelled"}
                    THEN Absent ELSE [period[p] EXCEPT !.summary = "none"]]
    /\ edited' = {}
    /\ UNCHANGED <<record, task>>

OwnerDeletes == Clear \/ (\E o \in Olds : DeleteOld(o)) \/ \E p \in Periods : DeleteNew(p)

Next ==
    \/ LoadEnds \/ DiesCreating \/ CompleteOnly
    \/ PeriodEnds \/ PeriodFails
    \/ Pause \/ Resume \/ Cancel
    \/ Crash \/ ResumeInterrupted
    \/ \E o \in Olds : Edit(o)
    \/ OwnerDeletes

Spec == Init /\ [][Next]_vars

-----------------------------------------------------------------------------
(* Properties.                                                             *)

\* Active summaries never overlap: no date has two (for_chat(), coverage()).
ActiveNeverOverlap ==
    \A p \in Periods, o \in Olds :
        period[p].summary = "active" /\ old[o] = "active" =>
            NewSpan[p] \cap OldSpan[o] = {}

\* An import that is done has no summary left waiting to replace others
\* (service.py:700-715).
DonePublishes ==
    archive = "done" => \A p \in Periods : period[p].summary # "staged"

\* Both, of what is of its kind.
HistorySound == TypeOK /\ ActiveNeverOverlap /\ DonePublishes

\* An older summary is replaced only in the step in which every period that
\* is to replace it has its own summary in use (publish_group()).
GroupsSwapWhole ==
    [][\A o \in Olds : old[o] = "active" /\ old'[o] = "replaced" =>
        \A p \in Periods : o \in period'[p].replaces =>
            period'[p].summary = "active"]_vars

\* A summary the owner edited, whenever that was, is not replaced without
\* permission (KEPT_EDITED).
EditsAreKept ==
    [][~replaceEdited =>
        \A o \in edited : old[o] = "active" => old'[o] # "replaced"]_vars

\* Older summaries are replaced as a whole, and never those the owner edited.
ReplacedAsAllowed == GroupsSwapWhole /\ EditsAreKept
=============================================================================
