------------------------------ MODULE LabEvidence ------------------------------
(***************************************************************************)
(* What a run of the prompt lab knows (naruto/lab/service.py, report.py,   *)
(* db/lab.py, web/lab_api.py): scenarios and their versions, a validation  *)
(* set, the results of attempts, the rubric and the judgments under it,    *)
(* and what the report makes of them.                                      *)
(*                                                                         *)
(* Every request is one step.  A scenario's body is a name; an attempt     *)
(* answers each turn of it with a reply, and its outcome is the model's    *)
(* (pass, fail) or nobody's (error).  How attempts get to run is in        *)
(* LabBatches, how one comes to its outcome in LabSandbox.                 *)
(***************************************************************************)
EXTENDS Integers, Sequences, FiniteSets, FiniteSetsExt

CONSTANTS Slugs, Bodies,
          Results,        \* what an attempt may come to
          Rubrics,        \* sets of criteria
          ReuseLimit,     \* VALIDATION_REUSE_LIMIT
          MaxScenarios, MaxAttempts, MaxMade, MaxRubrics, MaxTime  \* bounds

Outcomes == {"pass", "fail", "error"}
Criteria == UNION Rubrics

ASSUME EvidenceAssumption ==
    /\ \A r \in Results : r.outcome \in Outcomes
    /\ ReuseLimit \in Nat
    /\ {MaxScenarios, MaxAttempts, MaxMade, MaxRubrics, MaxTime} \subseteq Nat

NoTime == -1
Baseline == 0

\* The rows, as far as they matter here.  The body of a scenario is a name, and
\* of a candidate only its time is told apart.
RunStatus == {"active", "finished", "deleted"}
Scenario == [there : BOOLEAN, slug : Slugs, body : Bodies, version : Nat \ {0}]
ScenarioSet == [made : BOOLEAN, items : SUBSET Slugs, moved : BOOLEAN]
CandidateTime == 0 .. MaxTime
Judgment == [attempt : Nat \ {0}, criterion : Criteria, version : Nat \ {0}]

VARIABLES
    runStatus,   \* lab_runs.status; "deleted" when it was cleaned up
    now,         \* seconds
    scenarios,   \* lab_scenarios, by id
    validation,  \* a set with that purpose: its items, and whether some were removed
    madeAt,      \* lab_candidates.created_at, by number
    attempts,    \* lab_attempts, by id
    rubrics,     \* lab_rubrics, by version
    judgments,   \* lab_judgments
    readAt       \* when results of a scenario were first read, and how (no state of the code)

evidenceVars == <<runStatus, now, scenarios, validation, madeAt, attempts, rubrics, judgments, readAt>>

EvidenceInit ==
    /\ runStatus = "active" /\ now = 0
    /\ scenarios = << >> /\ attempts = << >> /\ madeAt = << >> /\ rubrics = << >>
    /\ validation = [made |-> FALSE, items |-> {}, moved |-> FALSE]
    /\ judgments = {}
    /\ readAt = [detail |-> [s \in Slugs |-> NoTime], overview |-> [s \in Slugs |-> NoTime]]

\* The rows there are.
ScenarioIds == {i \in DOMAIN scenarios : scenarios[i].there}
AttemptIds == {i \in DOMAIN attempts : attempts[i].status # "deleted"}
Done == {i \in AttemptIds : attempts[i].status = "done"}
SlugOf(i) == scenarios[attempts[i].scenario].slug

Tick ==
    /\ now < MaxTime /\ now' = now + 1
    /\ UNCHANGED <<runStatus, scenarios, validation, madeAt, attempts, rubrics, judgments, readAt>>

-----------------------------------------------------------------------------
(* Scenarios and sets *)

VersionsOf(slug) == {i \in ScenarioIds : scenarios[i].slug = slug}
\* latest_scenario()
Latest(slug) == CHOOSE i \in VersionsOf(slug) :
                    \A j \in VersionsOf(slug) : scenarios[j].version <= scenarios[i].version

\* add_scenario() of the repository: one more than there is.
NextVersion(slug) == Max({0} \cup {scenarios[i].version : i \in VersionsOf(slug)}) + 1

\* add_scenario(): the same body again is nothing new, and another body for a
\* known slug needs a reason.
AddScenario(slug, body) ==
    /\ Len(scenarios) < MaxScenarios
    /\ VersionsOf(slug) # {} => scenarios[Latest(slug)].body # body
    /\ scenarios' = Append(scenarios, [there |-> TRUE, slug |-> slug, body |-> body,
                                       version |-> NextVersion(slug)])
    /\ UNCHANGED <<runStatus, now, validation, madeAt, attempts, rubrics, judgments, readAt>>

\* What is left of a deleted row: that it was there.
Gone(attempt) == [attempt EXCEPT !.status = "deleted", !.viewed = NoTime, !.result = "none", !.ran = "none"]

\* delete_scenario(): with every attempt that ran it, and their judgments.
Ran(slug) == {i \in AttemptIds : SlugOf(i) = slug}
DropScenario(slug) ==
    /\ runStatus # "deleted" /\ VersionsOf(slug) # {}
    /\ scenarios' = [i \in DOMAIN scenarios |->
                        IF i \in VersionsOf(slug) THEN [scenarios[i] EXCEPT !.there = FALSE]
                        ELSE scenarios[i]]
    /\ attempts' = [i \in DOMAIN attempts |->
                       IF i \in Ran(slug) THEN Gone(attempts[i]) ELSE attempts[i]]
    /\ judgments' = {j \in judgments : j.attempt \notin Ran(slug)}
    /\ validation' = [validation EXCEPT !.items = @ \ {slug}]
    /\ readAt' = [readAt EXCEPT !.detail[slug] = NoTime, !.overview[slug] = NoTime]
    /\ UNCHANGED <<runStatus, now, madeAt, rubrics>>

\* add_set(): a validation set, of scenarios that are there.
AddSet(items) ==
    /\ runStatus = "active" /\ ~validation.made
    /\ \A s \in items : VersionsOf(s) # {}
    /\ validation' = [made |-> TRUE, items |-> items, moved |-> FALSE]
    /\ UNCHANGED <<runStatus, now, scenarios, madeAt, attempts, rubrics, judgments, readAt>>

\* change_set(): first what is added, then what is removed; a removal without
\* a reason is refused when the additions are made.
ChangeSet(add, remove, reason) ==
    /\ runStatus = "active" /\ validation.made
    /\ \A s \in add : VersionsOf(s) # {}
    /\ LET items == validation.items \cup add
       IN  validation' = IF reason
                         THEN [made |-> TRUE, items |-> items \ remove,
                               moved |-> validation.moved \/ items \cap remove # {}]
                         ELSE [validation EXCEPT !.items = items]
    /\ UNCHANGED <<runStatus, now, scenarios, madeAt, attempts, rubrics, judgments, readAt>>

-----------------------------------------------------------------------------
(* Attempts *)

MakeCandidate ==
    /\ runStatus = "active" /\ Len(madeAt) < MaxMade
    /\ madeAt' = Append(madeAt, now)
    /\ UNCHANGED <<runStatus, now, scenarios, validation, attempts, rubrics, judgments, readAt>>

\* submit(): an attempt of a scenario's latest version, with a configuration,
\* on its own or after an attempt that is done.
SubmitAttempt(slug, candidate, previous) ==
    /\ runStatus = "active" /\ Len(attempts) < MaxAttempts
    /\ VersionsOf(slug) # {}
    /\ previous # 0 => previous \in Done
    /\ attempts' = Append(attempts,
          [scenario |-> Latest(slug), candidate |-> candidate, continues |-> previous,
           status |-> "queued", viewed |-> NoTime, result |-> "none", ran |-> "none"])
    /\ UNCHANGED <<runStatus, now, scenarios, validation, madeAt, rubrics, judgments, readAt>>

\* _attempt_task(): it runs the body its row names.  `ran` says which it was.
AttemptRuns(i, result) ==
    /\ i \in AttemptIds /\ attempts[i].status = "queued" /\ runStatus = "active"
    /\ attempts' = [attempts EXCEPT ![i].status = "done", ![i].result = result,
                                    ![i].ran = scenarios[attempts[i].scenario].body]
    /\ UNCHANGED <<runStatus, now, scenarios, validation, madeAt, rubrics, judgments, readAt>>

\* The first time results on each scenario were read, after a reading now.
FirstRead(times, slugs) ==
    [s \in Slugs |-> IF s \in slugs /\ times[s] = NoTime THEN now ELSE times[s]]

\* attempt_detail(), mark_viewed(): the first reading of a result is kept.
\* Mutant: the last reading.
ViewedLast(viewed) == now
Viewed(viewed) == IF viewed = NoTime THEN now ELSE viewed
ReadAttempt(i) ==
    /\ i \in Done
    /\ attempts' = [attempts EXCEPT ![i].viewed = Viewed(attempts[i].viewed)]
    /\ readAt' = [readAt EXCEPT !.detail = FirstRead(readAt.detail, {SlugOf(i)})]
    /\ UNCHANGED <<runStatus, now, scenarios, validation, madeAt, rubrics, judgments>>

\* batch_view(), compare(), the report, the export and the pages: the results
\* and answers of some of the attempts.  Nothing is recorded of it.
ReadOverview(A) ==
    /\ A # {} /\ A \subseteq Done
    /\ readAt' = [readAt EXCEPT !.overview = FirstRead(readAt.overview, {SlugOf(i) : i \in A})]
    /\ UNCHANGED <<runStatus, now, scenarios, validation, madeAt, attempts, rubrics, judgments>>

\* stop_run(), as far as it is about the evidence (finish_run() ends here too)
EndRun ==
    /\ runStatus = "active" /\ runStatus' = "finished"
    /\ attempts' = [i \in DOMAIN attempts |->
                       IF attempts[i].status = "queued" THEN [attempts[i] EXCEPT !.status = "cancelled"]
                       ELSE attempts[i]]
    /\ UNCHANGED <<now, scenarios, validation, madeAt, rubrics, judgments, readAt>>

\* cleanup(): delete_run(), all of it but the scenarios.
Cleanup ==
    /\ runStatus = "finished" /\ runStatus' = "deleted"
    /\ attempts' = [i \in DOMAIN attempts |-> Gone(attempts[i])]
    /\ judgments' = {} /\ rubrics' = << >> /\ madeAt' = << >>
    /\ validation' = [made |-> FALSE, items |-> {}, moved |-> FALSE]
    /\ UNCHANGED <<now, scenarios, readAt>>

-----------------------------------------------------------------------------
(* Judging *)

\* set_rubric(): other criteria need a reason once there are judgments.
SetRubric(criteria, reason) ==
    /\ runStatus = "active" /\ Len(rubrics) < MaxRubrics
    /\ (rubrics # << >> /\ rubrics[Len(rubrics)] # criteria /\ judgments # {}) => reason
    /\ rubrics' = Append(rubrics, criteria)
    /\ UNCHANGED <<runStatus, now, scenarios, validation, madeAt, attempts, judgments, readAt>>

\* add_judgment(): of a turn that ran, by a criterion of the current rubric.
AddJudgment(i, criterion) ==
    /\ runStatus # "deleted" /\ i \in Done /\ rubrics # << >>
    /\ criterion \in rubrics[Len(rubrics)]
    /\ judgments' = judgments \cup {[attempt |-> i, criterion |-> criterion,
                                     version |-> Len(rubrics)]}
    /\ UNCHANGED <<runStatus, now, scenarios, validation, madeAt, attempts, rubrics, readAt>>

-----------------------------------------------------------------------------
(* The report *)

\* _judgment_summary(): those under an older version are stale.
Fresh == {j \in judgments : j.version >= Len(rubrics)}

\* _select(), and the key of a row of compare()
Situation(i) == <<SlugOf(i), scenarios[attempts[i].scenario].version, attempts[i].continues>>
Selected == {i \in AttemptIds : attempts[i].status \in {"done", "cancelled"}}
Rows(A) == {Situation(i) : i \in A}
Configurations(A) == {attempts[i].candidate : i \in A}
Reference(A) == IF Baseline \in Configurations(A) THEN Baseline ELSE Min(Configurations(A))

\* The attempts of a row and a configuration that were checked, and passed.
\* Mutant: an attempt that came to nothing counts as checked.
CheckedAny(A, row, config) ==
    {i \in A : Situation(i) = row /\ attempts[i].candidate = config}
Checked(A, row, config) ==
    {i \in A : /\ Situation(i) = row /\ attempts[i].candidate = config
               /\ attempts[i].status = "done" /\ attempts[i].result.outcome \in {"pass", "fail"}}
Passed(A, row, config) == {i \in Checked(A, row, config) :
                              attempts[i].status = "done" /\ attempts[i].result.outcome = "pass"}

\* compare(): a configuration's rate of passes against the reference's, where
\* both were checked
Worse(A, row, config, than) ==
    LET n == Cardinality(Checked(A, row, config))
        m == Cardinality(Checked(A, row, than))
    IN  /\ n > 0 /\ m > 0
        /\ Cardinality(Passed(A, row, config)) * m < Cardinality(Passed(A, row, than)) * n
Compared(A) == Rows(A) \X (Configurations(A) \ {Reference(A)})
Regressions(A) == {d \in Compared(A) : Worse(A, d[1], d[2], Reference(A))}
Improvements(A) == {d \in Compared(A) : Worse(A, d[1], Reference(A), d[2])}

\* validation_status(): whether the set is still independent evidence
OnValidation == {i \in Done : SlugOf(i) \in validation.items}
Seen == {attempts[i].viewed : i \in OnValidation} \ {NoTime}
MadeAfterSeen == {c \in DOMAIN madeAt : Seen # {} /\ madeAt[c] > Min(Seen)}
Independent ==
    /\ validation.made
    /\ Cardinality(Configurations(OnValidation) \ {Baseline}) <= ReuseLimit
    /\ MadeAfterSeen = {}
    /\ ~validation.moved

-----------------------------------------------------------------------------

EvidenceNext ==
    \/ Tick
    \/ \E slug \in Slugs, body \in Bodies : AddScenario(slug, body)
    \/ \E slug \in Slugs : DropScenario(slug)
    \/ \E items \in SUBSET Slugs : AddSet(items)
    \/ \E add, remove \in SUBSET Slugs, reason \in BOOLEAN : ChangeSet(add, remove, reason)
    \/ MakeCandidate
    \/ \E slug \in Slugs, candidate \in {Baseline} \cup DOMAIN madeAt,
          previous \in {0} \cup DOMAIN attempts : SubmitAttempt(slug, candidate, previous)
    \/ \E i \in DOMAIN attempts, result \in Results : AttemptRuns(i, result)
    \/ \E i \in DOMAIN attempts : ReadAttempt(i)
    \/ \E A \in SUBSET Done : ReadOverview(A)
    \/ EndRun
    \/ Cleanup
    \/ \E criteria \in Rubrics, reason \in BOOLEAN : SetRubric(criteria, reason)
    \/ \E i \in DOMAIN attempts, criterion \in Criteria : AddJudgment(i, criterion)

EvidenceSpec == EvidenceInit /\ [][EvidenceNext]_evidenceVars

-----------------------------------------------------------------------------
(* Properties *)

\* The row of an attempt: of a result only what the model came to.
AttemptOK(a) ==
    /\ a.scenario \in DOMAIN scenarios /\ a.continues \in 0 .. Len(attempts)
    /\ a.candidate \in Nat
    /\ a.status \in {"queued", "done", "cancelled", "deleted"}
    /\ a.viewed \in {NoTime} \cup 0 .. MaxTime
    /\ a.status = "done" => a.result \in Results /\ a.ran \in Bodies

EvidenceTypeOK ==
    /\ runStatus \in RunStatus
    /\ now \in 0 .. MaxTime
    /\ \A i \in DOMAIN scenarios : scenarios[i] \in Scenario
    /\ \A i \in DOMAIN attempts : AttemptOK(attempts[i])
    /\ validation \in ScenarioSet
    /\ \A c \in DOMAIN madeAt : madeAt[c] \in CandidateTime
    /\ \A j \in judgments : j \in Judgment /\ j.attempt \in DOMAIN attempts

\* The attempts that share a row of a comparison ran the same scenario, word
\* for word, after the same conversation, whatever was changed or deleted in
\* between; and no result or judgment outlives the scenario it is about.
RowsAreOfOneSituation ==
    /\ \A i, k \in Done : Situation(i) = Situation(k) =>
          attempts[i].ran = attempts[k].ran /\ attempts[i].continues = attempts[k].continues
    /\ \A i \in AttemptIds : attempts[i].scenario \in ScenarioIds
    /\ \A j \in judgments : j.attempt \in AttemptIds

\* A regression or an improvement is the model's: attempts that came to no
\* check, by an error or a cancellation, make none and hide none.
DifferencesAreTheModels ==
    LET decided == {i \in Done : attempts[i].result.outcome # "error"}
    IN  Configurations(decided) # {} /\ Reference(decided) = Reference(Selected) =>
            /\ Regressions(Selected) = Regressions(decided)
            /\ Improvements(Selected) = Improvements(decided)

\* How results on a scenario had been read before a candidate was made, in an
\* earlier second.
ReadBefore(candidate, slug) ==
    {way \in {"detail", "overview"} :
        readAt[way][slug] # NoTime /\ madeAt[candidate] > readAt[way][slug]}

\* A validation set that is called independent evidence was not tuned on with
\* the details of its attempts: whatever somebody had read of one of its
\* scenarios before a candidate was made was an overview (a batch, a comparison,
\* a report, an export, the pages), whenever the scenario came into the set and
\* whatever was changed since.  Overviews show answers and outcomes too, and a
\* set stays independent after them: LAB.md:283-285 promises more than this.
\* (Deleting a scenario deletes what was read of it, readAt as well.)
IndependentOfDetails ==
    Independent =>
        \A s \in validation.items, c \in DOMAIN madeAt : ReadBefore(c, s) \subseteq {"overview"}

\* A judgment that counts was made by the criteria that are agreed now.
CountedByTheRubric ==
    \A j \in Fresh : rubrics # << >> /\ j.criterion \in rubrics[Len(rubrics)]
=============================================================================
