------------------------------ MODULE LabChoices -------------------------------
(***************************************************************************)
(* The owner's choices between real replies (naruto/lab/preferences.py,    *)
(* lab/export.py): comparisons of attempts of one situation, what is shown *)
(* of them before the owner has answered, and the choices and their        *)
(* corrections.                                                            *)
(*                                                                         *)
(* Showing is a step: `told` remembers the comparisons of which somebody   *)
(* was shown, while they waited, which configuration gave one of their     *)
(* replies: by a comparison, this one or another, or by what the report,   *)
(* the export and the owner's pages show of attempts.  (The attempt and    *)
(* batch requests of the agent that runs the lab show every reply with its *)
(* configuration, ReadAttempt and ReadOverview, and hide nothing; and the  *)
(* page of a hidden attempt shows it to the owner who asks.)               *)
(***************************************************************************)
EXTENDS LabEvidence

CONSTANTS AtATime,         \* interactive.comparisons_at_a_time
          MaxComparisons, MaxChoices   \* bounds

ASSUME ChoicesAssumption ==
    {AtATime, MaxComparisons} \subseteq Nat /\ MaxChoices \in Nat \ {0}

VARIABLES
    comparisons, \* lab_comparisons, by id, with their lab_choices
    told         \* no state of the code

choiceVars == <<comparisons, told>>
labVars == <<evidenceVars, choiceVars>>

\* Bound: two replies at a time, of the four there may be.
Labels == {"A", "B"}
Other == {"both_good", "skip"}   \* and the choices that name no reply

ChoicesInit == EvidenceInit /\ comparisons = << >> /\ told = {}

Comparisons == {c \in DOMAIN comparisons : comparisons[c].status # "deleted"}
Pending == {c \in Comparisons : comparisons[c].status = "pending"}
Mapped(c) == {comparisons[c].mapping[label] : label \in Labels}

\* hidden_attempts(): the replies that are kept out of reports and exports
\* Mutant: reply A only.
HiddenA == {comparisons[c].mapping["A"] : c \in Pending}
Hidden == UNION {Mapped(c) : c \in Pending}

\* Those of which it isn't hidden any more who gave which reply
Closed == Comparisons \ Pending

\* Replies are shown with their configurations.
Tell(replies) == told' = told \cup {c \in Pending : Mapped(c) \cap replies # {}}

\* What an attempt answered in each turn before the one compared
Before(i, turn) == [t \in 1 .. turn - 1 |-> attempts[i].result.answers[t]]

\* create(): what makes two replies comparable
Comparable(i, k, turn) ==
    /\ attempts[i].scenario = attempts[k].scenario
    /\ attempts[i].continues = attempts[k].continues
    /\ \A t \in 1 .. turn - 1 : attempts[i].result.answers[t] = attempts[k].result.answers[t]
    /\ attempts[i].result.model = attempts[k].result.model

\* create(): the server decides which is A; the situation presented is that of
\* the one that is A.
Create(i, k, turn) ==
    /\ runStatus = "active" /\ Len(comparisons) < MaxComparisons
    /\ i # k /\ {i, k} \subseteq Done
    /\ turn <= Len(attempts[i].result.answers) /\ turn <= Len(attempts[k].result.answers)
    /\ Comparable(i, k, turn)
    /\ Cardinality(Pending) < AtATime
    /\ {i, k} \cap Hidden = {}
    /\ comparisons' = Append(comparisons,
          [mapping |-> [A |-> i, B |-> k], turn |-> turn, status |-> "pending",
           revealed |-> FALSE, choices |-> << >>,
           situation |-> <<attempts[i].ran, attempts[i].continues, Before(i, turn)>>])
    /\ UNCHANGED <<evidenceVars, told>>

\* view(): who gave which reply once it doesn't wait any more, or when asked,
\* which is recorded.
RevealedNow(revealed, reveal) == revealed \/ reveal
View(c, reveal) ==
    /\ c \in Comparisons
    /\ comparisons' = IF c \in Pending
                      THEN [comparisons EXCEPT ![c].revealed = RevealedNow(comparisons[c].revealed, reveal)]
                      ELSE comparisons
    /\ IF c \in Closed \/ reveal THEN Tell(Mapped(c)) ELSE UNCHANGED told
    /\ UNCHANGED evidenceVars

\* The report, the export and the run's page: the replies of the attempts that
\* are not hidden, and the comparisons that ended, as view() shows them.
ShowReplies ==
    /\ runStatus # "deleted"
    /\ Tell((Done \ Hidden) \cup UNION {Mapped(c) : c \in Closed})
    /\ UNCHANGED <<evidenceVars, comparisons>>

\* _check_choice()
Allowed(c) == Labels \cup Other

\* answer()
AnswerComparison(c, choice) ==
    /\ c \in Pending /\ choice \in Allowed(c)
    /\ comparisons' = [comparisons EXCEPT ![c].status = "answered",
                                          ![c].choices = Append(comparisons[c].choices, choice)]
    /\ UNCHANGED <<evidenceVars, told>>

\* correct(): a new choice that supersedes the last.
\* Mutant: in its place.
CorrectedInPlace(choices, choice) == <<choice>>
Corrected(choices, choice) == Append(choices, choice)
Correct(c, choice) ==
    /\ c \in Comparisons /\ comparisons[c].status = "answered" /\ choice \in Allowed(c)
    /\ Len(comparisons[c].choices) < MaxChoices
    /\ comparisons' = [comparisons EXCEPT ![c].choices = Corrected(comparisons[c].choices, choice)]
    /\ UNCHANGED <<evidenceVars, told>>

Withdraw(c) ==
    /\ c \in Pending
    /\ comparisons' = [comparisons EXCEPT ![c].status = "withdrawn"]
    /\ UNCHANGED <<evidenceVars, told>>

\* delete_scenario() takes the comparisons of its versions with it; their
\* choices stay, of no comparison.
ComparisonsOf(slug) == {c \in Comparisons : SlugOf(comparisons[c].mapping["A"]) = slug}
Without(gone, status) ==
    comparisons' = [c \in DOMAIN comparisons |->
                       IF c \in gone THEN [comparisons[c] EXCEPT !.status = status] ELSE comparisons[c]]

\* The steps of LabEvidence, and what they do to comparisons: stop_run()
\* withdraws those that wait, delete_run() deletes them all.
Evidence ==
    \/ EndRun /\ Without(Pending, "withdrawn") /\ UNCHANGED told
    \/ Cleanup /\ Without(Comparisons, "deleted") /\ UNCHANGED told
    \/ \E slug \in Slugs : /\ DropScenario(slug)
                           /\ Without(ComparisonsOf(slug), "deleted") /\ UNCHANGED told
    \/ /\ \/ Tick
          \/ \E slug \in Slugs, body \in Bodies : AddScenario(slug, body)
          \/ \E items \in SUBSET Slugs : AddSet(items)
          \/ \E add, remove \in SUBSET Slugs, reason \in BOOLEAN : ChangeSet(add, remove, reason)
          \/ MakeCandidate
          \/ \E slug \in Slugs, candidate \in {Baseline} \cup DOMAIN madeAt,
                previous \in {0} \cup DOMAIN attempts : SubmitAttempt(slug, candidate, previous)
          \/ \E i \in DOMAIN attempts, result \in Results : AttemptRuns(i, result)
          \/ \E i \in DOMAIN attempts : ReadAttempt(i)
          \/ \E A \in SUBSET Done : ReadOverview(A)
          \/ \E criteria \in Rubrics, reason \in BOOLEAN : SetRubric(criteria, reason)
          \/ \E i \in DOMAIN attempts, criterion \in Criteria : AddJudgment(i, criterion)
       /\ UNCHANGED choiceVars

Chooses ==
    \/ \E i, k \in DOMAIN attempts, turn \in 1 .. 2 : Create(i, k, turn)
    \/ \E c \in DOMAIN comparisons, reveal \in BOOLEAN : View(c, reveal)
    \/ ShowReplies
    \/ \E c \in DOMAIN comparisons, choice \in Labels \cup Other : AnswerComparison(c, choice) \/ Correct(c, choice)
    \/ \E c \in DOMAIN comparisons : Withdraw(c)

LabNext == Evidence \/ Chooses
LabSpec == ChoicesInit /\ [][LabNext]_labVars

-----------------------------------------------------------------------------
(* Properties *)

\* The row of a comparison, with the choices that name it.
ComparisonOK(c) ==
    /\ c.mapping \in [Labels -> DOMAIN attempts] /\ c.turn \in 1 .. 2
    /\ c.status \in {"pending", "answered", "withdrawn", "deleted"}
    /\ c.revealed \in BOOLEAN
    /\ c.choices \in Seq(Labels \cup Other) /\ Len(c.choices) <= MaxChoices

ChoicesTypeOK == EvidenceTypeOK /\ \A c \in DOMAIN comparisons : ComparisonOK(comparisons[c])

\* One of the replies was compared before, in a comparison that has ended.
ComparedBefore(c) ==
    \E d \in DOMAIN comparisons \ {c} :
        comparisons[d].status # "pending" /\ Mapped(d) \cap Mapped(c) # {}

\* The owner chooses without having been shown, while the comparison waited,
\* which configuration gave one of its replies, or the comparison says that it
\* was revealed: no other comparison that waits tells it, nor does a report, an
\* export or a page.  Except for replies that were compared before: the
\* comparison that has ended names their configurations, wherever it is shown,
\* and nothing records it (preferences.py:166, 300; LAB.md:395 and report.py:84
\* say that replies of a comparison that waits are left out).  And only an
\* answered comparison has choices.
BlindOrLogged ==
    \A c \in Comparisons :
        /\ c \in told => comparisons[c].revealed \/ ComparedBefore(c)
        /\ (comparisons[c].choices # << >>) = (comparisons[c].status = "answered")

\* The replies of a comparison answer the situation it shows: the same words
\* of the scenario, the same conversation, the same earlier turns and the same
\* model, for as long as it is there.
RepliesShareTheSituation ==
    \A c \in Comparisons : \A i \in Mapped(c) :
        /\ i \in Done
        /\ comparisons[c].situation =
              <<attempts[i].ran, attempts[i].continues, Before(i, comparisons[c].turn)>>

\* A report compares like with like and says only what the models differ in, by
\* the criteria agreed on.
ReportIsFair ==
    /\ ChoicesTypeOK /\ RowsAreOfOneSituation
    /\ DifferencesAreTheModels /\ CountedByTheRubric

\* The owner chooses blindly, as far as BlindOrLogged says, between answers to
\* the situation that is shown.
ChoicesAreFair == BlindOrLogged /\ RepliesShareTheSituation

\* What the owner chose is kept, corrections beside it, until the comparison
\* is deleted with its scenario or its run.
ChoicesAreKept ==
    [][\A c \in Comparisons : c \in Comparisons' =>
          /\ Len(comparisons[c].choices) <= Len(comparisons'[c].choices)
          /\ \A n \in DOMAIN comparisons[c].choices :
                comparisons'[c].choices[n] = comparisons[c].choices[n]
          /\ comparisons[c].status \in {"answered", "withdrawn"} =>
                comparisons'[c].status = comparisons[c].status]_labVars
=============================================================================
