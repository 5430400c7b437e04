---------------------------- MODULE MCImportJob ----------------------------
(* Small instances of ImportJob and ImportPlanning for TLC: one run of TLC  *)
(* checks both, each from its own initial states.                           *)
EXTENDS ImportJob, ImportPlanning, TLC

CONSTANTS i1, i2, d1, d2  \* model values

VARIABLE part   \* which of the two a behaviour is of, and of which imports
allVars == <<vars, planVars, part>>

NoBoundary == [recording |-> NoTime, firstLive |-> NoTime]
D(start, end, edited, grouping, content) ==
    [start |-> start, end |-> end, edited |-> edited, grouping |-> grouping, content |-> content]

\* Two months of four days each; weeks of three; a day has two moments.
MCExports == {{1, 5, 9, 14}, {3, 7}, {0, 4, 6, 10}, {12}}
MCBoundaries == {NoBoundary, [NoBoundary EXCEPT !.recording = 12],
                 [recording |-> 9, firstLive |-> 5], [recording |-> 7, firstLive |-> 10],
                 [NoBoundary EXCEPT !.firstLive = 8]}
MCHistories ==
    {{}, {D(2, 8, FALSE, "range", {7})}}
    \cup {{D(0, 8, e, "month", c)} : e \in BOOLEAN, c \in {{1, 5}, {3, 7}}}
    \cup {{D(0, 8, FALSE, "month", {1, 5}), D(8, 12, e, "month", {9})} : e \in BOOLEAN}
    \cup {{D(0, 6, FALSE, "week", {0, 4}), D(6, 12, e, "week", {6, 10})} : e \in BOOLEAN}
\* The raw messages and the summaries are planned apart: all the dates of one
\* with one choice of the other, and neither.
Never == <<NoDay, NoDay>>
RawDates == {Never, <<0, 7>>, <<2, 4>>}
ArchiveDates == {Never, <<0, 7>>, <<0, 3>>, <<1, 5>>, <<3, 1>>}
MCImportChoices ==
    {[raw |-> dates[1] # Never, rawFrom |-> dates[1][1], rawTo |-> dates[1][2],
      archive |-> dates[2] # Never, from |-> dates[2][1], to |-> dates[2][2], grouping |-> g,
      regenerate |-> x, replace |-> p[1], replaceEdited |-> p[2]] :
        dates \in (RawDates \X {<<0, 7>>}) \cup ({<<0, 7>>} \X ArchiveDates) \cup {<<Never, Never>>},
        g \in Groupings, x \in BOOLEAN,
        p \in {<<FALSE, FALSE>>, <<TRUE, FALSE>>, <<TRUE, TRUE>>}}

ImportsInit ==
    \/ part \in {"one import", "two imports"} /\ Init /\ PlanningInit
          /\ export = {12} /\ bounds = NoBoundary /\ digests = {}
    \/ part = "plan" /\ PlanningInit /\ Init

\* Bounds of each part: one import whose group may be upgraded; two of the same
\* group, which may be upgraded, the second of one of the dates of the first,
\* without summaries and with the history lock to themselves.
Fits ==
    \/ part = "one import" /\ status[i2] = "preview" /\ days[i1] \in {{}, Days}
    \/ /\ part = "two imports"
       /\ crashes <= 1 /\ ~locked
       /\ days[i1] \in {{}, Days} /\ days[i2] \in {{}, {d1}}
       /\ \A i \in Imports : archive[i] = "skipped"

Importer(A) == part # "plan" /\ A /\ UNCHANGED <<planVars, part>> /\ Fits'
Planner(A) == part = "plan" /\ A /\ UNCHANGED <<vars, part>>

ImportsNext == Importer(Next) \/ Planner(PlanningNext)
ImportsSpec == ImportsInit /\ [][ImportsNext]_allVars /\ Fairness
PlannerSpec == part = "plan" /\ PlanningInit /\ Init /\ [][Planner(PlanningNext)]_allVars

\* What is asked of a job happens: it runs to an end, and a pause takes effect.
JobsAnswer == RunsEnd /\ PauseTakesEffect
=============================================================================
