---------------------------- MODULE ImportPlanning -----------------------------
(***************************************************************************)
(* What an import will do (naruto/importer/planning.py), from the owner's  *)
(* choices and the summaries there are, and what its job then makes of it  *)
(* (importer/service.py _create_periods): which dates are kept as raw      *)
(* chat, which are summarized, and which older summaries are used again,   *)
(* replaced or left alone.  Between the plan and the job the owner may     *)
(* edit and delete summaries.                                              *)
(*                                                                         *)
(* A message is its time.  A summary keeps the times it was made from and  *)
(* the grouping: its fingerprint, with its dates.  What is published when is in              *)
(* HistoryPublish; here the job comes to its end.                          *)
(***************************************************************************)
EXTENDS Periods, Sequences

CONSTANTS Exports,      \* sets of message times
          ImportChoices,      \* options of the owner: \subseteq Options
          Boundaries,   \* recording_since and first_live_date, NoTime for none
          Histories,    \* sets of summaries in use
          MaxEdits      \* bound: what the owner does meanwhile

NoTime == -1
NoDay == -1

ChosenDays == Nat \cup {NoDay}
Options == [raw : BOOLEAN, rawFrom : ChosenDays, rawTo : ChosenDays,
            archive : BOOLEAN, from : ChosenDays, to : ChosenDays, grouping : Groupings,
            regenerate : BOOLEAN, replace : BOOLEAN, replaceEdited : BOOLEAN]
Digest == [start : Nat, end : Nat, edited : BOOLEAN, grouping : Groupings, content : SUBSET Nat]
Bounds == [recording : Nat \cup {NoTime}, firstLive : Nat \cup {NoTime}]

Overlaps(d, p) == d.start < p.end /\ d.end > p.start
Apart(history) == \A d, e \in history : Overlaps(d, e) => d = e

\* An export has messages, the last of them; no two summaries in use are of
\* the same moment, as the imports and the archiver before left them.
ASSUME ImportPlanningAssumption ==
    /\ \A e \in Exports : \E last \in e \cap Nat : e \subseteq 0 .. last
    /\ ImportChoices \subseteq Options /\ Boundaries \subseteq Bounds
    /\ \A h \in Histories : h \subseteq Digest /\ Apart(h)
    /\ MaxEdits \in Nat

VARIABLES
    export,      \* the times of its messages, the same when the job reads it
    bounds,      \* of the chat
    digests,     \* the summaries in use
    options, plan, planStep,
    edits,
    planned,     \* the summaries there were when the plan was made
    made         \* the periods of the job

planVars == <<export, bounds, digests, options, plan, planStep, edits, planned, made>>

-----------------------------------------------------------------------------
(* Counting *)

\* Dates.count()
Between(start, end) == {ts \in export : start <= ts /\ ts < end}
Count(start, end) == Cardinality(Between(start, end))

\* first_date, last_date
First == Min(export)
LastOne == Max(export)

\* _span_days(): a range includes its whole end day.
Span(from, to) == [start |-> DayStart(from), end |-> DayStart(to + 1)]
SpanChosen(from, to) == from # NoDay /\ to # NoDay /\ from <= to

\* ImportOptions.defaults(): all of it, by month, from the first of its month
Defaults ==
    [raw |-> TRUE, rawFrom |-> LocalDate(First), rawTo |-> LocalDate(LastOne),
     archive |-> TRUE, from |-> FirstDay(LocalDate(First), "month"), to |-> LocalDate(LastOne),
     grouping |-> "month", regenerate |-> FALSE, replace |-> FALSE, replaceEdited |-> FALSE]

\* Raw messages stop where recording began or the first live message is;
\* summaries where recording began.
RawBoundary == LET known == {bounds.recording, bounds.firstLive} \ {NoTime}
               IN  IF known = {} THEN NoTime ELSE Min(known)
Boundary == IF bounds.recording # NoTime THEN bounds.recording ELSE bounds.firstLive
Clipped(end, boundary) == IF boundary = NoTime THEN end ELSE Min({end, boundary})

-----------------------------------------------------------------------------
(* The plan *)

Overlapping(history, p) == {d \in history : Overlaps(d, p)}

\* fingerprint(), of what is read
Content(p) == Between(p.start, p.end)

\* The fingerprint as far as the preview's whole days tell it.
Predicted(p) ==
    [known |-> /\ Count(p.start, p.end) > 0 /\ p.end # Boundary
               /\ \A ts \in {p.start, p.end} : ts = DayStart(LocalDate(ts)),
     content |-> {ts \in export : p.start <= DayStart(LocalDate(ts)) /\ DayStart(LocalDate(ts)) < p.end}]

Same(history, p, grouping, content) ==
    {d \in Overlapping(history, p) :
        d.start = p.start /\ d.end = p.end /\ d.grouping = grouping /\ d.content = content}

\* One period: used again, or replacing what overlaps it.
PeriodPlan(history, p, o) ==
    LET whole == IF o.grouping = "range" THEN p ELSE CalendarPeriod(p.start, o.grouping)
        prediction == Predicted(p)
        same == IF prediction.known THEN Same(history, p, o.grouping, prediction.content) ELSE {}
        count == Count(p.start, p.end)
    IN  [start |-> p.start, end |-> p.end, count |-> count,
         partial |-> count > 0 /\ (\/ p.start > whole.start \/ p.end < whole.end
                                   \/ First > p.start + DayLength
                                   \/ LastOne < p.end - DayLength),
         reuse |-> count > 0 /\ same # {} /\ ~o.regenerate,
         replaces |-> IF count = 0 \/ (same # {} /\ ~o.regenerate) THEN {} ELSE Overlapping(history, p)]

Replaced(ps) == UNION {ps[i].replaces : i \in DOMAIN ps}

\* _plan_periods(), and what it refuses
\* Mutant: a summary that reaches beyond the dates may be replaced.
PeriodErrorsInside(ps, start, end, o) ==
    (IF Replaced(ps) # {} /\ ~o.replace THEN {"replace"} ELSE {})
    \cup (IF (\E d \in Replaced(ps) : d.edited) /\ o.replace /\ ~o.replaceEdited
          THEN {"edited"} ELSE {})
PeriodErrors(ps, start, end, o) ==
    (IF \E d \in Replaced(ps) : d.start < start \/ d.end > end THEN {"partly outside"} ELSE {})
    \cup (IF Replaced(ps) # {} /\ ~o.replace THEN {"replace"} ELSE {})
    \cup (IF (\E d \in Replaced(ps) : d.edited) /\ o.replace /\ ~o.replaceEdited
          THEN {"edited"} ELSE {})

\* make_plan(), the raw messages
RawPlan(o) ==
    LET chosen == o.raw /\ SpanChosen(o.rawFrom, o.rawTo)
        s == Span(o.rawFrom, o.rawTo)
        end == Clipped(s.end, RawBoundary)
        eligible == IF chosen THEN Count(s.start, end) ELSE 0
    IN  [start |-> s.start, end |-> end,
         selected |-> IF chosen THEN Count(s.start, s.end) ELSE 0, eligible |-> eligible,
         live |-> IF chosen /\ RawBoundary # NoTime
                  THEN Count(Max({s.start, RawBoundary}), s.end) ELSE 0,
         errors |-> IF o.raw /\ eligible = 0 THEN {"raw"} ELSE {}]

\* make_plan(), the summaries
ArchivePlan(history, o) ==
    LET s == Span(o.from, o.to)
        end == Clipped(s.end, Boundary)
        applies == o.archive /\ SpanChosen(o.from, o.to) /\ end > s.start
        periods == IF applies THEN PlanPeriods(s.start, end, o.grouping) ELSE << >>
        ps == [i \in DOMAIN periods |-> PeriodPlan(history, periods[i], o)]
        count == IF applies THEN Count(s.start, end) ELSE 0
    IN  [start |-> s.start, end |-> IF applies THEN end ELSE s.start, count |-> count,
         periods |-> ps,
         errors |-> (IF o.archive /\ count = 0 THEN {"archive"} ELSE {})
                    \cup PeriodErrors(ps, s.start, end, o)]

ImportPlan(raw, archive, errors) == [raw |-> raw, archive |-> archive, errors |-> errors]

MakePlan(history, o) ==
    LET raw == RawPlan(o) archive == ArchivePlan(history, o)
    IN  ImportPlan(raw, archive, raw.errors \cup archive.errors
                                 \cup (IF ~o.raw /\ ~o.archive THEN {"choose"} ELSE {}))

NoPlan == << >>

PlanningInit ==
    /\ export \in Exports /\ bounds \in Boundaries /\ digests \in Histories
    /\ options = NoPlan /\ plan = NoPlan /\ planStep = "preview"
    /\ edits = 0 /\ planned = {} /\ made = {}

\* from_form(): the owner's choices, or the defaults; the plan is made again
\* when the import starts.
Choose(o) ==
    /\ planStep = "preview"
    /\ options' = o /\ plan' = MakePlan(digests, o) /\ planned' = digests
    /\ planStep' = IF plan'.errors = {} THEN "started" ELSE "refused"
    /\ UNCHANGED <<export, bounds, digests, edits, made>>

\* Meanwhile the owner edits or deletes a summary in the web admin.
OwnerEdits ==
    /\ planStep = "started" /\ edits < MaxEdits /\ edits' = edits + 1
    /\ \E d \in digests :
          \/ ~d.edited /\ digests' = (digests \ {d}) \cup {[d EXCEPT !.edited = TRUE]}
          \/ digests' = digests \ {d}
    /\ UNCHANGED <<export, bounds, options, plan, planStep, planned, made>>

-----------------------------------------------------------------------------
(* The job *)

\* It goes by what was stored with the import: frozen().
Frozen ==
    [enabled |-> options.archive /\ plan.archive.count > 0,
     start |-> plan.archive.start, end |-> plan.archive.end, grouping |-> options.grouping,
     regenerate |-> options.regenerate, replace |-> options.replace,
     replaceEdited |-> options.replaceEdited]

\* _create_periods(): decided again, by what the export and the history are
\* now.
PeriodMade(p, o) ==
    LET same == Same(digests, p, o.grouping, Content(p))
        existing == Overlapping(digests, p)
        allowed == o.replace /\ (o.replaceEdited \/ \A d \in existing : ~d.edited)
        status == IF same # {} /\ ~o.regenerate THEN "reused"
                  ELSE IF existing # {} /\ ~allowed THEN "cancelled" ELSE "pending"
    IN  [start |-> p.start, end |-> p.end, grouping |-> o.grouping, content |-> Content(p),
         status |-> status, replaces |-> IF status = "pending" THEN existing ELSE {}]

\* The periods with messages
Wanted ==
    LET all == PlanPeriods(Frozen.start, Frozen.end, Frozen.grouping)
    IN  {p \in {all[i] : i \in DOMAIN all} : Frozen.enabled /\ Count(p.start, p.end) > 0}

CreatePeriods ==
    /\ planStep = "started"
    /\ made' = {PeriodMade(p, Frozen) : p \in Wanted}
    /\ planStep' = "working"
    /\ UNCHANGED <<export, bounds, digests, options, plan, edits, planned>>

\* The groups that share an older summary are swapped in together; one with a
\* period that is left out is swapped in without it.
Pending == {p \in made : p.status = "pending"}
NewDigest(p) == [start |-> p.start, end |-> p.end, edited |-> FALSE,
                 grouping |-> p.grouping, content |-> p.content]
Publish ==
    /\ planStep = "working"
    /\ digests' = (digests \ UNION {p.replaces : p \in Pending})
                  \cup {NewDigest(p) : p \in Pending}
    /\ planStep' = "done"
    /\ UNCHANGED <<export, bounds, options, plan, edits, planned, made>>

PlanningNext ==
    \/ \E o \in ImportChoices : Choose(o)
    \/ Choose(Defaults)
    \/ OwnerEdits
    \/ CreatePeriods
    \/ Publish

PlanningSpec == PlanningInit /\ [][PlanningNext]_planVars

-----------------------------------------------------------------------------
(* Properties *)

PlanningTypeOK ==
    /\ planStep \in {"preview", "refused", "started", "working", "done"}
    /\ digests \subseteq Digest
    /\ options # NoPlan => options \in Options
    /\ edits \in 0 .. MaxEdits

\* The periods of a plan are its dates: none missing, none twice, no others,
\* each inside one month or week.
PeriodsCoverTheDates ==
    plan # NoPlan =>
        LET ps == plan.archive.periods
        IN  /\ ps # << >> =>
                  \A ts \in plan.archive.start .. plan.archive.end - 1 :
                      Cardinality({i \in DOMAIN ps : ps[i].start <= ts /\ ts < ps[i].end}) = 1
            /\ \A i \in DOMAIN ps :
                  /\ plan.archive.start <= ps[i].start /\ ps[i].end <= plan.archive.end
                  /\ options.grouping # "range" =>
                        ps[i].end <= CalendarPeriod(ps[i].start, options.grouping).end

\* Live chat is neither doubled by imported messages nor summarized from an
\* export, and every chosen message is either kept or said to be excluded.
LiveChatIsLeftAlone ==
    plan # NoPlan =>
        /\ plan.raw.eligible > 0 => \A b \in {bounds.recording, bounds.firstLive} \ {NoTime} :
                                        plan.raw.end <= b
        /\ Boundary # NoTime => \A i \in DOMAIN plan.archive.periods :
                                    plan.archive.periods[i].end <= Boundary
        /\ plan.raw.selected = plan.raw.eligible + plan.raw.live

\* A summary is replaced only within the dates the owner chose, only when that
\* was allowed, and one the owner wrote only when that was allowed too,
\* whatever was edited since the preview.  No two in use overlap, and a date
\* that had a summary has one, if the owner left the history alone meanwhile.
Summarized(ts) == \E d \in digests : d.start <= ts /\ ts < d.end
HistoryIsReplacedWhole ==
    /\ planStep = "working" =>
          \A p \in Pending : \A d \in p.replaces :
              /\ options.replace /\ (d.edited => options.replaceEdited)
              /\ plan.archive.start <= d.start /\ d.end <= plan.archive.end
    /\ Apart(digests)
    /\ planStep = "done" /\ edits = 0 =>
          \A ts \in export : (\E d \in planned : d.start <= ts /\ ts < d.end) => Summarized(ts)

\* The job replaces nothing the preview did not list, and makes again nothing
\* the preview said would be used again, unless the owner changed the history
\* in between.
PreviewIsTrue ==
    planStep = "working" /\ digests = planned =>
        /\ UNION {p.replaces : p \in Pending} \subseteq Replaced(plan.archive.periods)
        /\ \A i \in DOMAIN plan.archive.periods :
              plan.archive.periods[i].reuse =>
                  \E p \in made : /\ p.status = "reused"
                                  /\ p.start = plan.archive.periods[i].start

\* The periods made are those of the dates chosen and those that were shown.
PlanIsTrue == PlanningTypeOK /\ PeriodsCoverTheDates /\ PreviewIsTrue /\ LiveChatIsLeftAlone

\* A summary of dates that are not all made anew stays: "Include all of it, or
\* leave it out, so it isn't replaced by part of itself."
NotReplacedInPart ==
    [][planStep = "working" => \A ts \in export : Summarized(ts) => Summarized(ts)']_planVars
=============================================================================
