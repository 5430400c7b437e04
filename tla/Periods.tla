------------------------------- MODULE Periods --------------------------------
(***************************************************************************)
(* Calendar periods (naruto/periods.py): a stretch of time cut into        *)
(* months, into weeks, or left as one range.  The calendar is a small one: *)
(* every day has DayLength moments, every month and week its days.         *)
(***************************************************************************)
EXTENDS Integers, FiniteSets, FiniteSetsExt

CONSTANTS DayLength, MonthDays, WeekDays

ASSUME PeriodsAssumption == {DayLength, MonthDays, WeekDays} \subseteq Nat \ {0}

Groupings == {"month", "week", "range"}

LocalDate(ts) == ts \div DayLength
DayStart(day) == day * DayLength

\* The days of a month or a week, and the first day of the one a day is in.
DaysOf(grouping) == IF grouping = "month" THEN MonthDays ELSE WeekDays
FirstDay(day, grouping) == (day \div DaysOf(grouping)) * DaysOf(grouping)

\* plan_periods(): [start, end) cut, the first and the last clipped to it
\* Mutant: whole months and weeks.
UnclippedPeriods(start, end, grouping) ==
    IF grouping = "range" THEN [i \in 1 .. 1 |-> [start |-> start, end |-> end]]
    ELSE LET first == FirstDay(LocalDate(start), grouping)
             Cursor(i) == DayStart(first + (i - 1) * DaysOf(grouping))
             n == Cardinality({i \in 1 .. end : Cursor(i) < end})
         IN  [i \in 1 .. n |-> [start |-> Cursor(i), end |-> Cursor(i + 1)]]
PlanPeriods(start, end, grouping) ==
    IF end <= start THEN << >>
    ELSE IF grouping = "range" THEN [i \in 1 .. 1 |-> [start |-> start, end |-> end]]
    ELSE LET first == FirstDay(LocalDate(start), grouping)
             Cursor(i) == DayStart(first + (i - 1) * DaysOf(grouping))
             n == Cardinality({i \in 1 .. end : Cursor(i) < end})
         IN  [i \in 1 .. n |-> [start |-> Max({Cursor(i), start}),
                                end |-> Min({Cursor(i + 1), end})]]

\* calendar_period(): the whole month or week around a moment
CalendarPeriod(ts, grouping) ==
    LET first == FirstDay(LocalDate(ts), grouping)
    IN  [start |-> DayStart(first), end |-> DayStart(first + DaysOf(grouping))]
=============================================================================
