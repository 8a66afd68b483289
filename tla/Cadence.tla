------------------------------- MODULE Cadence -------------------------------
(***************************************************************************)
(* Which dates a recurring series falls on: the rule of a series, the date *)
(* its phase is counted from, the end "after N visits", and the daily tick *)
(* that generates visits a few weeks ahead (modules/recurring/router.py).  *)
(*                                                                         *)
(* Dates are numbered from a Monday, day 0.                                *)
(***************************************************************************)
EXTENDS Integers, Sequences, FiniteSets, FiniteSetsExt

CONSTANTS
    Week,         \* days in a week
    Months,       \* lengths of the months, as a sequence
    Frequencies,  \* those offered, of daily, weekly and monthly
    DaySets,      \* the sets of weekdays that are chosen
    Intervals,    \* interval_weeks: weeks, or days of a daily series
    MonthDays,    \* day_of_month
    Counts,       \* the N of "ends after N visits", 0 for a series without end
    Ahead,        \* generate_weeks_ahead
    LastToday,    \* how far the calendar advances (a bound for TLC)
    CalendarEnd,     \* the ten years within which the N-th visit must fall
    OddDays       \* every-N-days series may have chosen weekdays as well

Calendar == 0..CalendarEnd
None == -1

ASSUME CadenceAssumption ==
    /\ Week \in Nat \ {0} /\ Ahead \in Nat \ {0} /\ LastToday \in Nat /\ LastToday >= Week - 1
    /\ Months \in Seq(Nat \ {0}) /\ Months # <<>>
    /\ CalendarEnd \in Nat /\ CalendarEnd >= LastToday + (Ahead + 1) * Week
    /\ Frequencies \subseteq {"daily", "weekly", "monthly"}
    /\ DaySets \subseteq SUBSET (0..(Week - 1))
    /\ Intervals \subseteq Nat \ {0} /\ MonthDays \subseteq 1..31 /\ Counts \subseteq Nat
    /\ OddDays \in BOOLEAN

VARIABLES
    plan,       \* the recurring_schedules row
    visits,     \* the dates that got a job
    day,        \* business_today()
    lastTick    \* when visits were generated last

cadenceVars == <<plan, visits, day, lastTick>>

Plan == [frequency: Frequencies \cup {"none"}, days: SUBSET (0..(Week - 1)), interval: Nat,
         monthDay: Nat, count: Nat, start: Calendar \cup {None},
         anchor: Calendar \cup {None}, end: 1..(CalendarEnd + 1) \cup {None}]
NoPlan == [frequency |-> "none", days |-> {}, interval |-> 1, monthDay |-> 1, count |-> 0,
           start |-> None, anchor |-> None, end |-> None]

CadenceTypeOK ==
    /\ plan \in Plan
    /\ visits \subseteq Calendar
    /\ day \in Calendar /\ lastTick \in Calendar

CadenceInit ==
    /\ plan = NoPlan
    /\ visits = {}
    /\ day \in 0..(Week - 1)
    /\ lastTick = day

-----------------------------------------------------------------------------
(* The calendar *)

Weekday(d) == d % Week
Monday(d) == d - Weekday(d)

\* The months come round again; a date knows its month and its day in it.
MonthLength(m) == Months[(m % Len(Months)) + 1]
MonthStart(m) == FoldSet(LAMBDA k, sum : MonthLength(k) + sum, 0, 0..(m - 1))
MonthOf == [d \in 0..(CalendarEnd + 1) |->
              CHOOSE m \in 0..d : MonthStart(m) <= d /\ d < MonthStart(m + 1)]
DayOfMonth == [d \in 0..(CalendarEnd + 1) |-> d - MonthStart(MonthOf[d]) + 1]

Least(a, b) == IF a < b THEN a ELSE b

-----------------------------------------------------------------------------
(* The rule *)

\* No weekday chosen means every day of a daily series.
EffectiveDays(row) == IF row.days = {} THEN 0..(Week - 1) ELSE row.days

FirstChosen(row, today) == Min({d \in today..(today + Week - 1) : Weekday(d) \in EffectiveDays(row)})

\* The phase is counted from the stored anchor, else the start of the series,
\* else the first chosen weekday.
PhaseAnchor(row, today) ==
    IF row.anchor # None THEN row.anchor
    ELSE IF row.start # None THEN row.start
    ELSE FirstChosen(row, today)

DailyAnchor(row, today) ==
    IF row.anchor # None THEN row.anchor
    ELSE IF row.start # None THEN row.start ELSE today

OccursOn(row, d, today) ==
    CASE row.frequency = "monthly" ->
            DayOfMonth[d] = Least(row.monthDay, MonthLength(MonthOf[d]))
      [] row.frequency = "daily" -> /\ (d - DailyAnchor(row, today)) % row.interval = 0
                                    /\ Weekday(d) \in EffectiveDays(row)
      [] OTHER -> /\ Weekday(d) \in EffectiveDays(row)
                  /\ ((Monday(d) - Monday(PhaseAnchor(row, today))) \div Week) % row.interval = 0

\* From today or the start of the series to the horizon, before the end.
GenerateDates(row) ==
    LET from == IF row.start # None /\ row.start > day THEN row.start ELSE day
        to == from + Ahead * Week
    IN {d \in from..to : OccursOn(row, d, from) /\ (row.end # None => d < row.end)}

\* Mutation: the visits are counted from today.
NthOccurrenceFromToday(row, n) ==
    {d \in Calendar : /\ d >= day /\ OccursOn(row, d, day)
                      /\ Cardinality({c \in day..d : OccursOn(row, c, day)}) = n}

\* The date of the n-th visit, counted from the anchor or the start; none when
\* there are not as many within the calendar.
NthOccurrence(row, n) ==
    LET origin == IF row.anchor # None THEN row.anchor
                  ELSE IF row.start # None THEN row.start ELSE day
    IN {d \in Calendar : /\ d >= origin /\ OccursOn(row, d, origin)
                         /\ Cardinality({c \in origin..d : OccursOn(row, c, origin)}) = n}

\* "Ends after N" is stored as the day after the N-th visit.
Ended(row) ==
    IF row.count = 0 THEN {[row EXCEPT !.end = None]}
    ELSE {[row EXCEPT !.end = d + 1] : d \in NthOccurrence(row, row.count)}

\* Mutation: the phase is left to be worked out from today.
AnchoredNever(row) == row

\* The phase is pinned when the series first gets visits.
Anchored(row) ==
    IF row.anchor # None THEN row
    ELSE [row EXCEPT !.anchor = IF row.start # None THEN row.start
                                ELSE IF visits # {} THEN Min(visits)
                                ELSE IF row.frequency = "monthly" THEN day
                                ELSE FirstChosen(row, day)]

-----------------------------------------------------------------------------
\* generate_jobs
Generate(row) ==
    /\ plan' = Anchored(row)
    /\ visits' = visits \cup GenerateDates(plan')
    /\ lastTick' = day
    /\ UNCHANGED day

\* A weekly series has a weekday; what a frequency does not use keeps its
\* default.
Sensible(row) ==
    /\ row.frequency = "weekly" => row.days # {}
    /\ row.frequency = "monthly" => row.days = {} /\ row.interval = 1
    /\ row.frequency # "monthly" => row.monthDay = 1
    /\ row.frequency = "daily" /\ row.days # {} => row.interval = 1 \/ OddDays

\* What the form may send.
Openings ==
    [frequency: Frequencies, days: DaySets, interval: Intervals \cup {1},
     monthDay: MonthDays \cup {1}, count: Counts, start: {None} \cup day..(day + Week),
     anchor: {None}, end: {None}]

\* create_schedule, or the successor of a split that starts later.
OpenSeries ==
    /\ plan = NoPlan
    /\ \E row \in Openings : Sensible(row) /\ \E ended \in Ended(row) : Generate(ended)

CadenceTick == plan # NoPlan /\ Generate(plan)

\* The edit form sends the "Ends" fields again with every save.
SaveEnds ==
    /\ plan # NoPlan
    /\ plan' \in Ended(plan)
    /\ UNCHANGED <<visits, day, lastTick>>

\* The tick may fail for days, not for all the weeks it works ahead.
Midnight ==
    /\ plan # NoPlan /\ day < LastToday
    /\ day < lastTick + Ahead * Week
    /\ day' = day + 1
    /\ UNCHANGED <<plan, visits, lastTick>>

CadenceNext == OpenSeries \/ CadenceTick \/ SaveEnds \/ Midnight

CadenceSpec == CadenceInit /\ [][CadenceNext]_cadenceVars

-----------------------------------------------------------------------------
(* Properties *)

\* What the customer was told: every interval-th week, day or month from the
\* first visit on.
Promised(first, d) ==
    CASE plan.frequency = "monthly" ->
            \/ DayOfMonth[d] = plan.monthDay
            \/ DayOfMonth[d] < plan.monthDay /\ DayOfMonth[d + 1] = 1
      [] plan.frequency = "daily" -> (d - first) % plan.interval = 0 /\ Weekday(d) \in EffectiveDays(plan)
      [] OTHER -> \E k \in 0..d : Monday(d) = Monday(first) + k * plan.interval * Week
                                  /\ Weekday(d) \in EffectiveDays(plan)

\* The visits of a series are exactly the promised ones from the first on, on
\* whatever days the tick ran, failed and ran again: no off-week fills in, no
\* short month goes without ("the biweekly-drift bug", _phase_anchor).
CadenceKept ==
    visits # {} => LET first == Min(visits) IN
        /\ \A d \in visits : Promised(first, d)
        /\ \A d \in first..(lastTick + Ahead * Week) :
              Promised(first, d) /\ (plan.end # None => d < plan.end) => d \in visits

\* "Ends after N": N visits in all, however often the form is saved
\* ("silently extending a paid, count-limited series well past N visits").
EndsAfterN ==
    plan.count # 0 =>
        /\ Cardinality(visits) <= plan.count
        /\ lastTick + Ahead * Week >= plan.end => Cardinality(visits) = plan.count
=============================================================================
