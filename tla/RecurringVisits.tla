--------------------------- MODULE RecurringVisits ---------------------------
(***************************************************************************)
(* A recurring series, the visits generated from it and the changes made   *)
(* to single occurrences (modules/recurring/router.py, skip_job,           *)
(* delete_job and update_job of modules/scheduling/router.py).             *)
(*                                                                         *)
(* A visit is a job linked to the series; the partial unique index on      *)
(* (recurring_schedule_id, scheduled_date) leaves at most one per date,    *)
(* whatever its status, so visits are a function of the date.  Rows that   *)
(* were cancelled and detached are history nothing reads again.  Series do *)
(* not touch each other: one is followed, after a split either of the two. *)
(***************************************************************************)
EXTENDS Integers, FiniteSets

CONSTANTS
    LastDate,    \* dates are 1..LastDate, all within generate_weeks_ahead
    Rules,       \* the sets of dates a rule can expand to
    MaxExceptions, \* how many occurrences are skipped or moved (a bound for TLC)
    Overlaps,    \* others commit while a generation runs
    MovesAgain   \* a visit on the date another was moved to is skipped or moved

Dates == 1..LastDate

ASSUME RecurringAssumption ==
    /\ LastDate \in Nat \ {0}
    /\ Rules \subseteq SUBSET Dates
    /\ Overlaps \in BOOLEAN /\ MovesAgain \in BOOLEAN /\ MaxExceptions \in Nat

VARIABLES
    series,      \* the recurring_schedules row: generating or not, rule, window [from, until)
    visit,       \* the linked job on a date
    exception,   \* recurrence_exceptions: Kept, Skipped, or the date moved to
    generating,  \* a generate_jobs that has read its dates
    now,         \* business_today()
    takenOff     \* history: dates the office took the visit off, and left so

recurringVars == <<series, visit, exception, generating, now, takenOff>>

Kept == 0        \* no exception row for this date
Skipped == -1    \* otherwise rescheduled_date

VisitStatus == {"none", "scheduled", "completed", "cancelled"}
\* "stopped" is paused or, with cancelled_at, cancelled.
Schedule == [state: {"absent", "active", "stopped"}, rule: SUBSET Dates,
             from: Dates, until: 1..(LastDate + 1)]
NoSchedule == [state |-> "absent", rule |-> {}, from |-> 1, until |-> LastDate + 1]
NoGeneration == [running |-> FALSE, dates |-> {}]

NoVisits == [d \in Dates |-> "none"]
NoExceptions == [d \in Dates |-> Kept]

RecurringTypeOK ==
    /\ series \in Schedule
    /\ visit \in [Dates -> VisitStatus]
    /\ exception \in [Dates -> {Kept, Skipped} \cup Dates]
    /\ generating \in [running: BOOLEAN, dates: SUBSET Dates]
    /\ now \in Dates
    /\ takenOff \subseteq Dates

RecurringInit ==
    /\ series = NoSchedule
    /\ visit = NoVisits
    /\ exception = NoExceptions
    /\ generating = NoGeneration
    /\ now = 1
    /\ takenOff = {}

-----------------------------------------------------------------------------
(* generate_jobs *)

\* generate_dates: what the rule gives from today, inside the window.
Expanded(row) == {d \in row.rule : d >= now /\ d >= row.from /\ d < row.until}

Targets == {exception[d] : d \in Dates} \cap Dates
Excepted == {d \in Dates : exception[d] # Kept}

\* _apply_exceptions: drop every excepted date, then add every target.
Due(row) == (Expanded(row) \ Excepted) \cup Targets

\* A date with a linked job, cancelled ones included, gets no other.
Generated(v, dates) ==
    [d \in Dates |-> IF d \in dates /\ v[d] = "none" THEN "scheduled" ELSE v[d]]

\* Handlers run while a generation is in flight only if Overlaps.
Turnstile == Overlaps \/ generating = NoGeneration
Exists == series.state # "absent"

\* recurring_jobs_tick and generate_all take active series only; the generate
\* endpoint takes any.
GenerateRead ==
    /\ Exists /\ generating = NoGeneration
    /\ generating' = [running |-> TRUE, dates |-> Due(series)]
    /\ UNCHANGED <<series, visit, exception, now, takenOff>>

\* Every date is looked up again before its insert.
GenerateWrite ==
    /\ generating.running
    /\ visit' = Generated(visit, generating.dates)
    /\ generating' = NoGeneration
    /\ UNCHANGED <<series, exception, now, takenOff>>

-----------------------------------------------------------------------------
(* The series as a whole *)

CreateSeries(rule) ==
    /\ Turnstile /\ ~Exists
    /\ series' = [NoSchedule EXCEPT !.state = "active", !.rule = rule]
    /\ visit' = Generated(visit, Due(series'))
    /\ UNCHANGED <<exception, generating, now, takenOff>>

\* The superseded visits are cancelled and detached: the dates are free again.
Superseded(v, from, protected) ==
    [d \in Dates |-> IF v[d] = "scheduled" /\ d >= from /\ d \notin protected THEN "none" ELSE v[d]]

\* update_schedule: a new rule, paused or resumed, and _resync_future_jobs, which
\* leaves alone the dates of exceptions and those visits were moved to.
EditSeries(state, rule, resync) ==
    LET row == [series EXCEPT !.state = state, !.rule = rule]
        left == Superseded(visit, now, Excepted \cup Targets)
    IN /\ Turnstile /\ Exists
       /\ series' = row
       /\ visit' = IF resync THEN Generated(left, Due(row)) ELSE visit
       /\ UNCHANGED <<exception, generating, now, takenOff>>

\* "This and all future": a successor takes over from date x, with no exceptions.
\* A series is split once (a bound for TLC).
SplitSeries(x, rule) ==
    /\ Turnstile /\ Exists /\ x >= now
    /\ series.from = 1 /\ series.until = LastDate + 1
    /\ \/ /\ series' = [series EXCEPT !.until = x]      \* following the predecessor
          /\ visit' = Superseded(visit, x, Excepted)
          /\ UNCHANGED <<exception, takenOff>>
       \/ /\ series' = [NoSchedule EXCEPT !.state = "active", !.rule = rule, !.from = x]
          /\ visit' = Generated(NoVisits, Expanded(series'))
          /\ exception' = NoExceptions /\ takenOff' = {}
    /\ UNCHANGED <<generating, now>>

\* delete_schedule: nothing but the switch and the stamp.
CancelSeries ==
    /\ Turnstile /\ Exists /\ series.state = "active"
    /\ series' = [series EXCEPT !.state = "stopped"]
    /\ UNCHANGED <<visit, exception, generating, now, takenOff>>

\* Mutation: they are detached as the skip path does.
CancelledDetached(ds) ==
    /\ visit' = [d \in Dates |-> IF d \in ds THEN "none" ELSE visit[d]]
    /\ takenOff' = takenOff \cup ds

\* The visits ds are cancelled and keep their link.
Cancelled(ds) ==
    /\ visit' = [d \in Dates |-> IF d \in ds THEN "cancelled" ELSE visit[d]]
    /\ takenOff' = takenOff \cup ds

Upcoming == {d \in Dates : d >= now /\ visit[d] = "scheduled"}

CancelUpcoming ==
    /\ Turnstile /\ Exists /\ Upcoming # {}
    /\ Cancelled(Upcoming)
    /\ UNCHANGED <<series, exception, generating, now>>

\* Mutation: a visit that was moved counts as off-phase.
CleanUpMovedToo ==
    /\ Turnstile /\ series.state = "active"
    /\ \E ds \in SUBSET (Upcoming \ series.rule) :
          ds # {} /\ Cancelled(ds)
    /\ UNCHANGED <<series, exception, generating, now>>

\* apply_off_phase_cleanup: visits the rule does not give, but for targets.
CleanUpOffPhase ==
    /\ Turnstile /\ series.state = "active"
    /\ \E ds \in SUBSET (Upcoming \ (series.rule \cup Targets)) :
          ds # {} /\ Cancelled(ds)
    /\ UNCHANGED <<series, exception, generating, now>>

-----------------------------------------------------------------------------
(* One occurrence *)

\* The bound, and which visits the office touches twice.
MayExcept(d) ==
    /\ exception[d] # Kept
       \/ Cardinality(Excepted) < MaxExceptions
    /\ MovesAgain \/ d \notin Targets

\* _cancel_existing_job: cancelled and detached, a completed visit left alone.
Freed(v, ds) == [d \in Dates |-> IF d \in ds /\ v[d] # "completed" THEN "none" ELSE v[d]]

\* add_skip_exception: a visit that had been moved goes with it.
Skip(d) ==
    LET moved == {exception[d]} \cap Dates
    IN /\ Turnstile /\ Exists /\ MayExcept(d)
       /\ exception' = [exception EXCEPT ![d] = Skipped]
       /\ visit' = Freed(visit, {d} \cup moved)
       /\ takenOff' = (takenOff \ moved) \cup {d}
       /\ UNCHANGED <<series, generating, now>>

\* skip_job: cancelled in place; an exception that is there stays as it is.
SkipJob(d) ==
    /\ Turnstile /\ visit[d] # "none" /\ MayExcept(d)
    /\ exception' = [exception EXCEPT ![d] = IF @ = Kept THEN Skipped ELSE @]
    /\ Cancelled({d})
    /\ UNCHANGED <<series, generating, now>>

\* _reschedule_occurrence: from the office, a bulk move or the customer.  The
\* visit on t is reused, revived, or made.
Reschedule(d, t) ==
    LET left == IF t = d THEN visit ELSE Freed(visit, {d})
    IN /\ Turnstile /\ visit[d] = "scheduled" /\ MayExcept(d)
       /\ exception' = [exception EXCEPT ![d] = t]
       /\ visit' = [left EXCEPT ![t] = IF @ = "completed" THEN @ ELSE "scheduled"]
       /\ takenOff' = (takenOff \cup {d}) \ {t}
       /\ UNCHANGED <<series, generating, now>>

\* delete_exception: the row goes, the visits stay as they are.
UndoException(d) ==
    /\ Turnstile /\ exception[d] # Kept
    /\ exception' = [exception EXCEPT ![d] = Kept]
    /\ takenOff' = takenOff \ {d}
    /\ UNCHANGED <<series, visit, generating, now>>

\* update_job and complete_job on one visit, and delete_job, which frees the
\* date without an exception.
VisitSet(d, status) ==
    /\ Turnstile
    /\ visit[d] # "none" /\ visit[d] # status
    /\ visit[d] \in {"completed", "cancelled"} => status # "completed"
    /\ visit' = [visit EXCEPT ![d] = status]
    /\ takenOff' = IF status = "cancelled" THEN takenOff \cup {d} ELSE takenOff \ {d}
    /\ UNCHANGED <<series, exception, generating, now>>

DayEnds ==
    /\ Turnstile /\ now < LastDate
    /\ now' = now + 1
    /\ UNCHANGED <<series, visit, exception, generating, takenOff>>

-----------------------------------------------------------------------------
SeriesStep ==
    \/ GenerateRead \/ GenerateWrite \/ CleanUpOffPhase
    \/ \E rule \in Rules, state \in {"active", "stopped"}, resync \in BOOLEAN :
          EditSeries(state, rule, resync)

OccurrenceStep(d) ==
    \/ Skip(d) \/ SkipJob(d) \/ UndoException(d)
    \/ \E t \in Dates : Reschedule(d, t)
    \/ \E status \in VisitStatus : VisitSet(d, status)

RecurringNext ==
    \/ SeriesStep \/ CancelSeries \/ CancelUpcoming \/ DayEnds
    \/ \E rule \in Rules : CreateSeries(rule) \/ \E x \in Dates : SplitSeries(x, rule)
    \/ \E d \in Dates : OccurrenceStep(d)

RecurringSpec == RecurringInit /\ [][RecurringNext]_recurringVars

-----------------------------------------------------------------------------
(* Properties *)

\* A visit taken off a date stays off ("A row here means the corresponding date
\* in the recurrence rule should NOT generate a Job", models.py:643; "do not
\* resurrect it", recurring/router.py:884): skipped, moved away, cancelled
\* alone, with the series or as off-phase, no later generation, edit of the
\* rule, pause or split brings it back; only the office putting one there does.
TakenOffStaysOff ==
    \A d \in takenOff : visit[d] # "scheduled"

\* A visit that was moved keeps its new date through edits of the series, its
\* generation and the cleanup of off-phase visits.
MovedVisitStands ==
    [][(\E t \in Targets : visit[t] = "scheduled" /\ visit'[t] # "scheduled")
         => ~SeriesStep]_recurringVars
=============================================================================
