---------------------------- MODULE SeriesProofs ----------------------------
(***************************************************************************)
(* What holds of a recurring series for every calendar and every rule, and *)
(* of a standing route for any number of houses and subcontractors.  That  *)
(* a visit taken off stays off is proved where no generation is overtaken  *)
(* and no visit is touched twice, the two cases in which it fails; that a  *)
(* route belongs to whoever took it, while nobody commits between the load *)
(* and the commit of an office request; that the shares of a route add up  *)
(* to its rate, always; that a series falls on the promised dates and ends *)
(* after its N visits, where every-N-days series have no chosen weekdays.  *)
(***************************************************************************)
EXTENDS RecurringVisits, Routes, Cadence, FoldLemmas

-----------------------------------------------------------------------------
(* Typing *)

\* Generating, superseding and freeing leave visits behind.
LEMMA VisitsType ==
    ASSUME NEW v \in [Dates -> VisitStatus]
    PROVE  /\ \A dates : Generated(v, dates) \in [Dates -> VisitStatus]
           /\ \A from, protected : Superseded(v, from, protected) \in [Dates -> VisitStatus]
           /\ \A ds : Freed(v, ds) \in [Dates -> VisitStatus]
BY DEF Generated, Superseded, Freed, VisitStatus

\* Dates begin with 1, and a window may reach past the last.
LEMMA DatesType == 1 \in Dates /\ LastDate + 1 \in 1..(LastDate + 1) /\ Dates \subseteq 1..(LastDate + 1)
BY RecurringAssumption DEF Dates

\* A series that is not there has the types of one.
LEMMA NothingType == NoVisits \in [Dates -> VisitStatus] /\ NoSchedule \in Schedule
BY DatesType DEF NoVisits, VisitStatus, NoSchedule, Schedule

\* What a generation means to make is dates of the calendar.
LEMMA DueType ==
    ASSUME NEW row \in Schedule
    PROVE  Due(row) \in SUBSET Dates
BY DEF Due, Expanded, Targets, Schedule

\* Every variable keeps its type, in one step on a single occurrence.
LEMMA OccurrenceType ==
    ASSUME RecurringTypeOK, NEW d \in Dates, OccurrenceStep(d)
    PROVE  RecurringTypeOK'
<1> USE DEF RecurringTypeOK
<1>1. \A S, x : x \in Dates \/ x \in {Kept, Skipped}
               => [exception EXCEPT ![d] = x] \in [Dates -> {Kept, Skipped} \cup Dates]
  OBVIOUS
<1>2. \A ds : [e \in Dates |-> IF e \in ds THEN "cancelled" ELSE visit[e]] \in [Dates -> VisitStatus]
  BY DEF VisitStatus
<1>3. CASE Skip(d)
  BY <1>1, <1>3, VisitsType DEF Skip
<1>4. CASE SkipJob(d)
  <2>1. exception' \in [Dates -> {Kept, Skipped} \cup Dates]
    BY <1>4 DEF SkipJob
  <2>2. visit' \in [Dates -> VisitStatus] /\ takenOff' \subseteq Dates
    BY <1>2, <1>4 DEF SkipJob, Cancelled
  <2> QED BY <1>4, <2>1, <2>2 DEF SkipJob
<1>5. CASE UndoException(d)
  BY <1>1, <1>5 DEF UndoException
<1>6. CASE \E t \in Dates : Reschedule(d, t)
  <2>1. PICK t \in Dates : Reschedule(d, t)
    BY <1>6
  <2>2. exception' \in [Dates -> {Kept, Skipped} \cup Dates]
    BY <1>1, <2>1 DEF Reschedule
  <2> DEFINE left == IF t = d THEN visit ELSE Freed(visit, {d})
  <2>3. left \in [Dates -> VisitStatus]
    BY VisitsType
  <2>4. visit' = [left EXCEPT ![t] = IF @ = "completed" THEN @ ELSE "scheduled"]
    BY <2>1 DEF Reschedule
  <2> HIDE DEF left
  <2>5. visit' \in [Dates -> VisitStatus]
    BY <2>3, <2>4 DEF VisitStatus
  <2> QED BY <2>1, <2>2, <2>5 DEF Reschedule
<1>7. CASE \E status \in VisitStatus : VisitSet(d, status)
  BY <1>7 DEF VisitSet
<1> QED BY <1>3, <1>4, <1>5, <1>6, <1>7 DEF OccurrenceStep

\* Every variable keeps its type in every step.
LEMMA RecurringTypeStep ==
    ASSUME RecurringTypeOK, [RecurringNext]_recurringVars
    PROVE  RecurringTypeOK'
<1> USE DEF RecurringTypeOK
<1>1. \A ds : [e \in Dates |-> IF e \in ds THEN "cancelled" ELSE visit[e]] \in [Dates -> VisitStatus]
  BY DEF VisitStatus
<1>2. CASE GenerateRead \/ GenerateWrite
  <2>1. CASE GenerateRead
    BY <2>1, DueType DEF GenerateRead
  <2>2. CASE GenerateWrite
    BY <2>2, VisitsType DEF GenerateWrite, NoGeneration
  <2> QED BY <1>2, <2>1, <2>2
<1>3. CASE CleanUpOffPhase \/ CancelUpcoming
  BY <1>1, <1>3 DEF CleanUpOffPhase, CancelUpcoming, Cancelled, Upcoming
<1>4. CASE \E rule \in Rules, state \in {"active", "stopped"}, resync \in BOOLEAN :
             EditSeries(state, rule, resync)
  <2>1. PICK rule \in Rules, state \in {"active", "stopped"}, resync \in BOOLEAN :
          EditSeries(state, rule, resync)
    BY <1>4
  <2>2. series' \in Schedule
    BY <2>1, RecurringAssumption DEF EditSeries, Schedule
  <2>3. visit' \in [Dates -> VisitStatus]
    BY <2>1, VisitsType DEF EditSeries
  <2> QED BY <2>1, <2>2, <2>3 DEF EditSeries
<1>5. CASE CancelSeries
  BY <1>5 DEF CancelSeries, Schedule
<1>6. CASE DayEnds
  BY <1>6, RecurringAssumption DEF DayEnds, Dates
<1>7. ASSUME NEW rule \in Rules, CreateSeries(rule)
      PROVE  RecurringTypeOK'
  <2>1. series' \in Schedule
    BY <1>7, NothingType, RecurringAssumption DEF CreateSeries, Schedule
  <2> QED BY <1>7, <2>1, VisitsType DEF CreateSeries
<1>8. ASSUME NEW rule \in Rules, NEW x \in Dates, SplitSeries(x, rule)
      PROVE  RecurringTypeOK'
  <2>1. x \in 1..(LastDate + 1)
    BY DatesType
  <2>2. series' \in Schedule
    <3>1. [series EXCEPT !.until = x] \in Schedule
      BY <2>1 DEF Schedule
    <3>2. [NoSchedule EXCEPT !.state = "active", !.rule = rule, !.from = x] \in Schedule
      BY NothingType, RecurringAssumption DEF Schedule
    <3> QED BY <1>8, <3>1, <3>2 DEF SplitSeries
  <2>3. NoExceptions \in [Dates -> {Kept, Skipped} \cup Dates]
    BY DEF NoExceptions
  <2> QED BY <1>8, <2>2, <2>3, VisitsType, NothingType DEF SplitSeries
<1>9. CASE \E d \in Dates : OccurrenceStep(d)
  BY <1>9, OccurrenceType
<1>10. CASE UNCHANGED recurringVars
  BY <1>10 DEF recurringVars
<1> QED BY <1>2, <1>3, <1>4, <1>5, <1>6, <1>7, <1>8, <1>9, <1>10 DEF RecurringNext, SeriesStep

\* The types hold at the start.
LEMMA RecurringTypeInit == RecurringInit => RecurringTypeOK
BY NothingType, DatesType DEF RecurringInit, RecurringTypeOK, NoExceptions, NoGeneration

\* The series, its visits and its exceptions keep their types.
THEOREM RecurringTypeCorrect == RecurringSpec => []RecurringTypeOK
BY RecurringTypeInit, RecurringTypeStep, PTL DEF RecurringSpec

-----------------------------------------------------------------------------
(* What was moved stays where it was moved to *)

\* A visit on the date another was moved to is left alone by generation, by
\* every edit of the series and by the cleanup of off-phase visits, whatever
\* else is in flight.
THEOREM MovedStands == RecurringSpec => MovedVisitStands
<1> DEFINE Lost == \E t \in Targets : visit[t] = "scheduled" /\ visit'[t] # "scheduled"
<1>1. RecurringTypeOK /\ [RecurringNext]_recurringVars => (Lost => ~SeriesStep)
  <2> SUFFICES ASSUME RecurringTypeOK, NEW t \in Targets, visit[t] = "scheduled", SeriesStep
               PROVE  visit'[t] = "scheduled"
    OBVIOUS
  <2>1. t \in Dates
    BY DEF Targets
  <2>2. CASE GenerateRead \/ GenerateWrite
    BY <2>1, <2>2 DEF GenerateRead, GenerateWrite, Generated
  <2>3. CASE CleanUpOffPhase
    BY <2>1, <2>3 DEF CleanUpOffPhase, Cancelled
  <2>4. ASSUME NEW rule, NEW state, NEW resync, EditSeries(state, rule, resync)
        PROVE  visit'[t] = "scheduled"
    BY <2>1, <2>4 DEF EditSeries, Superseded, Generated
  <2> QED BY <2>2, <2>3, <2>4 DEF SeriesStep
<1>2. QED BY <1>1, RecurringTypeInit, RecurringTypeStep, PTL DEF RecurringSpec, MovedVisitStands

-----------------------------------------------------------------------------
(* What was taken off stays off.  A date that is free again after its visit *)
(* was taken off must be out of reach of every generation, the one in       *)
(* flight included: an exception hides it and no visit was moved to it.     *)

Hidden(d) == exception[d] # Kept /\ d \notin Targets

OffAndHidden ==
    \A d \in takenOff :
        /\ visit[d] # "scheduled"
        /\ visit[d] = "none" => Hidden(d) /\ d \notin generating.dates

\* Generating from hidden dates brings nothing back.
LEMMA GeneratedKeepsOff ==
    ASSUME NEW v \in [Dates -> VisitStatus], NEW dates, NEW d \in Dates,
           v[d] # "scheduled", v[d] = "none" => d \notin dates
    PROVE  Generated(v, dates)[d] = v[d]
BY DEF Generated

\* A hidden date is never due.
LEMMA HiddenIsNotDue ==
    ASSUME NEW d \in Dates, Hidden(d), NEW row
    PROVE  d \notin Due(row)
BY DEF Hidden, Due, Excepted

\* With an exception moved from d to x, the targets are the old ones and x.
LEMMA TargetsAfter ==
    ASSUME RecurringTypeOK, NEW d \in Dates, NEW x, exception' = [exception EXCEPT ![d] = x]
    PROVE  Targets' \subseteq Targets \cup {x}
BY DEF Targets, RecurringTypeOK

\* One step on an occurrence that nobody moved a visit to.
LEMMA OccurrenceKeepsOff ==
    ASSUME ~Overlaps, ~MovesAgain, RecurringTypeOK, OffAndHidden,
           generating.running \/ generating = NoGeneration,
           NEW d \in Dates, OccurrenceStep(d)
    PROVE  OffAndHidden'
<1> USE DEF RecurringTypeOK
<1>0. generating' = generating /\ generating.dates = {}
  BY DEF OccurrenceStep, Skip, SkipJob, UndoException, Reschedule, VisitSet, Turnstile, NoGeneration
<1>1. SUFFICES ASSUME NEW e \in takenOff'
               PROVE  visit'[e] # "scheduled" /\ (visit'[e] = "none" => Hidden(e)')
  BY <1>0 DEF OffAndHidden
<1>2. ASSUME e \in takenOff
      PROVE  visit[e] # "scheduled" /\ (visit[e] = "none" => Hidden(e))
  BY <1>2 DEF OffAndHidden
<1>3. CASE Skip(d)
  <2> DEFINE moved == {exception[d]} \cap Dates
  <2>1. e = d \/ (e \in takenOff /\ e \notin moved)
    BY <1>3 DEF Skip
  <2>2. d \notin Targets /\ exception' = [exception EXCEPT ![d] = Skipped]
    BY <1>3 DEF Skip, MayExcept
  <2>3. Targets' \subseteq Targets \cup {Skipped}
    BY <2>2, TargetsAfter
  <2>4. Skipped \notin Dates /\ Skipped # Kept /\ Targets' \subseteq Dates
    BY DEF Skipped, Kept, Dates, Targets
  <2>5. visit' = Freed(visit, {d} \cup moved)
    BY <1>3 DEF Skip
  <2>6. CASE e = d
    BY <2>2, <2>3, <2>4, <2>5, <2>6 DEF Freed, Hidden
  <2>7. CASE e # d /\ e \in takenOff /\ e \notin moved
    BY <1>2, <2>2, <2>3, <2>4, <2>5, <2>7 DEF Freed, Hidden
  <2> QED BY <2>1, <2>6, <2>7
<1>4. CASE SkipJob(d)
  <2>1. e = d \/ e \in takenOff
    BY <1>4 DEF SkipJob, Cancelled
  <2>2. visit' = [x \in Dates |-> IF x \in {d} THEN "cancelled" ELSE visit[x]]
    BY <1>4 DEF SkipJob, Cancelled
  <2>3. CASE e = d
    BY <2>2, <2>3
  <2>4. CASE e # d
    <3>1. exception' = [exception EXCEPT ![d] = IF @ = Kept THEN Skipped ELSE @]
      BY <1>4 DEF SkipJob
    <3>2. Targets' \subseteq Targets /\ exception'[e] = exception[e]
      BY <2>1, <2>4, <3>1 DEF Targets, Skipped, Kept, Dates
    <3> QED BY <1>2, <2>1, <2>2, <2>4, <3>2 DEF Hidden
  <2> QED BY <2>3, <2>4
<1>5. CASE UndoException(d)
  <2>1. e \in takenOff /\ e # d /\ visit' = visit /\ exception' = [exception EXCEPT ![d] = Kept]
    BY <1>5 DEF UndoException
  <2>2. Targets' \subseteq Targets /\ exception'[e] = exception[e]
    BY <2>1 DEF Targets, Kept, Dates
  <2> QED BY <1>2, <2>1, <2>2 DEF Hidden
<1>6. CASE \E t \in Dates : Reschedule(d, t)
  <2>1. PICK t \in Dates : Reschedule(d, t)
    BY <1>6
  <2>2. (e = d \/ e \in takenOff) /\ e # t /\ e \in Dates
    BY <2>1 DEF Reschedule
  <2>3. exception' = [exception EXCEPT ![d] = t] /\ d \notin Targets
    BY <2>1 DEF Reschedule, MayExcept
  <2>4. Targets' \subseteq Targets \cup {t}
    BY <2>3, TargetsAfter
  <2>5. visit'[e] = IF t = d THEN visit[e] ELSE Freed(visit, {d})[e]
    BY <2>1, <2>2 DEF Reschedule, Freed
  <2>6. CASE e = d
    <3>1. exception'[e] # Kept /\ e \notin Targets'
      BY <2>2, <2>3, <2>4, <2>6 DEF Kept, Dates
    <3>2. visit'[e] # "scheduled"
      BY <2>2, <2>5, <2>6 DEF Freed
    <3> QED BY <3>1, <3>2 DEF Hidden
  <2>7. CASE e # d
    <3>1. visit'[e] = visit[e] /\ exception'[e] = exception[e]
      BY <2>2, <2>3, <2>5, <2>7 DEF Freed
    <3> QED BY <1>2, <2>2, <2>4, <2>7, <3>1 DEF Hidden
  <2> QED BY <2>6, <2>7
<1>7. CASE \E status \in VisitStatus : VisitSet(d, status)
  <2>1. PICK status \in VisitStatus : VisitSet(d, status)
    BY <1>7
  <2>2. exception' = exception /\ Targets' = Targets
    BY <2>1 DEF VisitSet, Targets
  <2>3. visit' = [visit EXCEPT ![d] = status]
    BY <2>1 DEF VisitSet
  <2>4. \/ e \in takenOff /\ e # d
        \/ e = d /\ status = "cancelled"
    BY <2>1 DEF VisitSet
  <2> QED BY <1>2, <2>2, <2>3, <2>4 DEF Hidden
<1> QED BY <1>3, <1>4, <1>5, <1>6, <1>7 DEF OccurrenceStep

OffInv ==
    /\ RecurringTypeOK
    /\ generating.running \/ generating = NoGeneration
    /\ OffAndHidden

\* A step of the series, of the calendar or of one occurrence.
LEMMA OffStep ==
    ASSUME ~Overlaps, ~MovesAgain, OffInv, [RecurringNext]_recurringVars
    PROVE  OffInv'
<1> USE DEF OffInv
<1>0. RecurringTypeOK'
  BY RecurringTypeStep
<1>1. takenOff \subseteq Dates /\ visit \in [Dates -> VisitStatus] /\ series \in Schedule
  BY DEF RecurringTypeOK
\* A step that moves no exception only has to leave visits and dates alone.
<1>2. ASSUME exception' = exception, generating' = generating,
             \A d \in takenOff' : \/ d \in takenOff /\ visit'[d] = visit[d]
                                  \/ visit'[d] \in {"cancelled", "completed"}
      PROVE  OffAndHidden'
  BY <1>2 DEF OffAndHidden, Hidden, Targets
<1>3. CASE UNCHANGED recurringVars
  BY <1>0, <1>2, <1>3 DEF recurringVars
<1>4. CASE GenerateRead
  <2>1. \A d \in takenOff : visit[d] = "none" => d \notin Due(series)
    BY <1>1, HiddenIsNotDue DEF OffAndHidden
  <2> QED BY <1>0, <1>4, <2>1 DEF GenerateRead, OffAndHidden, Hidden, Targets
<1>5. CASE GenerateWrite
  <2>1. \A d \in takenOff : visit'[d] = visit[d]
    BY <1>1, <1>5, GeneratedKeepsOff DEF GenerateWrite, OffAndHidden
  <2> QED BY <1>0, <1>5, <2>1 DEF GenerateWrite, OffAndHidden, Hidden, Targets, NoGeneration
<1>6. CASE CleanUpOffPhase \/ CancelUpcoming
  <2>1. PICK ds \in SUBSET Upcoming : Cancelled(ds)
    BY <1>6 DEF CleanUpOffPhase, CancelUpcoming
  <2>2. \A d \in takenOff' : \/ d \in takenOff /\ visit'[d] = visit[d]
                             \/ visit'[d] \in {"cancelled", "completed"}
    BY <1>1, <2>1 DEF Cancelled, Upcoming
  <2> QED BY <1>0, <1>2, <1>6, <2>2 DEF CleanUpOffPhase, CancelUpcoming
\* Superseding takes away scheduled visits only, and hidden dates are not due.
<1>7. ASSUME NEW row, NEW from, NEW protected, NEW d \in takenOff
      PROVE  Generated(Superseded(visit, from, protected), Due(row))[d] = visit[d]
  <2>1. Superseded(visit, from, protected) \in [Dates -> VisitStatus]
    BY <1>1, VisitsType
  <2>2. Superseded(visit, from, protected)[d] = visit[d]
    BY <1>1 DEF Superseded, OffAndHidden
  <2>3. visit[d] = "none" => d \notin Due(row)
    BY <1>1, HiddenIsNotDue DEF OffAndHidden
  <2> QED BY <1>1, <2>1, <2>2, <2>3, GeneratedKeepsOff DEF OffAndHidden
<1>8. ASSUME NEW rule, NEW state, NEW resync, EditSeries(state, rule, resync)
      PROVE  OffInv'
  <2>1. \A d \in takenOff : visit'[d] = visit[d]
    BY <1>7, <1>8 DEF EditSeries
  <2> QED BY <1>0, <1>2, <1>8, <2>1 DEF EditSeries
<1>9. CASE CancelSeries \/ DayEnds
  BY <1>0, <1>2, <1>9 DEF CancelSeries, DayEnds
<1>10. ASSUME NEW rule, CreateSeries(rule)
       PROVE  OffInv'
  <2>1. \A d \in takenOff : visit'[d] = visit[d]
    <3> SUFFICES ASSUME NEW d \in takenOff PROVE visit'[d] = visit[d]
      OBVIOUS
    <3>1. d \in Dates /\ visit[d] # "scheduled" /\ (visit[d] = "none" => d \notin Due(series'))
      BY <1>1, HiddenIsNotDue DEF OffAndHidden
    <3>2. visit' = Generated(visit, Due(series'))
      BY <1>10 DEF CreateSeries
    <3> QED BY <1>1, <3>1, <3>2, GeneratedKeepsOff
  <2> QED BY <1>0, <1>2, <1>10, <2>1 DEF CreateSeries
<1>11. ASSUME NEW rule, NEW x, SplitSeries(x, rule)
       PROVE  OffInv'
  <2>1. CASE takenOff' = {}
    BY <1>0, <1>11, <2>1 DEF SplitSeries, OffAndHidden
  <2>2. CASE visit' = Superseded(visit, x, Excepted) /\ UNCHANGED <<exception, takenOff>>
    <3>1. \A d \in takenOff : visit'[d] = visit[d]
      BY <1>1, <2>2 DEF Superseded, OffAndHidden
    <3> QED BY <1>0, <1>2, <1>11, <2>2, <3>1 DEF SplitSeries
  <2> QED BY <1>11, <2>1, <2>2 DEF SplitSeries
<1>12. CASE \E d \in Dates : OccurrenceStep(d)
  <2>1. OffAndHidden'
    BY <1>12, OccurrenceKeepsOff
  <2>2. generating' = generating
    BY <1>12 DEF OccurrenceStep, Skip, SkipJob, UndoException, Reschedule, VisitSet
  <2> QED BY <1>0, <2>1, <2>2
<1> QED BY <1>3, <1>4, <1>5, <1>6, <1>8, <1>9, <1>10, <1>11, <1>12 DEF RecurringNext, SeriesStep

\* A visit that was skipped, moved away or cancelled is never brought back, for
\* any calendar, rule and number of exceptions, by any sequence of generations,
\* edits, pauses and splits, as long as each generation finishes before the next
\* request and no visit is put on a date where one was moved to.
THEOREM OffStaysOff ==
    ASSUME ~Overlaps, ~MovesAgain
    PROVE  RecurringSpec => []TakenOffStaysOff
<1>1. RecurringInit => OffInv
  BY RecurringTypeInit DEF RecurringInit, OffInv, OffAndHidden
<1>2. OffInv /\ [RecurringNext]_recurringVars => OffInv'
  BY OffStep
<1>3. OffInv => TakenOffStaysOff
  BY DEF OffInv, OffAndHidden, TakenOffStaysOff
<1> QED BY <1>1, <1>2, <1>3, PTL DEF RecurringSpec

-----------------------------------------------------------------------------
(* The owner of a route *)

\* The tables are tables.
RouteShape ==
    /\ {"status", "owner", "accepted"} \subseteq DOMAIN route
    /\ stop = [h \in Houses |-> stop[h]]
    /\ editing = [e \in Editors |-> editing[e]]

\* One office request at a time has the route loaded, and has it as it is.
SeenIsCurrent ==
    /\ \A e \in Editors : editing[e].on => editing[e].seen = route /\ route.status # "absent"
    /\ \A e, f \in Editors : editing[e].on /\ editing[f].on => e = f

\* A route nobody has taken is one nobody ever took: an active route never goes
\* back to the office, and a draft that was never active can be thrown away.
TakenOnce == route.status \in {"absent", "draft", "offered"} => taker = NoSub

RouteInv == RouteShape /\ SeenIsCurrent /\ TakenOnce /\ OwnerTookIt

\* An office request that commits makes the route what it meant to make of it,
\* and nobody has it loaded any more.
LEMMA CommitsTheNew ==
    ASSUME RouteInv, NEW e \in Editors, NEW new, DOMAIN new = DOMAIN route, Commits(e, new)
    PROVE  /\ editing[e].seen = route
           /\ DOMAIN route' = DOMAIN route
           /\ \A k \in DOMAIN route : route'[k] = new[k]
           /\ editing' = [f \in Editors |-> editing'[f]]
           /\ \A f \in Editors : ~editing'[f].on
           /\ stop' = stop /\ taker' = taker
BY DEF Commits, RouteInv, RouteShape, SeenIsCurrent, NotEditing

\* A commit that leaves the owner and the acceptance, or ends the route, or offers
\* a route that was never taken, keeps the invariant.
LEMMA CommitKeeps ==
    ASSUME RouteInv, NEW e \in Editors, NEW new, DOMAIN new = DOMAIN route, Commits(e, new),
           \/ /\ new.status = route.status
              /\ new.owner = route.owner /\ new.accepted = route.accepted
           \/ new.status = "ended"
           \/ new.status = "offered" /\ route.status \in {"draft", "offered"}
    PROVE  RouteInv'
<1>1. /\ DOMAIN route' = DOMAIN route
      /\ route'.status = new.status /\ route'.owner = new.owner /\ route'.accepted = new.accepted
      /\ editing' = [f \in Editors |-> editing'[f]]
      /\ \A f \in Editors : ~editing'[f].on
      /\ stop' = stop /\ taker' = taker
  BY CommitsTheNew DEF RouteInv, RouteShape
<1> QED BY <1>1 DEF RouteInv, RouteShape, SeenIsCurrent, TakenOnce, OwnerTookIt

\* The office keeps the invariant.
LEMMA EditorKeeps ==
    ASSUME RouteInv, RouteRaces = FALSE, NEW e \in Editors,
           \/ LoadRoute(e) \/ UpdateRoute(e) \/ EndRoute(e) \/ DeleteDraft(e) \/ EditRefused(e)
           \/ \E c \in Subs : Offer(e, c)
    PROVE  RouteInv'
<1> USE DEF RouteInv
<1>1. CASE LoadRoute(e)
  <2>1. /\ route' = route /\ stop' = stop /\ taker' = taker /\ route.status # "absent"
        /\ \A f \in Editors : ~editing[f].on
        /\ editing' = [editing EXCEPT ![e] = [on |-> TRUE, seen |-> route]]
    BY <1>1 DEF LoadRoute, NobodyEdits
  <2>2. \A f \in Editors : editing'[f] = IF f = e THEN [on |-> TRUE, seen |-> route] ELSE editing[f]
    BY <2>1 DEF RouteShape
  <2>3. editing' = [f \in Editors |-> editing'[f]]
    BY <2>1 DEF RouteShape
  <2> QED BY <2>1, <2>2, <2>3 DEF RouteShape, SeenIsCurrent, TakenOnce, OwnerTookIt
<1>2. CASE UpdateRoute(e)
  <2>0. editing[e].seen = route
    BY <1>2 DEF UpdateRoute, Commits, SeenIsCurrent
  <2>1. ASSUME NEW rate \in Rates, Commits(e, [editing[e].seen EXCEPT !.rate = rate])
        PROVE  RouteInv'
    <3> DEFINE new == [route EXCEPT !.rate = rate]
    <3>1. DOMAIN new = DOMAIN route /\ new.status = route.status
          /\ new.owner = route.owner /\ new.accepted = route.accepted
      BY DEF RouteShape
    <3>2. Commits(e, new)
      BY <2>0, <2>1
    <3> HIDE DEF new
    <3> QED BY <3>1, <3>2, CommitKeeps
  <2>2. ASSUME NEW ms \in Drives, Commits(e, [editing[e].seen EXCEPT !.members = ms])
        PROVE  RouteInv'
    <3> DEFINE new == [route EXCEPT !.members = ms]
    <3>1. DOMAIN new = DOMAIN route /\ new.status = route.status
          /\ new.owner = route.owner /\ new.accepted = route.accepted
      BY DEF RouteShape
    <3>2. Commits(e, new)
      BY <2>0, <2>2
    <3> HIDE DEF new
    <3> QED BY <3>1, <3>2, CommitKeeps
  <2> QED BY <1>2, <2>1, <2>2 DEF UpdateRoute
<1>3. CASE EndRoute(e)
  <2> DEFINE new == [route EXCEPT !.status = "ended"]
  <2>1. DOMAIN new = DOMAIN route /\ new.status = "ended"
    BY DEF RouteShape
  <2>2. Commits(e, new)
    BY <1>3 DEF EndRoute, Commits, SeenIsCurrent
  <2> HIDE DEF new
  <2> QED BY <2>1, <2>2, CommitKeeps
<1>4. CASE DeleteDraft(e)
  <2>1. /\ route.status = "draft" /\ stop' = stop /\ taker' = taker
        /\ route' = NoRoute /\ editing' = [editing EXCEPT ![e] = NotEditing]
    BY <1>4 DEF DeleteDraft, SeenIsCurrent
  <2>2. /\ route'.status = "absent" /\ {"status", "owner", "accepted"} \subseteq DOMAIN route'
        /\ editing' = [f \in Editors |-> editing'[f]] /\ \A f \in Editors : ~editing'[f].on
    <3>1. route'.status = "absent" /\ {"status", "owner", "accepted"} \subseteq DOMAIN route'
      BY <2>1 DEF NoRoute
    <3>2. editing[e].on /\ editing' = [f \in Editors |-> editing'[f]]
      BY <1>4, <2>1 DEF DeleteDraft, RouteShape
    <3>3. \A f \in Editors : ~editing'[f].on
      BY <2>1, <3>2 DEF NotEditing, RouteShape, SeenIsCurrent
    <3> QED BY <3>1, <3>2, <3>3
  <2> QED BY <2>1, <2>2 DEF RouteShape, SeenIsCurrent, TakenOnce, OwnerTookIt
<1>5. CASE EditRefused(e)
  <2>1. /\ route' = route /\ stop' = stop /\ taker' = taker
        /\ editing' = [f \in Editors |-> editing'[f]] /\ \A f \in Editors : ~editing'[f].on
    BY <1>5 DEF EditRefused, NotEditing, RouteShape, SeenIsCurrent
  <2> QED BY <2>1 DEF RouteShape, SeenIsCurrent, TakenOnce, OwnerTookIt
<1>6. ASSUME NEW c \in Subs, Offer(e, c)
      PROVE  RouteInv'
  <2> DEFINE new == [route EXCEPT !.owner = c, !.status = "offered", !.accepted = FALSE]
  <2>1. DOMAIN new = DOMAIN route /\ new.status = "offered"
    BY DEF RouteShape
  <2>2. Commits(e, new) /\ route.status \in {"draft", "offered"}
    <3>1. editing[e].seen = route
      BY <1>6 DEF Offer, Commits, SeenIsCurrent
    <3> QED BY <1>6, <3>1 DEF Offer
  <2> HIDE DEF new
  <2> QED BY <2>1, <2>2, CommitKeeps
<1> QED BY <1>1, <1>2, <1>3, <1>4, <1>5, <1>6

\* So do the subcontractors, the generator and the rest.
LEMMA OthersKeep ==
    ASSUME RouteInv, RouteRaces = FALSE,
           \/ CreateRoute \/ NextDate
           \/ \E c \in Subs : AcceptRoute(c) \/ DeclineRoute(c)
           \/ \E h \in Houses : HouseChanges(h) \/ GenerateStop(h)
    PROVE  RouteInv'
<1> USE DEF RouteInv
<1>1. CASE CreateRoute
  <2>1. PICK rate \in Rates, ms \in Drives :
          route' = [NoRoute EXCEPT !.status = "draft", !.rate = rate, !.members = ms]
    BY <1>1 DEF CreateRoute
  <2>2. route'.status = "draft" /\ {"status", "owner", "accepted"} \subseteq DOMAIN route'
    BY <2>1 DEF NoRoute
  <2>3. /\ stop' = stop /\ taker' = taker /\ editing' = editing /\ route.status = "absent"
        /\ \A f \in Editors : ~editing[f].on
    BY <1>1 DEF CreateRoute, NobodyEdits
  <2> QED BY <2>2, <2>3 DEF RouteShape, SeenIsCurrent, TakenOnce, OwnerTookIt
<1>2. CASE NextDate
  BY <1>2 DEF NextDate, NoStop, RouteShape, SeenIsCurrent, TakenOnce, OwnerTookIt
<1>3. ASSUME NEW c \in Subs, AcceptRoute(c)
      PROVE  RouteInv'
  <2>1. /\ route.status = "offered" /\ route.owner = c
        /\ route' = [route EXCEPT !.status = "active", !.accepted = TRUE] /\ taker' = c
        /\ stop' = stop /\ editing' = editing /\ \A f \in Editors : ~editing[f].on
    BY <1>3 DEF AcceptRoute, NobodyEdits
  <2>2. /\ route'.status = "active" /\ route'.accepted = TRUE /\ route'.owner = c
        /\ DOMAIN route' = DOMAIN route
    BY <2>1 DEF RouteShape
  <2>3. \A h \in Houses : stop[h].who = NoSub
    BY <2>1 DEF TakenOnce, OwnerTookIt
  <2> QED BY <2>1, <2>2, <2>3 DEF RouteShape, SeenIsCurrent, TakenOnce, OwnerTookIt
<1>4. ASSUME NEW c \in Subs, DeclineRoute(c)
      PROVE  RouteInv'
  <2>1. /\ route.status = "offered"
        /\ route' = [route EXCEPT !.status = "draft", !.owner = NoSub] /\ taker' = taker
        /\ stop' = stop /\ editing' = editing /\ \A f \in Editors : ~editing[f].on
    BY <1>4 DEF DeclineRoute, NobodyEdits
  <2>2. route'.status = "draft" /\ DOMAIN route' = DOMAIN route
    BY <2>1 DEF RouteShape
  <2> QED BY <2>1, <2>2 DEF RouteShape, SeenIsCurrent, TakenOnce, OwnerTookIt
<1>5. ASSUME NEW h \in Houses, HouseChanges(h)
      PROVE  RouteInv'
  BY <1>5 DEF HouseChanges, RouteShape, SeenIsCurrent, TakenOnce, OwnerTookIt
<1>6. ASSUME NEW h \in Houses, GenerateStop(h)
      PROVE  RouteInv'
  <2>1. PICK s : /\ stop' = [stop EXCEPT ![h] = s]
                 /\ s.who = NoSub \/ (route.status = "active" /\ s.who = route.owner)
    <3> DEFINE share == Share(route, h)
               priced == route.status = "active" /\ route.owner # NoSub /\ share > 0
               s == IF priced THEN [made |-> TRUE, who |-> route.owner, pay |-> share]
                    ELSE [NoStop EXCEPT !.made = TRUE]
    <3>1. stop' = [stop EXCEPT ![h] = s]
      BY <1>6 DEF GenerateStop
    <3>2. s.who = NoSub \/ (route.status = "active" /\ s.who = route.owner)
      <4> HIDE DEF share
      <4> QED BY DEF NoStop
    <3> HIDE DEF s
    <3> QED BY <3>1, <3>2
  <2>2. s.who \in {NoSub, taker}
    BY <2>1 DEF OwnerTookIt
  <2>3. UNCHANGED <<route, house, editing, taker>>
    BY <1>6 DEF GenerateStop
  <2>4. /\ stop' = [k \in Houses |-> stop'[k]]
        /\ \A k \in Houses : stop'[k] = IF k = h THEN s ELSE stop[k]
    BY <2>1 DEF RouteShape
  <2> QED BY <2>2, <2>3, <2>4 DEF RouteShape, SeenIsCurrent, TakenOnce, OwnerTookIt
<1> QED BY <1>1, <1>2, <1>3, <1>4, <1>5, <1>6

\* While nobody commits between the load and the commit of an office request, an
\* active route belongs to the person who took it and so does every visit priced
\* from it, however often it was offered, declined, edited, deleted and drawn again.
THEOREM RouteBelongsToTaker ==
    ASSUME RouteRaces = FALSE
    PROVE  RouteSpec => []OwnerTookIt
<1>1. RouteInit => RouteInv
  BY DEF RouteInit, RouteInv, RouteShape, SeenIsCurrent, TakenOnce, OwnerTookIt, NoRoute,
         NoStop, NotEditing
<1>2. RouteInv /\ [RouteNext]_routeVars => RouteInv'
  <2> SUFFICES ASSUME RouteInv, [RouteNext]_routeVars PROVE RouteInv'
    OBVIOUS
  <2>1. CASE UNCHANGED routeVars
    BY <2>1 DEF routeVars, RouteInv, RouteShape, SeenIsCurrent, TakenOnce, OwnerTookIt
  <2> QED BY <2>1, EditorKeeps, OthersKeep DEF RouteNext
<1>3. RouteInv => OwnerTookIt
  BY DEF RouteInv
<1> QED BY <1>1, <1>2, <1>3, PTL DEF RouteSpec

-----------------------------------------------------------------------------
(* What a route pays *)

\* The parts of SplitRate, by name.
Weights(row) == [i \in 1..Len(row.members) |-> Weight(row, i)]
Total(row) == MapThenSumSet(LAMBDA i : Weight(row, i), 1..Len(row.members))
Floors(row) == [i \in 1..Len(row.members) |-> (row.rate * Weight(row, i)) \div Total(row)]
FloorTotal(row) == MapThenSumSet(LAMBDA k : Floors(row)[k], 1..(Len(row.members) - 1))

\* A row whose houses are a drive and whose rate is a number of cents.
Priced(row) == row.members \in Drives /\ row.rate \in Nat

\* A drive lists its houses once each.
LEMMA DriveShape ==
    ASSUME NEW row, row.members \in Drives
    PROVE  /\ Len(row.members) \in Nat
           /\ row.members \in [1..Len(row.members) -> Houses]
           /\ \A i, j \in 1..Len(row.members) : row.members[i] = row.members[j] => i = j
<1>1. Cardinality(Houses) \in Nat
  BY RouteAssumption, FS_CardinalityType
<1>2. PICK n \in 0..Cardinality(Houses) : row.members \in [1..n -> Houses]
  BY DEF Drives
<1>3. n \in Nat
  BY <1>1, <1>2
<1>4. Len(row.members) = n
  BY <1>2, <1>3
<1> QED BY <1>2, <1>3, <1>4 DEF Drives

\* What SplitRate gives each house, in those terms.
LEMMA SplitIs ==
    ASSUME NEW row, row.members \in Drives
    PROVE  /\ DOMAIN SplitRate(row) = 1..Len(row.members)
           /\ \A i \in 1..Len(row.members) :
                 SplitRate(row)[i] = IF i < Len(row.members) THEN Floors(row)[i]
                                     ELSE row.rate - FloorTotal(row)
<1>1. SplitRate(row) = [i \in 1..Len(row.members) |->
                          IF i < Len(row.members) THEN Floors(row)[i]
                          ELSE row.rate - FloorTotal(row)]
  BY DEF SplitRate, Floors, FloorTotal, Total, MapThenSumSet, MapThenFoldSet
<1> QED BY <1>1

\* The total is a sum of the weights.
LEMMA TotalIs ==
    ASSUME NEW row, row.members \in Drives
    PROVE  \E sums : /\ SumsOf(sums, Weights(row), 1..Len(row.members))
                     /\ Total(row) = sums[1..Len(row.members)]
<1> DEFINE n == Len(row.members)
           Body(t) == t = [s \in SUBSET (1..n) |->
                             IF s = {} THEN 0
                             ELSE Weight(row, CHOOSE x \in s : TRUE) + t[s \ {CHOOSE x \in s : TRUE}]]
           h == CHOOSE t : Body(t)
<1>1. Total(row) = h[1..n]
  BY DEF Total, MapThenSumSet, MapThenFoldSet
<1>2. n \in Nat /\ IsFiniteSet(1..n)
  BY DriveShape, FS_Interval
<1>3. \A s \in SUBSET (1..n) : s # {} => (CHOOSE x \in s : TRUE) \in 1..n
  OBVIOUS
<1>4. \A t : Body(t) <=> SumsOf(t, Weights(row), 1..n)
  <2> TAKE t
  <2> DEFINE A(s) == IF s = {} THEN 0
                     ELSE Weight(row, CHOOSE x \in s : TRUE) + t[s \ {CHOOSE x \in s : TRUE}]
             B(s) == IF s = {} THEN 0
                     ELSE Weights(row)[CHOOSE x \in s : TRUE] + t[s \ {CHOOSE x \in s : TRUE}]
  <2>1. \A x \in 1..n : Weights(row)[x] = Weight(row, x)
    BY DEF Weights
  <2>2. \A s \in SUBSET (1..n) : A(s) = B(s)
    BY <1>3, <2>1
  <2>3. [s \in SUBSET (1..n) |-> A(s)] = [s \in SUBSET (1..n) |-> B(s)]
    <3> HIDE DEF A, B
    <3> QED BY <2>2
  <2>4. Body(t) <=> t = [s \in SUBSET (1..n) |-> A(s)]
    OBVIOUS
  <2>5. SumsOf(t, Weights(row), 1..n) <=> t = [s \in SUBSET (1..n) |-> B(s)]
    BY Zenon DEF SumsOf, Some
  <2> HIDE DEF A, B, Body
  <2> QED BY <2>3, <2>4, <2>5
<1>5. Body(h)
  <2>1. \E t : SumsOf(t, Weights(row), 1..n)
    BY <1>2, SumsExist
  <2>2. \E t : Body(t)
    <3> HIDE DEF Body
    <3> QED BY <1>4, <2>1
  <2> QED BY <2>2
<1> QED BY <1>1, <1>4, <1>5

\* What the houses before the last get is a sum of their shares.
LEMMA FloorTotalIs ==
    ASSUME NEW row, row.members \in Drives
    PROVE  \E sums : /\ SumsOf(sums, Floors(row), 1..(Len(row.members) - 1))
                     /\ FloorTotal(row) = sums[1..(Len(row.members) - 1)]
<1> DEFINE S == 1..(Len(row.members) - 1)
           h == CHOOSE t : SumsOf(t, Floors(row), S)
<1>1. FloorTotal(row) = h[S]
  BY DEF FloorTotal, MapThenSumSet, MapThenFoldSet, SumsOf, Some
<1>2. IsFiniteSet(S)
  BY DriveShape, FS_Interval
<1>3. SumsOf(h, Floors(row), S)
  <2>1. \E t : SumsOf(t, Floors(row), S)
    BY <1>2, SumsExist
  <2> QED BY <2>1
<1> QED BY <1>1, <1>3

\* House by house: what the i-th house of a drive has of a house's share.
Has(row, h) == [i \in 1..Len(row.members) |-> IF row.members[i] = h THEN SplitRate(row)[i] ELSE 0]

\* A share is a sum over the drive ...
LEMMA ShareSum ==
    ASSUME NEW row, row.members \in Drives, NEW h
    PROVE  \E sums : /\ SumsOf(sums, Has(row, h), 1..Len(row.members))
                     /\ Share(row, h) = sums[1..Len(row.members)]
<1> DEFINE S == DOMAIN row.members
           Part(i) == IF row.members[i] = h THEN SplitRate(row)[i] ELSE 0
           A(t, s) == IF s = {} THEN 0
                      ELSE Part(CHOOSE x \in s : TRUE) + t[s \ {CHOOSE x \in s : TRUE}]
           B(t, s) == IF s = {} THEN 0
                      ELSE Has(row, h)[CHOOSE x \in s : TRUE] + t[s \ {CHOOSE x \in s : TRUE}]
           Body(t) == t = [s \in SUBSET S |-> A(t, s)]
           g == CHOOSE t : Body(t)
<1>1. Share(row, h) = g[S]
  BY Zenon DEF Share, MapThenSumSet, MapThenFoldSet
<1>2. S = 1..Len(row.members) /\ IsFiniteSet(S)
  <2>1. S = 1..Len(row.members) /\ Len(row.members) \in Nat
    BY DriveShape
  <2>2. IsFiniteSet(1..Len(row.members))
    BY <2>1, FS_Interval
  <2> QED BY <2>1, <2>2
<1>3. \A s \in SUBSET S : s # {} => (CHOOSE x \in s : TRUE) \in S
  OBVIOUS
<1>4. \A x \in S : Has(row, h)[x] = Part(x)
  BY <1>2 DEF Has
<1>5. ASSUME NEW t PROVE Body(t) <=> SumsOf(t, Has(row, h), S)
  <2>1. \A s \in SUBSET S : A(t, s) = B(t, s)
    <3> HIDE DEF Part, S
    <3> QED BY <1>3, <1>4
  <2>2. [s \in SUBSET S |-> A(t, s)] = [s \in SUBSET S |-> B(t, s)]
    <3> HIDE DEF A, B
    <3> QED BY <2>1
  <2>3. SumsOf(t, Has(row, h), S) <=> t = [s \in SUBSET S |-> B(t, s)]
    BY Zenon DEF SumsOf, Some
  <2> HIDE DEF A, B, S
  <2> QED BY <2>2, <2>3
<1>6. Body(g)
  <2>1. \E t : SumsOf(t, Has(row, h), S)
    BY <1>2, SumsExist
  <2>2. \E t : Body(t)
    <3> HIDE DEF Body, S
    <3> QED BY <1>5, <2>1
  <2> QED BY <2>2
<1>7. SumsOf(g, Has(row, h), S)
  BY <1>5, <1>6
<1> QED BY <1>1, <1>2, <1>7

\* What each house of a route has of its rate.
Shares(row) == [h \in Members(row) |-> Share(row, h)]

\* ... and the pay of the whole block a sum over its houses.
LEMMA SharesSum ==
    ASSUME NEW row, row.members \in Drives
    PROVE  /\ IsFiniteSet(Members(row))
           /\ \E sums : /\ SumsOf(sums, Shares(row), Members(row))
                        /\ MapThenSumSet(LAMBDA h : Share(row, h), Members(row)) = sums[Members(row)]
<1> DEFINE S == Members(row)
           A(t, s) == IF s = {} THEN 0
                      ELSE Share(row, CHOOSE x \in s : TRUE) + t[s \ {CHOOSE x \in s : TRUE}]
           B(t, s) == IF s = {} THEN 0
                      ELSE Shares(row)[CHOOSE x \in s : TRUE] + t[s \ {CHOOSE x \in s : TRUE}]
           Body(t) == t = [s \in SUBSET S |-> A(t, s)]
           g == CHOOSE t : Body(t)
<1>1. MapThenSumSet(LAMBDA h : Share(row, h), Members(row)) = g[S]
  BY Zenon DEF MapThenSumSet, MapThenFoldSet
<1>2. IsFiniteSet(S)
  <2>1. Members(row) \subseteq Houses
    BY DriveShape DEF Members
  <2> QED BY <2>1, RouteAssumption, FS_Subset
<1>3. \A s \in SUBSET S : s # {} => (CHOOSE x \in s : TRUE) \in S
  OBVIOUS
<1>4. \A x \in S : Shares(row)[x] = Share(row, x)
  BY DEF Shares
<1>5. ASSUME NEW t PROVE Body(t) <=> SumsOf(t, Shares(row), S)
  <2>1. \A s \in SUBSET S : A(t, s) = B(t, s)
    <3> HIDE DEF S
    <3> QED BY <1>3, <1>4
  <2>2. [s \in SUBSET S |-> A(t, s)] = [s \in SUBSET S |-> B(t, s)]
    <3> HIDE DEF A, B
    <3> QED BY <2>1
  <2>3. SumsOf(t, Shares(row), S) <=> t = [s \in SUBSET S |-> B(t, s)]
    BY Zenon DEF SumsOf, Some
  <2> HIDE DEF A, B, S
  <2> QED BY <2>2, <2>3
<1>6. Body(g)
  <2>1. \E t : SumsOf(t, Shares(row), S)
    BY <1>2, SumsExist
  <2>2. \E t : Body(t)
    <3> HIDE DEF Body, S
    <3> QED BY <1>5, <2>1
  <2> QED BY <2>2
<1>7. SumsOf(g, Shares(row), S)
  BY <1>5, <1>6
<1> QED BY <1>1, <1>2, <1>7

-----------------------------------------------------------------------------
(* The arithmetic *)

\* Rounding down a share takes no more than the share.
LEMMA DivFloor ==
    ASSUME NEW a \in Nat, NEW b \in Nat, b > 0
    PROVE  (a \div b) \in Nat /\ (a \div b) * b <= a
OBVIOUS

\* Two shares that fit their weights fit them together.
LEMMA Distribute ==
    ASSUME NEW x \in Nat, NEW y \in Nat, NEW t \in Nat, NEW r \in Nat, NEW u \in Nat, NEW v \in Nat,
           x * t <= r * u, y * t <= r * v
    PROVE  (x + y) * t <= r * (u + v)
<1>1. (x + y) * t = x * t + y * t
  OBVIOUS
<1>2. r * (u + v) = r * u + r * v
  OBVIOUS
<1>3. x * t \in Nat /\ y * t \in Nat /\ r * u \in Nat /\ r * v \in Nat
  OBVIOUS
<1> QED BY <1>1, <1>2, <1>3

\* What fits a part of the weight fits the rate.
LEMMA CancelFactor ==
    ASSUME NEW x \in Nat, NEW r \in Nat, NEW t \in Nat, NEW u \in Nat, t > 0, u <= t, x * t <= r * u
    PROVE  x <= r
<1>1. r * u <= r * t
  OBVIOUS
<1>2. x * t <= r * t
  BY <1>1
<1> SUFFICES ASSUME x >= r + 1 PROVE FALSE
  OBVIOUS
<1>3. x * t >= (r + 1) * t
  OBVIOUS
<1>4. (r + 1) * t = r * t + t
  OBVIOUS
<1> QED BY <1>2, <1>3, <1>4

\* Every house has a length.
HousesOK == house \in [Houses -> [minutes: Lengths, active: BOOLEAN]]

\* A house weighs something.
LEMMA WeightIs ==
    ASSUME NEW row, row.members \in Drives, HousesOK, NEW i \in 1..Len(row.members)
    PROVE  Weight(row, i) \in Nat /\ Weight(row, i) > 0
<1>1. row.members[i] \in Houses /\ row.members[i] \in Members(row)
  BY DriveShape DEF Members
<1>2. house[row.members[i]].minutes \in Nat
  BY <1>1, RouteAssumption DEF HousesOK
<1> QED BY <1>1, <1>2 DEF Weight

\* The shares rounded down are no more than the rate.
LEMMA FloorsFit ==
    ASSUME NEW row, Priced(row), HousesOK, Len(row.members) > 0
    PROVE  /\ FloorTotal(row) \in Nat /\ FloorTotal(row) <= row.rate
           /\ \A i \in 1..Len(row.members) : Floors(row)[i] \in Nat
<1> DEFINE n == Len(row.members)
           W == Weights(row)
           F == Floors(row)
           T == Total(row)
           r == row.rate
<1>1. n \in Nat /\ n > 0 /\ row.members \in Drives /\ r \in Nat
  BY DriveShape DEF Priced
<1>2. PICK ws : SumsOf(ws, W, 1..n) /\ T = ws[1..n]
  BY <1>1, TotalIs
<1>3. PICK fs : SumsOf(fs, F, 1..(n - 1)) /\ FloorTotal(row) = fs[1..(n - 1)]
  BY <1>1, FloorTotalIs
<1>4. \A i \in 1..n : W[i] \in Nat /\ W[i] > 0 /\ W[i] = Weight(row, i)
  BY <1>1, WeightIs DEF Weights
<1>5. \A i \in 1..n : F[i] = (r * W[i]) \div T
  BY <1>4 DEF Floors
<1> HIDE DEF n, W, F, T, r
<1>6. \A k \in 0..n : ws[1..k] \in Nat /\ \A j \in 0..k : ws[1..j] <= ws[1..k]
  BY <1>1, <1>2, <1>4, SumsGrow
<1>7. T \in Nat /\ T > 0
  <2>1. n - 1 \in Nat /\ (n - 1) + 1 <= n /\ (n - 1) + 1 = n
    BY <1>1
  <2>2. \A i \in 1..n : W[i] \in Int
    BY <1>4
  <2>3. ws[1..((n - 1) + 1)] = ws[1..(n - 1)] + W[(n - 1) + 1]
    BY <1>1, <1>2, <2>1, <2>2, SumOfOneMore
  <2>4. ws[1..n] = ws[1..(n - 1)] + W[n] /\ ws[1..(n - 1)] \in Nat /\ W[n] \in Nat /\ W[n] > 0
    BY <1>1, <1>4, <1>6, <2>1, <2>3
  <2> QED BY <1>2, <2>4
<1>8. \A i \in 1..n : F[i] \in Nat /\ F[i] * T <= r * W[i]
  <2> TAKE i \in 1..n
  <2>1. W[i] \in Nat /\ F[i] = (r * W[i]) \div T
    BY <1>4, <1>5
  <2>2. r * W[i] \in Nat
    BY <1>1, <2>1
  <2> QED BY <1>7, <2>1, <2>2, DivFloor
<1>9. n - 1 \in Nat /\ \A i \in 1..(n - 1) : F[i] \in Nat
  BY <1>1, <1>8
<1>10. \A k \in 0..(n - 1) : fs[1..k] \in Nat
  BY <1>3, <1>9, SumsGrow
<1> DEFINE P == {k \in Nat : k <= n - 1 => fs[1..k] * T <= r * ws[1..k]}
<1>11. P = Nat
  <2>1. 0 \in P
    <3>1. 1..0 = {} /\ {} \in SUBSET (1..n) /\ {} \in SUBSET (1..(n - 1))
      OBVIOUS
    <3>2. fs[{}] = 0 /\ ws[{}] = 0
      BY <1>2, <1>3, <3>1 DEF SumsOf
    <3>3. 0 * T <= r * 0
      BY <1>1, <1>7
    <3> QED BY <3>1, <3>2, <3>3
  <2>2. ASSUME NEW k \in P PROVE k + 1 \in P
    <3> SUFFICES ASSUME k + 1 <= n - 1
                 PROVE  fs[1..(k + 1)] * T <= r * ws[1..(k + 1)]
      OBVIOUS
    <3>1. k \in Nat /\ k <= n - 1 /\ k + 1 <= n /\ k \in 0..n /\ k \in 0..(n - 1) /\ k + 1 \in 1..n
      BY <1>1
    <3>2. fs[1..k] * T <= r * ws[1..k]
      BY <3>1
    <3>3. fs[1..(k + 1)] = fs[1..k] + F[k + 1]
      <4>1. \A i \in 1..(n - 1) : F[i] \in Int
        BY <1>9
      <4> QED BY <1>3, <1>9, <3>1, <4>1, SumOfOneMore
    <3>4. ws[1..(k + 1)] = ws[1..k] + W[k + 1]
      <4>1. \A i \in 1..n : W[i] \in Int
        BY <1>4
      <4> QED BY <1>1, <1>2, <3>1, <4>1, SumOfOneMore
    <3>5. fs[1..k] \in Nat /\ ws[1..k] \in Nat /\ F[k + 1] \in Nat /\ W[k + 1] \in Nat
          /\ F[k + 1] * T <= r * W[k + 1]
      BY <1>4, <1>6, <1>8, <1>10, <3>1
    <3>6. (fs[1..k] + F[k + 1]) * T <= r * (ws[1..k] + W[k + 1])
      BY <1>1, <1>7, <3>2, <3>5, Distribute
    <3> QED BY <3>3, <3>4, <3>6
  <2> HIDE DEF P
  <2>3. P \in SUBSET Nat
    BY DEF P
  <2> QED BY <2>1, <2>2, <2>3, Induction
<1>12. fs[1..(n - 1)] * T <= r * ws[1..(n - 1)]
  <2>1. n - 1 \in P /\ n - 1 <= n - 1
    BY <1>9, <1>11
  <2> QED BY <2>1
<1>13. fs[1..(n - 1)] \in Nat /\ ws[1..(n - 1)] \in Nat /\ ws[1..(n - 1)] <= T
  <2>1. n - 1 \in 0..(n - 1) /\ n - 1 \in 0..n /\ n \in 0..n
    BY <1>1
  <2> QED BY <1>2, <1>6, <1>10, <2>1
<1>14. fs[1..(n - 1)] <= r
  BY <1>1, <1>7, <1>12, <1>13, CancelFactor
<1> QED BY <1>3, <1>8, <1>13, <1>14 DEF n, F, r

\* Every house of a drive has its own share.
LEMMA ShareOfHouse ==
    ASSUME NEW row, Priced(row), HousesOK, NEW i \in 1..Len(row.members)
    PROVE  Share(row, row.members[i]) = SplitRate(row)[i] /\ SplitRate(row)[i] \in Nat
<1> DEFINE n == Len(row.members)
           h == row.members[i]
           f == Has(row, h)
           P == {k \in Nat : k <= n => \A s : SumsOf(s, f, 1..n) =>
                                s[1..k] = IF k < i THEN 0 ELSE SplitRate(row)[i]}
<1>1. /\ row.members \in Drives /\ row.rate \in Nat /\ n \in Nat /\ n > 0 /\ i \in 1..n
      /\ \A j \in 1..n : row.members[j] = h => j = i
  BY DriveShape DEF Priced
<1>2. \A j \in 1..n : SplitRate(row)[j] \in Nat
  <2>1. /\ FloorTotal(row) \in Nat /\ FloorTotal(row) <= row.rate
        /\ \A j \in 1..Len(row.members) : Floors(row)[j] \in Nat
    BY <1>1, FloorsFit
  <2> QED BY <1>1, <2>1, SplitIs
<1>3. \A j \in 1..n : f[j] = IF j = i THEN SplitRate(row)[i] ELSE 0
  BY <1>1 DEF Has
<1> HIDE DEF n, h, f
<1>4. \A j \in 1..n : f[j] \in Int
  BY <1>1, <1>2, <1>3
<1>5. P = Nat
  <2>1. 0 \in P
    <3>1. 1..0 = {} /\ {} \in SUBSET (1..n) /\ 0 < i
      BY <1>1
    <3>2. \A s : SumsOf(s, f, 1..n) => s[{}] = 0
      BY <3>1 DEF SumsOf
    <3> QED BY <3>1, <3>2
  <2>2. ASSUME NEW k \in P PROVE k + 1 \in P
    <3> SUFFICES ASSUME k + 1 <= n, NEW s, SumsOf(s, f, 1..n)
                 PROVE  s[1..(k + 1)] = IF k + 1 < i THEN 0 ELSE SplitRate(row)[i]
      OBVIOUS
    <3>1. k \in Nat /\ k <= n /\ k + 1 \in 1..n
      BY <1>1
    <3>2. s[1..k] = IF k < i THEN 0 ELSE SplitRate(row)[i]
      BY <3>1
    <3>3. s[1..(k + 1)] = s[1..k] + f[k + 1]
      BY <1>1, <1>4, <3>1, SumOfOneMore
    <3>4. f[k + 1] = IF k + 1 = i THEN SplitRate(row)[i] ELSE 0
      BY <1>3, <3>1
    <3> QED BY <1>1, <1>2, <3>1, <3>2, <3>3, <3>4
  <2> HIDE DEF P
  <2>3. P \in SUBSET Nat
    BY DEF P
  <2> QED BY <2>1, <2>2, <2>3, Induction
<1>6. PICK s : SumsOf(s, f, 1..n) /\ Share(row, h) = s[1..n]
  BY <1>1, ShareSum DEF f, n
<1>7. s[1..n] = SplitRate(row)[i]
  <2>1. n \in P /\ n <= n /\ ~(n < i)
    BY <1>1, <1>5
  <2> QED BY <1>6, <2>1
<1> QED BY <1>1, <1>2, <1>6, <1>7 DEF h

\* A house that is not on the route has nothing of it.
LEMMA ShareIsInt ==
    ASSUME NEW row, Priced(row), HousesOK, NEW h
    PROVE  Share(row, h) \in Int
<1>1. CASE \E i \in 1..Len(row.members) : h = row.members[i]
  BY <1>1, ShareOfHouse
<1>2. CASE \A i \in 1..Len(row.members) : h # row.members[i]
  <2> DEFINE S == 1..Len(row.members)
  <2>1. row.members \in Drives /\ IsFiniteSet(S)
    BY DriveShape, FS_Interval DEF Priced
  <2>2. PICK s : SumsOf(s, Has(row, h), S) /\ Share(row, h) = s[S]
    BY <2>1, ShareSum
  <2>3. \A i \in S : Has(row, h)[i] \in Int
    BY <1>2 DEF Has
  <2> HIDE DEF S
  <2>4. s[S] \in Int
    BY <2>1, <2>2, <2>3, SumsOfAny
  <2> QED BY <2>2, <2>4
<1> QED BY <1>1, <1>2

\* The shares of the houses of a route add up to its rate.
LEMMA SharesMakeTheRate ==
    ASSUME NEW row, Priced(row), HousesOK, row.members # <<>>
    PROVE  MapThenSumSet(LAMBDA h : Share(row, h), Members(row)) = row.rate
<1> DEFINE n == Len(row.members)
           m == row.members
           S == Members(row)
           g == Shares(row)
           F == Floors(row)
           Upto(k) == {m[i] : i \in 1..k}
<1>1. /\ m \in Drives /\ row.rate \in Nat /\ n \in Nat /\ DOMAIN m = 1..n
      /\ \A i, j \in 1..n : m[i] = m[j] => i = j
  BY DriveShape DEF Priced
<1>2. n > 0
  <2> SUFFICES ASSUME n = 0 PROVE FALSE
    BY <1>1
  <2>1. m = <<>>
    BY DriveShape, <1>1
  <2> QED BY <2>1
<1>3. S = Upto(n)
  BY <1>1 DEF Members
<1>4. /\ FloorTotal(row) \in Nat /\ FloorTotal(row) <= row.rate
      /\ \A i \in 1..n : F[i] \in Nat
  BY <1>2, FloorsFit
<1>5. PICK fs : SumsOf(fs, F, 1..(n - 1)) /\ FloorTotal(row) = fs[1..(n - 1)]
  BY <1>1, FloorTotalIs
<1>6. /\ IsFiniteSet(S)
      /\ \E sums : /\ SumsOf(sums, g, S)
                   /\ MapThenSumSet(LAMBDA h : Share(row, h), Members(row)) = sums[S]
  BY Zenon, <1>1, SharesSum
<1>7. \A i \in 1..n : m[i] \in S /\ g[m[i]] = SplitRate(row)[i] /\ SplitRate(row)[i] \in Nat
  <2> TAKE i \in 1..n
  <2>1. m[i] \in S
    BY <1>1 DEF Members
  <2>2. g[m[i]] = Share(row, m[i])
    BY <2>1 DEF Shares
  <2> QED BY <2>1, <2>2, ShareOfHouse
<1>8. \A i \in 1..n : SplitRate(row)[i] = IF i < n THEN F[i] ELSE row.rate - FloorTotal(row)
  BY <1>1, SplitIs
<1> SUFFICES ASSUME NEW sums, SumsOf(sums, g, S) PROVE sums[S] = row.rate
  BY Zenon, <1>6
<1> HIDE DEF n, m, g, F, S
<1>9. \A x \in S : g[x] \in Int
  <2> TAKE x \in S
  <2>1. PICK i \in 1..n : x = m[i]
    BY <1>3
  <2> QED BY <1>7, <2>1
<1>10. /\ sums[{}] = 0
       /\ \A s \in SUBSET S : sums[s] \in Int
       /\ \A s \in SUBSET S : \A a \in s : sums[s] = g[a] + sums[s \ {a}]
  BY <1>6, <1>9, SumsOfAny
<1>11. ASSUME NEW k \in Nat, k + 1 <= n
       PROVE  sums[Upto(k + 1)] = SplitRate(row)[k + 1] + sums[Upto(k)]
  <2>1. k + 1 \in 1..n /\ \A j \in 1..k : j \in 1..n /\ j # k + 1
    BY <1>1, <1>11
  <2>2. Upto(k + 1) = Upto(k) \cup {m[k + 1]}
    <3>1. \A j : j \in 1..(k + 1) <=> j \in 1..k \/ j = k + 1
      OBVIOUS
    <3> QED BY <3>1
  <2>3. m[k + 1] \notin Upto(k)
    BY <1>1, <2>1
  <2>4. Upto(k + 1) \in SUBSET S
    BY <1>7, <2>1, <2>2
  <2>5. Upto(k + 1) \ {m[k + 1]} = Upto(k) /\ m[k + 1] \in Upto(k + 1)
    BY <2>2, <2>3
  <2> HIDE DEF Upto
  <2>6. sums[Upto(k + 1)] = g[m[k + 1]] + sums[Upto(k + 1) \ {m[k + 1]}]
    BY <1>10, <2>4, <2>5
  <2> QED BY <1>7, <2>1, <2>5, <2>6
<1> DEFINE P == {k \in Nat : k <= n - 1 => sums[Upto(k)] = fs[1..k]}
<1>12. P = Nat
  <2>1. 0 \in P
    <3>1. 1..0 = {} /\ Upto(0) = {} /\ {} \in SUBSET (1..(n - 1))
      OBVIOUS
    <3>2. fs[{}] = 0
      BY <1>5, <3>1 DEF SumsOf
    <3> QED BY <1>10, <3>1, <3>2
  <2>2. ASSUME NEW k \in P PROVE k + 1 \in P
    <3> HIDE DEF Upto
    <3> SUFFICES ASSUME k + 1 <= n - 1
                 PROVE  sums[Upto(k + 1)] = fs[1..(k + 1)]
      OBVIOUS
    <3>1. k \in Nat /\ k <= n - 1 /\ k + 1 <= n /\ k + 1 \in 1..n /\ k + 1 < n /\ n - 1 \in Nat
      BY <1>1, <1>2
    <3>2. sums[Upto(k)] = fs[1..k]
      BY <3>1
    <3>3. \A i \in 1..(n - 1) : F[i] \in Int
      BY <1>1, <1>4
    <3>4. fs[1..(k + 1)] = fs[1..k] + F[k + 1] /\ fs[1..k] \in Int /\ F[k + 1] \in Int
      BY <1>5, <3>1, <3>3, SumOfOneMore
    <3>5. SplitRate(row)[k + 1] = F[k + 1]
      BY <1>8, <3>1
    <3>6. sums[Upto(k + 1)] = F[k + 1] + fs[1..k]
      BY <1>11, <3>1, <3>2, <3>5
    <3> QED BY <3>4, <3>6
  <2> HIDE DEF P
  <2>3. P \in SUBSET Nat
    BY DEF P
  <2> QED BY <2>1, <2>2, <2>3, Induction
<1>13. n - 1 \in Nat /\ (n - 1) + 1 = n /\ (n - 1) + 1 <= n /\ n \in 1..n /\ ~(n < n)
  BY <1>1, <1>2
<1> HIDE DEF Upto
<1>14. sums[Upto(n - 1)] = FloorTotal(row)
  <2>1. n - 1 \in P /\ n - 1 <= n - 1
    BY <1>12, <1>13
  <2> QED BY <1>5, <2>1
<1>15. sums[Upto(n)] = SplitRate(row)[n] + sums[Upto(n - 1)]
  <2>1. sums[Upto((n - 1) + 1)] = SplitRate(row)[(n - 1) + 1] + sums[Upto(n - 1)]
    BY <1>11, <1>13
  <2> QED BY <1>13, <2>1
<1>16. SplitRate(row)[n] = row.rate - FloorTotal(row)
  BY <1>8, <1>13
<1> QED BY <1>1, <1>3, <1>4, <1>14, <1>15, <1>16

-----------------------------------------------------------------------------
(* The types, and what the block pays *)

\* A row that is not there has the fields of one.
LEMMA NoRouteIsARoute == NoRoute \in Route
<1>1. <<>> \in Drives
  <2>1. Cardinality(Houses) \in Nat /\ 0 \in 0..Cardinality(Houses)
    BY RouteAssumption, FS_CardinalityType
  <2>2. <<>> \in [1..0 -> Houses]
    OBVIOUS
  <2> QED BY <2>1, <2>2 DEF Drives
<1>2. (CHOOSE r \in Rates : TRUE) \in Rates
  BY RouteAssumption
<1> QED BY <1>1, <1>2 DEF NoRoute, Route

\* The fields a commit writes are fields of a route.
LEMMA CommitsARoute ==
    ASSUME RouteTypeOK, NEW e \in Editors, NEW new \in Route, Commits(e, new)
    PROVE  RouteTypeOK'
<1>1. route \in Route /\ editing[e].seen \in Route
  BY DEF RouteTypeOK
<1>2. route' = [k \in DOMAIN route |-> IF new[k] # editing[e].seen[k] THEN new[k] ELSE route[k]]
  BY DEF Commits
<1>3. DOMAIN route = {"status", "owner", "accepted", "rate", "members"}
  BY <1>1 DEF Route
<1>4. route' = [status |-> route'.status, owner |-> route'.owner, accepted |-> route'.accepted,
                rate |-> route'.rate, members |-> route'.members]
  BY <1>2, <1>3
<1>5. \A k \in DOMAIN route : route'[k] = new[k] \/ route'[k] = route[k]
  BY <1>2
<1>6. route' \in Route
  <2>1. /\ route'.status = new.status \/ route'.status = route.status
        /\ route'.owner = new.owner \/ route'.owner = route.owner
        /\ route'.accepted = new.accepted \/ route'.accepted = route.accepted
        /\ route'.rate = new.rate \/ route'.rate = route.rate
        /\ route'.members = new.members \/ route'.members = route.members
    BY <1>3, <1>5
  <2>2. /\ route'.status \in {"absent", "draft", "offered", "active", "ended"}
        /\ route'.owner \in Subs \cup {NoSub} /\ route'.accepted \in BOOLEAN
        /\ route'.rate \in Rates /\ route'.members \in Drives
    BY <1>1, <2>1 DEF Route
  <2> QED BY <1>4, <2>2 DEF Route
<1>7. editing' \in [Editors -> [on: BOOLEAN, seen: Route]]
  <2>1. NotEditing \in [on: BOOLEAN, seen: Route]
    BY NoRouteIsARoute DEF NotEditing
  <2> QED BY <2>1 DEF Commits, RouteTypeOK
<1> QED BY <1>6, <1>7 DEF Commits, RouteTypeOK

\* A visit is priced, or is for nobody here.
LEMMA AStop ==
    ASSUME NEW priced \in BOOLEAN, NEW c \in Subs \cup {NoSub}, NEW share, priced => share \in Nat
    PROVE  (IF priced THEN [made |-> TRUE, who |-> c, pay |-> share]
            ELSE [NoStop EXCEPT !.made = TRUE]) \in Stop
<1>1. CASE priced
  BY <1>1 DEF Stop
<1>2. CASE ~priced
  BY <1>2 DEF Stop, NoStop
<1> QED BY <1>1, <1>2

\* Every step keeps the types.
LEMMA TypesKept ==
    ASSUME RouteTypeOK, [RouteNext]_routeVars
    PROVE  RouteTypeOK'
<1> USE DEF RouteTypeOK
<1>0. NoRoute \in Route /\ NotEditing \in [on: BOOLEAN, seen: Route] /\ NoStop \in Stop
  BY NoRouteIsARoute DEF NotEditing, NoStop, Stop
<1>1. CASE UNCHANGED routeVars
  BY <1>1 DEF routeVars
<1>2. CASE CreateRoute
  <2>1. PICK rate \in Rates, ms \in Drives :
          route' = [NoRoute EXCEPT !.status = "draft", !.rate = rate, !.members = ms]
    BY <1>2 DEF CreateRoute
  <2>2. route' \in Route
    BY <1>0, <2>1 DEF Route
  <2> QED BY <1>2, <2>2 DEF CreateRoute
<1>3. CASE NextDate
  BY <1>0, <1>3 DEF NextDate
<1>4. ASSUME NEW e \in Editors, \/ LoadRoute(e) \/ DeleteDraft(e) \/ EditRefused(e)
      PROVE  RouteTypeOK'
  <2>1. [on |-> TRUE, seen |-> route] \in [on: BOOLEAN, seen: Route]
    OBVIOUS
  <2>2. PICK row \in [on: BOOLEAN, seen: Route] : editing' = [editing EXCEPT ![e] = row]
    BY <1>0, <1>4, <2>1 DEF LoadRoute, DeleteDraft, EditRefused
  <2>3. editing' \in [Editors -> [on: BOOLEAN, seen: Route]]
    BY <2>2
  <2>4. route' \in Route /\ house' = house /\ stop' = stop /\ taker' = taker
    BY <1>0, <1>4 DEF LoadRoute, DeleteDraft, EditRefused
  <2> QED BY <2>3, <2>4
<1>5. ASSUME NEW e \in Editors, UpdateRoute(e) PROVE RouteTypeOK'
  <2>1. editing[e].seen \in Route
    OBVIOUS
  <2>2. \A rate \in Rates : [editing[e].seen EXCEPT !.rate = rate] \in Route
    BY <2>1 DEF Route
  <2>3. \A ms \in Drives : [editing[e].seen EXCEPT !.members = ms] \in Route
    BY <2>1 DEF Route
  <2>4. PICK new \in Route : Commits(e, new)
    BY <1>5, <2>2, <2>3 DEF UpdateRoute
  <2> QED BY <2>4, CommitsARoute
<1>6. ASSUME NEW e \in Editors, EndRoute(e) PROVE RouteTypeOK'
  <2>1. editing[e].seen \in Route
    OBVIOUS
  <2>2. [editing[e].seen EXCEPT !.status = "ended"] \in Route
    BY <2>1 DEF Route
  <2> QED BY <1>6, <2>2, CommitsARoute DEF EndRoute
<1>7. ASSUME NEW e \in Editors, NEW c \in Subs, Offer(e, c) PROVE RouteTypeOK'
  <2>1. editing[e].seen \in Route
    OBVIOUS
  <2>2. [editing[e].seen EXCEPT !.owner = c, !.status = "offered", !.accepted = FALSE] \in Route
    BY <2>1 DEF Route
  <2> QED BY <1>7, <2>2, CommitsARoute DEF Offer
<1>8. ASSUME NEW c \in Subs, AcceptRoute(c) \/ DeclineRoute(c) PROVE RouteTypeOK'
  <2>1. /\ [route EXCEPT !.status = "active", !.accepted = TRUE] \in Route
        /\ [route EXCEPT !.status = "draft", !.owner = NoSub] \in Route
    BY DEF Route
  <2> QED BY <1>8, <2>1 DEF AcceptRoute, DeclineRoute
<1>9. ASSUME NEW h \in Houses, HouseChanges(h) PROVE RouteTypeOK'
  BY <1>9 DEF HouseChanges
<1>10. ASSUME NEW h \in Houses, GenerateStop(h) PROVE RouteTypeOK'
  <2> DEFINE share == Share(route, h)
             priced == route.status = "active" /\ route.owner # NoSub /\ share > 0
             s == IF priced THEN [made |-> TRUE, who |-> route.owner, pay |-> share]
                  ELSE [NoStop EXCEPT !.made = TRUE]
  <2>1. share \in Int
    BY ShareIsInt, RouteAssumption DEF Priced, HousesOK, Route
  <2>2. stop' = [stop EXCEPT ![h] = s]
    BY <1>10 DEF GenerateStop
  <2>3. s \in Stop
    <3>1. route.owner \in Subs \cup {NoSub}
      BY DEF Route
    <3>2. priced \in BOOLEAN /\ (priced => share \in Nat)
      BY <2>1
    <3> HIDE DEF share, priced
    <3> QED BY <3>1, <3>2, AStop
  <2> HIDE DEF s
  <2> QED BY <1>10, <2>2, <2>3 DEF GenerateStop
<1> QED BY <1>1, <1>2, <1>3, <1>4, <1>5, <1>6, <1>7, <1>8, <1>9, <1>10 DEF RouteNext

\* Whatever the office does to a route and to its houses, in whatever order its
\* requests commit, and for any number of houses: the shares are cents of the rate,
\* none is negative, and they add up to it.
THEOREM RateIsShared == RouteSpec => []SharesAddUp
<1>1. RouteInit => RouteTypeOK
  <2> SUFFICES ASSUME RouteInit PROVE RouteTypeOK
    OBVIOUS
  <2>1. route \in Route /\ editing \in [Editors -> [on: BOOLEAN, seen: Route]]
    BY NoRouteIsARoute DEF RouteInit, NotEditing
  <2>2. house \in [Houses -> [minutes: Lengths, active: BOOLEAN]]
    <3>1. \A row \in [minutes: Lengths, active: {TRUE}] : row \in [minutes: Lengths, active: BOOLEAN]
      OBVIOUS
    <3>2. house \in [Houses -> [minutes: Lengths, active: {TRUE}]]
      BY DEF RouteInit
    <3> QED BY <3>1, <3>2
  <2>3. stop \in [Houses -> Stop] /\ taker \in Subs \cup {NoSub}
    BY DEF RouteInit, NoStop, Stop
  <2> QED BY <2>1, <2>2, <2>3 DEF RouteTypeOK
<1>2. RouteTypeOK /\ [RouteNext]_routeVars => RouteTypeOK'
  BY TypesKept
<1>3. RouteTypeOK => SharesAddUp
  <2> SUFFICES ASSUME RouteTypeOK PROVE SharesAddUp
    OBVIOUS
  <2>1. Priced(route) /\ HousesOK
    BY RouteAssumption DEF RouteTypeOK, Route, Priced, HousesOK
  <2>2. \A h \in Members(route) : Share(route, h) >= 0
    <3> TAKE h \in Members(route)
    <3>1. PICK i \in DOMAIN route.members : h = route.members[i]
      BY DEF Members
    <3>2. i \in 1..Len(route.members)
      BY <2>1, DriveShape DEF Priced
    <3>3. Share(route, h) \in Nat
      BY <2>1, <3>1, <3>2, ShareOfHouse
    <3> QED BY <3>3
  <2> QED BY Zenon, <2>1, <2>2, SharesMakeTheRate DEF SharesAddUp
<1> QED BY <1>1, <1>2, <1>3, PTL DEF RouteSpec

-----------------------------------------------------------------------------
(* Weeks *)

\* A week has days.
LEMMA WeekIs == Week \in Nat \ {0} /\ Week \in Nat /\ Week > 0
BY CadenceAssumption

\* The Monday of a date is the start of its week.
LEMMA MondayIs ==
    ASSUME NEW d \in Nat
    PROVE  /\ d \div Week \in Nat /\ Monday(d) = Week * (d \div Week) /\ Monday(d) \in Nat
           /\ Weekday(d) \in 0..(Week - 1)
<1> DEFINE q == d \div Week
           r == d % Week
<1>1. q \in Nat /\ r \in 0..(Week - 1) /\ d = Week * q + r
  BY WeekIs, DivMod, DivGrows
<1>2. Monday(d) = d - r /\ Weekday(d) = r
  BY DEF Monday, Weekday
<1> HIDE DEF q, r
<1>3. Week * q \in Nat
  BY <1>1, WeekIs
<1>4. Monday(d) = Week * q
  BY <1>1, <1>2, <1>3
<1> QED BY <1>1, <1>2, <1>3, <1>4 DEF q

\* How many weeks two dates are apart.
LEMMA WeeksApart ==
    ASSUME NEW d \in Nat, NEW a \in Nat
    PROVE  (Monday(d) - Monday(a)) \div Week = (d \div Week) - (a \div Week)
<1> DEFINE p == d \div Week
           q == a \div Week
<1>1. p \in Nat /\ q \in Nat /\ Monday(d) = Week * p /\ Monday(a) = Week * q
  BY MondayIs
<1> HIDE DEF p, q
<1>2. Monday(d) - Monday(a) = Week * (p - q)
  BY <1>1, WeekIs
<1>3. (Week * (p - q)) \div Week = p - q
  BY <1>1, WeekIs, DivCancel
<1>4. (Monday(d) - Monday(a)) \div Week = p - q
  BY <1>2, <1>3
<1> QED BY <1>4 DEF p, q

\* In phase with the anchor; some intervals after the first visit.
InStep(a, d, i) == ((Monday(d) - Monday(a)) \div Week) % i = 0
Later(first, d, i) == \E k \in 0..d : Monday(d) = Monday(first) + k * i * Week

\* Once one visit is in phase, being in phase is being some intervals later.
LEMMA InPhase ==
    ASSUME NEW a \in Nat, NEW first \in Nat, NEW d \in Nat, first <= d, NEW i \in Nat \ {0},
           InStep(a, first, i)
    PROVE  InStep(a, d, i) <=> Later(first, d, i)
<1> DEFINE wd == d \div Week
           wf == first \div Week
           wa == a \div Week
<1>1. /\ wd \in Nat /\ wf \in Nat /\ wa \in Nat /\ wf <= wd /\ wd <= d
      /\ Monday(d) = Week * wd /\ Monday(first) = Week * wf
  BY MondayIs, WeekIs, DivGrows
<1>2. (Monday(d) - Monday(a)) \div Week = wd - wa /\ (Monday(first) - Monday(a)) \div Week = wf - wa
  BY WeeksApart
<1> HIDE DEF wd, wf, wa
<1>3. (wf - wa) % i = 0
  BY <1>2 DEF InStep
<1>4. wd - wa \in Int /\ wf - wa \in Int /\ (wd - wa) - (wf - wa) = wd - wf /\ wd - wf \in Nat
  BY <1>1
<1>5. (wd - wa) % i = 0 <=> (wd - wf) % i = 0
  <2> DEFINE x == wf - wa
             y == wd - wa
  <2>1. x \in Int /\ y \in Int /\ x % i = 0 /\ y - x = wd - wf
    BY <1>3, <1>4
  <2> HIDE DEF x, y
  <2>2. y % i = 0 <=> (y - x) % i = 0
    BY <2>1, MultiplesApart
  <2> QED BY <2>1, <2>2 DEF y
<1>6. (wd - wf) % i = 0 <=> \E k \in Int : wd - wf = i * k
  <2> DEFINE z == wd - wf
  <2>1. z \in Int
    BY <1>4
  <2> HIDE DEF z
  <2>2. z % i = 0 <=> \E k \in Int : z = i * k
    BY <2>1, Multiple
  <2> QED BY <2>2 DEF z
<1>7. ASSUME NEW k \in Int, wd - wf = i * k
      PROVE  k \in 0..d /\ Monday(d) = Monday(first) + k * i * Week
  <2>1. k >= 0
    <3>1. CASE k < 0
      <4>1. i * k <= i * (-1) /\ i * (-1) = -i
        BY <3>1
      <4> QED BY <1>4, <1>7, <4>1
    <3> QED BY <3>1
  <2>2. i * k >= 1 * k /\ 1 * k = k
    BY <2>1
  <2>3. k <= d
    BY <1>1, <1>7, <2>2
  <2>4. wd = wf + i * k
    BY <1>1, <1>7
  <2>5. Week * wd = Week * wf + k * i * Week
    BY <1>1, <2>4, WeekIs
  <2> QED BY <1>1, <2>1, <2>3, <2>5
<1>8. ASSUME NEW k \in 0..d, Monday(d) = Monday(first) + k * i * Week
      PROVE  wd - wf = i * k
  <2>1. Week * wd = Week * (wf + i * k)
    BY <1>1, <1>8, WeekIs
  <2>2. (Week * wd) \div Week = wd /\ (Week * (wf + i * k)) \div Week = wf + i * k
    BY <1>1, WeekIs, DivCancel
  <2>3. wd = wf + i * k
    BY <2>1, <2>2
  <2> QED BY <1>1, <2>3
<1>9. (\E k \in Int : wd - wf = i * k) <=> (\E k \in 0..d : Monday(d) = Monday(first) + k * i * Week)
  <2>1. \A k \in 0..d : k \in Int
    OBVIOUS
  <2> QED BY <1>7, <1>8, <2>1
<1> QED BY <1>2, <1>5, <1>6, <1>9 DEF InStep, Later

-----------------------------------------------------------------------------
(* Months *)


\* A month has a day.
LEMMA MonthLengthIs ==
    ASSUME NEW m \in Nat
    PROVE  MonthLength(m) \in Nat \ {0}
<1> DEFINE n == Len(Months)
           r == m % n
<1>1. n \in Nat \ {0} /\ Months \in [1..n -> Nat \ {0}]
  BY CadenceAssumption
<1>2. r \in 0..(n - 1)
  <2>1. \A l \in Nat \ {0} : (m % l) \in 0..(l - 1)
    OBVIOUS
  <2> HIDE DEF n
  <2> QED BY <1>1, <2>1
<1>3. MonthLength(m) = Months[r + 1]
  BY DEF MonthLength
<1> HIDE DEF n, r
<1>4. r + 1 \in 1..n
  BY <1>1, <1>2
<1> QED BY <1>1, <1>3, <1>4

\* The lengths of the months, as numbers to be added up.
MonthLengths == [k \in Nat |-> MonthLength(k)]

\* The start of a month is the sum of the months before.
LEMMA MonthStartSum ==
    ASSUME NEW m \in Nat
    PROVE  /\ IsFiniteSet(0..(m - 1))
           /\ \E sums : SumsOf(sums, MonthLengths, 0..(m - 1)) /\ MonthStart(m) = sums[0..(m - 1)]
<1> DEFINE S == 0..(m - 1)
           A(t, s) == IF s = {} THEN 0
                      ELSE MonthLength(CHOOSE x \in s : TRUE) + t[s \ {CHOOSE x \in s : TRUE}]
           B(t, s) == IF s = {} THEN 0
                      ELSE MonthLengths[CHOOSE x \in s : TRUE] + t[s \ {CHOOSE x \in s : TRUE}]
           Body(t) == t = [s \in SUBSET S |-> A(t, s)]
           g == CHOOSE t : Body(t)
<1>1. MonthStart(m) = g[S]
  BY Zenon DEF MonthStart, FoldSet, MapThenFoldSet
<1>2. IsFiniteSet(S) /\ S \subseteq Nat
  BY FS_Interval
<1>3. \A s \in SUBSET S : s # {} => (CHOOSE x \in s : TRUE) \in S
  OBVIOUS
<1>4. \A x \in S : MonthLengths[x] = MonthLength(x)
  BY <1>2 DEF MonthLengths
<1>5. ASSUME NEW t PROVE Body(t) <=> SumsOf(t, MonthLengths, S)
  <2>1. \A s \in SUBSET S : A(t, s) = B(t, s)
    <3> HIDE DEF S
    <3> QED BY <1>3, <1>4
  <2>2. [s \in SUBSET S |-> A(t, s)] = [s \in SUBSET S |-> B(t, s)]
    <3> HIDE DEF A, B
    <3> QED BY <2>1
  <2>3. SumsOf(t, MonthLengths, S) <=> t = [s \in SUBSET S |-> B(t, s)]
    BY Zenon DEF SumsOf, Some
  <2> HIDE DEF A, B, S
  <2> QED BY <2>2, <2>3
<1>6. Body(g)
  <2>1. \E t : SumsOf(t, MonthLengths, S)
    BY <1>2, SumsExist
  <2>2. \E t : Body(t)
    <3> HIDE DEF Body, S
    <3> QED BY <1>5, <2>1
  <2> QED BY <2>2
<1>7. SumsOf(g, MonthLengths, S)
  BY <1>5, <1>6
<1> QED BY <1>1, <1>2, <1>7

\* A month starts when the one before is over.
LEMMA MonthStarts ==
    /\ MonthStart(0) = 0
    /\ \A m \in Nat : /\ MonthStart(m) \in Nat
                      /\ MonthStart(m + 1) = MonthStart(m) + MonthLength(m)
<1>1. \A x \in Nat : MonthLengths[x] = MonthLength(x) /\ MonthLengths[x] \in Nat
  BY MonthLengthIs DEF MonthLengths
<1>2. MonthStart(0) = 0
  <2>1. PICK sums : SumsOf(sums, MonthLengths, 0..(0 - 1)) /\ MonthStart(0) = sums[0..(0 - 1)]
    BY MonthStartSum
  <2>2. 0..(0 - 1) = {}
    OBVIOUS
  <2>3. sums[{}] = 0
    <3>1. SumsOf(sums, MonthLengths, {})
      BY <2>1, <2>2
    <3> QED BY <3>1 DEF SumsOf
  <2> QED BY <2>1, <2>2, <2>3
<1>3. ASSUME NEW m \in Nat, MonthStart(m) \in Nat
      PROVE  MonthStart(m + 1) = MonthStart(m) + MonthLength(m) /\ MonthStart(m + 1) \in Nat
  <2> DEFINE S == 0..m
             T == 0..(m - 1)
  <2>1. m + 1 \in Nat /\ 0..((m + 1) - 1) = S
    OBVIOUS
  <2>2. PICK sums : IsFiniteSet(S) /\ SumsOf(sums, MonthLengths, S) /\ MonthStart(m + 1) = sums[S]
    <3>1. IsFiniteSet(0..((m + 1) - 1)) /\ \E sums : /\ SumsOf(sums, MonthLengths, 0..((m + 1) - 1))
                                                    /\ MonthStart(m + 1) = sums[0..((m + 1) - 1)]
      BY <2>1, MonthStartSum
    <3> QED BY <2>1, <3>1
  <2>3. PICK less : SumsOf(less, MonthLengths, T) /\ MonthStart(m) = less[T]
    BY MonthStartSum
  <2>4. /\ \A x \in S : MonthLengths[x] \in Int
        /\ T \in SUBSET S /\ S \in SUBSET S /\ T \in SUBSET T /\ m \in S /\ S \ {m} = T
    BY <1>1
  <2>5. \A x \in S : MonthLengths[x] \in Int
    BY <2>4
  <2> HIDE DEF S, T
  <2>6. sums[S] = MonthLengths[m] + sums[S \ {m}]
    <3> DEFINE f == MonthLengths
    <3>1. IsFiniteSet(S) /\ (\A x \in S : f[x] \in Int) /\ SumsOf(sums, f, S)
      BY <2>2, <2>5
    <3> HIDE DEF f
    <3>2. /\ \A s \in SUBSET S : sums[s] \in Int
          /\ \A s \in SUBSET S : \A a \in s : sums[s] = f[a] + sums[s \ {a}]
      BY <3>1, SumsOfAny
    <3> QED BY <2>4, <3>2 DEF f
  <2>7. sums[T] = less[T]
    <3>1. T \in SUBSET S
      BY <2>4
    <3>2. \A s \in SUBSET T : sums[s] = less[s]
      BY <2>2, <2>3, <3>1, SumsAgree
    <3> QED BY <2>4, <3>2
  <2>8. MonthStart(m + 1) = MonthLength(m) + MonthStart(m)
    BY <1>1, <2>2, <2>3, <2>4, <2>6, <2>7
  <2> QED BY <1>3, <2>8, MonthLengthIs
<1> DEFINE P == {m \in Nat : MonthStart(m) \in Nat}
<1>4. P = Nat
  <2>1. P \in SUBSET Nat /\ 0 \in P /\ \A k \in P : k + 1 \in P
    BY <1>2, <1>3
  <2> HIDE DEF P
  <2> QED BY <2>1, Induction
<1> QED BY <1>2, <1>3, <1>4

\* Months come one after the other.
LEMMA MonthsGrow ==
    ASSUME NEW m \in Nat, NEW n \in Nat, m < n
    PROVE  MonthStart(m + 1) <= MonthStart(n)
<1> DEFINE P == {k \in Nat : m < k => MonthStart(m + 1) <= MonthStart(k)}
<1>1. 0 \in P
  OBVIOUS
<1>2. ASSUME NEW k \in P PROVE k + 1 \in P
  <2> SUFFICES ASSUME m < k + 1 PROVE MonthStart(m + 1) <= MonthStart(k + 1)
    OBVIOUS
  <2>1. /\ MonthStart(k) \in Nat /\ MonthStart(k + 1) = MonthStart(k) + MonthLength(k)
        /\ MonthLength(k) \in Nat /\ MonthStart(m + 1) \in Nat
    BY MonthStarts, MonthLengthIs
  <2>2. CASE m = k
    BY <2>1, <2>2
  <2>3. CASE m < k
    BY <2>1, <2>3
  <2> QED BY <2>2, <2>3
<1>3. P = Nat
  <2>1. P \in SUBSET Nat
    OBVIOUS
  <2> HIDE DEF P
  <2> QED BY <1>1, <1>2, <2>1, Induction
<1> QED BY <1>3

\* A month that a date is in.
InMonth(m, d) == MonthStart(m) <= d /\ d < MonthStart(m + 1)

\* Every date is in a month, and in one only.
LEMMA DatesHaveAMonth == \A d \in Nat : \E m \in 0..d : InMonth(m, d)
<1> DEFINE P == {d \in Nat : \E m \in 0..d : InMonth(m, d)}
<1>1. 0 \in P
  <2>1. MonthStart(0) = 0 /\ MonthStart(0 + 1) = 0 + MonthLength(0) /\ MonthLength(0) \in Nat \ {0}
    BY MonthStarts, MonthLengthIs
  <2>2. InMonth(0, 0)
    BY <2>1 DEF InMonth
  <2> QED BY <2>2
<1>2. ASSUME NEW d \in P PROVE d + 1 \in P
  <2>1. PICK m \in 0..d : InMonth(m, d)
    OBVIOUS
  <2>2. m \in Nat /\ m + 1 \in Nat /\ d \in Nat
    OBVIOUS
  <2>3. /\ MonthStart(m) \in Nat /\ MonthStart(m + 1) \in Nat
        /\ MonthStart((m + 1) + 1) = MonthStart(m + 1) + MonthLength(m + 1)
        /\ MonthLength(m + 1) \in Nat \ {0}
    BY <2>2, MonthStarts, MonthLengthIs
  <2>4. CASE d + 1 < MonthStart(m + 1)
    <3>1. InMonth(m, d + 1)
      BY <2>1, <2>2, <2>3, <2>4 DEF InMonth
    <3> QED BY <2>2, <3>1
  <2>5. CASE ~(d + 1 < MonthStart(m + 1))
    <3>1. InMonth(m + 1, d + 1)
      BY <2>1, <2>2, <2>3, <2>5 DEF InMonth
    <3>2. m + 1 \in 0..(d + 1)
      BY <2>2
    <3> QED BY <2>2, <3>1, <3>2
  <2> QED BY <2>4, <2>5
<1>3. P = Nat
  <2>1. P \in SUBSET Nat
    OBVIOUS
  <2> HIDE DEF P
  <2> QED BY <1>1, <1>2, <2>1, Induction
<1> QED BY <1>3

\* A date is in one month.
LEMMA OneMonth ==
    ASSUME NEW d \in Nat, NEW m \in Nat, NEW n \in Nat, InMonth(m, d), InMonth(n, d)
    PROVE  m = n
<1>1. /\ MonthStart(m) \in Nat /\ MonthStart(n) \in Nat
      /\ MonthStart(m + 1) \in Nat /\ MonthStart(n + 1) \in Nat
  BY MonthStarts
<1>2. m < n => MonthStart(m + 1) <= MonthStart(n)
  BY MonthsGrow
<1>3. n < m => MonthStart(n + 1) <= MonthStart(m)
  BY MonthsGrow
<1> QED BY <1>1, <1>2, <1>3 DEF InMonth

\* A date knows its month and its day in it.
LEMMA MonthOfIs ==
    ASSUME NEW d \in 0..(CalendarEnd + 1)
    PROVE  /\ MonthOf[d] \in Nat /\ InMonth(MonthOf[d], d)
           /\ DayOfMonth[d] = (d - MonthStart(MonthOf[d])) + 1
<1>1. d \in Nat
  BY CadenceAssumption
<1>2. \E m \in 0..d : MonthStart(m) <= d /\ d < MonthStart(m + 1)
  BY <1>1, DatesHaveAMonth DEF InMonth
<1>3. MonthOf[d] = CHOOSE m \in 0..d : MonthStart(m) <= d /\ d < MonthStart(m + 1)
  BY DEF MonthOf
<1>4. MonthOf[d] \in 0..d /\ MonthStart(MonthOf[d]) <= d /\ d < MonthStart(MonthOf[d] + 1)
  BY <1>2, <1>3, Zenon
<1> QED BY <1>1, <1>4 DEF InMonth, DayOfMonth

\* The last day of a month is the one before a first.
LEMMA MonthEnds ==
    ASSUME NEW d \in Calendar
    PROVE  /\ DayOfMonth[d] \in 1..MonthLength(MonthOf[d])
           /\ DayOfMonth[d + 1] = 1 <=> DayOfMonth[d] = MonthLength(MonthOf[d])
<1> DEFINE m == MonthOf[d]
           n == MonthOf[d + 1]
           l == MonthLength(m)
<1>1. d \in 0..(CalendarEnd + 1) /\ d + 1 \in 0..(CalendarEnd + 1) /\ d \in Nat /\ d + 1 \in Nat
  BY CadenceAssumption DEF Calendar
<1>2. /\ m \in Nat /\ InMonth(m, d) /\ DayOfMonth[d] = (d - MonthStart(m)) + 1
      /\ n \in Nat /\ InMonth(n, d + 1) /\ DayOfMonth[d + 1] = ((d + 1) - MonthStart(n)) + 1
  BY <1>1, MonthOfIs
<1> HIDE DEF m, n
<1>3. /\ MonthStart(m) \in Nat /\ MonthStart(m + 1) = MonthStart(m) + l /\ l \in Nat \ {0}
      /\ m + 1 \in Nat
      /\ MonthStart((m + 1) + 1) = MonthStart(m + 1) + MonthLength(m + 1)
      /\ MonthLength(m + 1) \in Nat \ {0}
  BY <1>2, MonthStarts, MonthLengthIs
<1>4. DayOfMonth[d] \in 1..l
  BY <1>1, <1>2, <1>3 DEF InMonth
<1>5. CASE d + 1 < MonthStart(m + 1)
  <2>1. InMonth(m, d + 1)
    BY <1>1, <1>2, <1>3, <1>5 DEF InMonth
  <2>2. n = m
    BY <1>1, <1>2, <2>1, OneMonth
  <2>3. DayOfMonth[d + 1] # 1
    BY <1>1, <1>2, <1>3, <2>2 DEF InMonth
  <2>4. DayOfMonth[d] # l
    BY <1>1, <1>2, <1>3, <1>5
  <2> QED BY <1>4, <2>3, <2>4 DEF m
<1>6. CASE ~(d + 1 < MonthStart(m + 1))
  <2>1. MonthStart(m + 1) = d + 1
    BY <1>1, <1>2, <1>3, <1>6 DEF InMonth
  <2>2. InMonth(m + 1, d + 1)
    BY <1>1, <1>3, <2>1 DEF InMonth
  <2>3. n = m + 1
    BY <1>1, <1>2, <1>3, <2>2, OneMonth
  <2>4. DayOfMonth[d + 1] = 1
    BY <1>1, <1>2, <2>1, <2>3
  <2>5. DayOfMonth[d] = l
    BY <1>1, <1>2, <1>3, <2>1
  <2> QED BY <1>4, <2>4, <2>5 DEF m
<1> QED BY <1>5, <1>6

\* Clamping to the length of the month is taking its last day.
LEMMA Clamped ==
    ASSUME NEW d \in Calendar, NEW md \in Nat
    PROVE  DayOfMonth[d] = Least(md, MonthLength(MonthOf[d]))
             <=> \/ DayOfMonth[d] = md
                 \/ DayOfMonth[d] < md /\ DayOfMonth[d + 1] = 1
<1> DEFINE l == MonthLength(MonthOf[d])
           x == DayOfMonth[d]
<1>1. x \in 1..l /\ (DayOfMonth[d + 1] = 1 <=> x = l) /\ l \in Nat
  <2>1. d \in 0..(CalendarEnd + 1)
    BY CadenceAssumption DEF Calendar
  <2> QED BY <2>1, MonthEnds, MonthOfIs, MonthLengthIs
<1> HIDE DEF l, x
<1>2. x = Least(md, l) <=> (x = md \/ (x < md /\ x = l))
  BY <1>1 DEF Least
<1> QED BY <1>1, <1>2 DEF l, x

-----------------------------------------------------------------------------
(* Rules *)

\* A monthly rule falls on its day, or on the last of a shorter month.
LEMMA OccursMonthly ==
    ASSUME NEW row, NEW d, NEW t, row.frequency = "monthly"
    PROVE  OccursOn(row, d, t) <=> DayOfMonth[d] = Least(row.monthDay, MonthLength(MonthOf[d]))
BY DEF OccursOn

\* An every-N-days rule falls on every N-th day from its anchor.
LEMMA OccursDaily ==
    ASSUME NEW row, NEW d, NEW t, row.frequency = "daily"
    PROVE  OccursOn(row, d, t) <=> /\ (d - DailyAnchor(row, t)) % row.interval = 0
                                   /\ Weekday(d) \in EffectiveDays(row)
BY DEF OccursOn

\* A weekly rule falls on its weekdays, in every N-th week from its anchor's.
LEMMA OccursWeekly ==
    ASSUME NEW row, NEW d, NEW t, row.frequency = "weekly"
    PROVE  OccursOn(row, d, t) <=>
             /\ Weekday(d) \in EffectiveDays(row)
             /\ ((Monday(d) - Monday(PhaseAnchor(row, t))) \div Week) % row.interval = 0
BY DEF OccursOn

\* A rule somebody may have chosen.
Ruled(row) ==
    /\ row \in Plan /\ row.frequency \in {"daily", "weekly", "monthly"}
    /\ row.interval \in Nat \ {0} /\ Sensible(row)

\* The same rule, anchored or ended otherwise.
SameRule(row, old) ==
    /\ row.frequency = old.frequency /\ row.days = old.days /\ row.interval = old.interval
    /\ row.monthDay = old.monthDay /\ row.start = old.start /\ row.count = old.count

\* The dates of an anchored rule.
Occurs(row, d) == OccursOn(row, d, 0)

\* They do not depend on today.
LEMMA AnchoredOccurs ==
    ASSUME NEW row, Ruled(row), row.anchor # None, NEW d, NEW t
    PROVE  OccursOn(row, d, t) <=> Occurs(row, d)
<1>1. DailyAnchor(row, t) = DailyAnchor(row, 0) /\ PhaseAnchor(row, t) = PhaseAnchor(row, 0)
  BY DEF DailyAnchor, PhaseAnchor
<1>2. CASE row.frequency = "monthly"
  BY <1>2, OccursMonthly DEF Occurs
<1>3. CASE row.frequency = "daily"
  BY <1>1, <1>3, OccursDaily DEF Occurs
<1>4. CASE row.frequency = "weekly"
  BY <1>1, <1>4, OccursWeekly DEF Occurs
<1> QED BY <1>2, <1>3, <1>4 DEF Ruled

\* Some weekday is chosen.
LEMMA EffectiveIs ==
    ASSUME NEW row \in Plan
    PROVE  /\ EffectiveDays(row) \subseteq 0..(Week - 1) /\ EffectiveDays(row) # {}
           /\ row.days = {} => EffectiveDays(row) = 0..(Week - 1)
<1>1. 0 \in 0..(Week - 1) /\ row.days \subseteq 0..(Week - 1)
  BY WeekIs DEF Plan
<1> QED BY <1>1 DEF EffectiveDays

\* Within a week from a date comes every weekday.
LEMMA WeekdayComes ==
    ASSUME NEW o \in Nat, NEW w \in 0..(Week - 1)
    PROVE  \E d \in o..(o + Week - 1) : Weekday(d) = w
<1> DEFINE q == (w - o) \div Week
           x == (w - o) % Week
           d == o + x
           p == d \div Week
           r == d % Week
<1>1. w \in Int /\ w - o \in Int /\ Week \in Nat \ {0}
  BY WeekIs
<1>2. q \in Int /\ x \in 0..(Week - 1) /\ w - o = Week * q + x
  <2> DEFINE y == w - o
  <2>1. y \in Int
    BY <1>1
  <2> HIDE DEF y
  <2>2. y \div Week \in Int /\ (y % Week) \in 0..(Week - 1) /\ y = Week * (y \div Week) + (y % Week)
    BY <1>1, <2>1, DivMod
  <2> QED BY <2>2 DEF y
<1> HIDE DEF q, x
<1>3. d \in Nat /\ d \in o..(o + Week - 1)
  BY <1>1, <1>2
<1> HIDE DEF d
<1>4. p \in Int /\ r \in 0..(Week - 1) /\ d = Week * p + r
  BY <1>1, <1>3, DivMod
<1>5. Weekday(d) = r
  BY DEF Weekday
<1> HIDE DEF p, r
<1>6. Week * q \in Int /\ Week * (-q) = -(Week * q) /\ -q \in Int
  BY <1>1, <1>2
<1>7. Week * (-q) + w = Week * p + r
  <2>1. d = o + x
    BY DEF d
  <2> QED BY <1>1, <1>2, <1>4, <1>6, <2>1
<1>8. r = w
  BY <1>1, <1>4, <1>6, <1>7, DivModUnique
<1> QED BY <1>3, <1>5, <1>8

\* The first chosen weekday is within a week.
LEMMA FirstChosenIs ==
    ASSUME NEW row \in Plan, NEW o \in Nat
    PROVE  /\ FirstChosen(row, o) \in o..(o + Week - 1)
           /\ Weekday(FirstChosen(row, o)) \in EffectiveDays(row)
           /\ \A d \in o..(FirstChosen(row, o) - 1) : Weekday(d) \notin EffectiveDays(row)
<1> DEFINE S == {d \in o..(o + Week - 1) : Weekday(d) \in EffectiveDays(row)}
           a == FirstChosen(row, o)
<1>1. S # {}
  <2>1. PICK w : w \in EffectiveDays(row) /\ w \in 0..(Week - 1)
    BY EffectiveIs
  <2> QED BY <2>1, WeekdayComes
<1>2. S \in SUBSET Nat
  BY WeekIs
<1>3. a = Min(S)
  BY DEF FirstChosen
<1> HIDE DEF a
<1>4. a \in S /\ \A y \in S : a <= y
  <2> HIDE DEF S
  <2> QED BY <1>1, <1>2, <1>3, MinIs
<1>5. ASSUME NEW d \in o..(a - 1) PROVE d \notin S
  BY <1>4
<1>6. \A d \in o..(a - 1) : d \in o..(o + Week - 1)
  BY <1>4, WeekIs
<1> QED BY <1>4, <1>5, <1>6 DEF a

\* Where a series is anchored that gets its first visits.
FirstAnchor(row, o) ==
    IF row.start # None \/ row.frequency = "monthly" THEN o ELSE FirstChosen(row, o)

\* Pinning the anchor changes no date: the rule had the same phase before, and
\* no visit comes before the anchor.
LEMMA SamePhase ==
    ASSUME NEW row, Ruled(row), row.anchor = None, OddDays = FALSE,
           NEW o \in Nat, row.start # None => row.start = o,
           NEW pinned, Ruled(pinned), SameRule(pinned, row), pinned.anchor = FirstAnchor(row, o),
           pinned.anchor # None
    PROVE  /\ pinned.anchor \in o..(o + Week - 1)
           /\ \A d \in Nat : OccursOn(row, d, o) <=> Occurs(pinned, d)
           /\ \A d \in o..(pinned.anchor - 1) : ~Occurs(pinned, d)
<1> DEFINE a == pinned.anchor
           E == EffectiveDays(row)
<1>1. EffectiveDays(pinned) = E
  BY DEF SameRule, EffectiveDays
<1>2. row \in Plan /\ a = FirstAnchor(row, o) /\ a # None
  BY DEF Ruled
<1>3. a \in o..(o + Week - 1)
  BY <1>2, FirstChosenIs, WeekIs DEF FirstAnchor
<1>4. DailyAnchor(pinned, 0) = a /\ PhaseAnchor(pinned, 0) = a
  BY DEF DailyAnchor, PhaseAnchor
<1>5. CASE row.frequency = "monthly"
  <2>1. \A d \in Nat : OccursOn(row, d, o) <=> Occurs(pinned, d)
    BY <1>5, OccursMonthly DEF Occurs, SameRule
  <2>2. o..(a - 1) = {}
    BY <1>2, <1>5 DEF FirstAnchor
  <2> QED BY <1>3, <2>1, <2>2
<1>6. CASE row.frequency = "weekly"
  <2>1. PhaseAnchor(row, o) = a
    BY <1>2, <1>6 DEF PhaseAnchor, FirstAnchor
  <2>2. \A d \in Nat : OccursOn(row, d, o) <=> Occurs(pinned, d)
    BY <1>1, <1>4, <1>6, <2>1, OccursWeekly DEF Occurs, SameRule
  <2>3. ASSUME NEW d \in o..(a - 1) PROVE Weekday(d) \notin E
    BY <1>2, <1>6, <2>3, FirstChosenIs DEF FirstAnchor
  <2>4. \A d \in o..(a - 1) : ~Occurs(pinned, d)
    BY <1>1, <1>6, <2>3, OccursWeekly DEF Occurs, SameRule
  <2> QED BY <1>3, <2>2, <2>4
<1>7. CASE row.frequency = "daily"
  <2>1. DailyAnchor(row, o) = o
    BY DEF DailyAnchor
  <2>2. a # o => row.interval = 1
    <3> SUFFICES ASSUME row.days = {} PROVE a = o
      BY <1>2, <1>7 DEF Ruled, Sensible, FirstAnchor
    <3>1. E = 0..(Week - 1) /\ Weekday(o) \in E
      BY <1>2, EffectiveIs, MondayIs
    <3>2. a # o => o \in o..(a - 1)
      BY <1>3
    <3> QED BY <1>2, <1>7, <3>1, <3>2, FirstChosenIs DEF FirstAnchor
  <2>3. ASSUME NEW d \in Nat PROVE (d - o) % row.interval = 0 <=> (d - a) % row.interval = 0
    <3>1. \A x \in Int : x % 1 = 0
      OBVIOUS
    <3>2. d - o \in Int /\ d - a \in Int
      BY <1>3
    <3> QED BY <2>2, <3>1, <3>2
  <2>4. \A d \in Nat : OccursOn(row, d, o) <=> Occurs(pinned, d)
    BY <1>1, <1>4, <1>7, <2>1, <2>3, OccursDaily DEF Occurs, SameRule
  <2>5. ASSUME NEW d \in o..(a - 1) PROVE Weekday(d) \notin E
    BY <1>2, <1>7, <2>5, FirstChosenIs DEF FirstAnchor
  <2>6. \A d \in o..(a - 1) : ~Occurs(pinned, d)
    BY <1>1, <1>7, <2>5, OccursDaily DEF Occurs, SameRule
  <2> QED BY <1>3, <2>4, <2>6
<1> QED BY <1>5, <1>6, <1>7 DEF Ruled

-----------------------------------------------------------------------------
(* Counting the visits of a rule *)

\* The visits of an anchored rule up to a date, and the date of the n-th.
Upto(row, d) == {c \in row.anchor..d : Occurs(row, c)}
Nth(row, n) == {d \in Calendar : d >= row.anchor /\ Occurs(row, d) /\ Cardinality(Upto(row, d)) = n}

\* There is one n-th visit.
LEMMA OneNth ==
    ASSUME NEW row, Ruled(row), row.anchor # None, NEW n, NEW d \in Nth(row, n), NEW e \in Nth(row, n)
    PROVE  d = e
<1>1. row.anchor \in Nat /\ Calendar \subseteq Nat
  BY CadenceAssumption DEF Ruled, Plan, Calendar
<1>2. ASSUME NEW x \in Nth(row, n), NEW y \in Nth(row, n), x < y PROVE FALSE
  <2>1. x \in Nat /\ y \in Nat /\ y >= row.anchor /\ Occurs(row, y)
        /\ Cardinality(Upto(row, x)) = n /\ Cardinality(Upto(row, y)) = n
    BY <1>1 DEF Nth
  <2>2. IsFiniteSet(row.anchor..y)
    BY <1>1, <2>1, FS_Interval
  <2>3. IsFiniteSet(Upto(row, y))
    BY <2>2, FS_Subset DEF Upto
  <2>4. Upto(row, x) \in SUBSET Upto(row, y)
    BY <1>1, <1>2, <2>1 DEF Upto
  <2>5. y \in Upto(row, y) /\ y \notin Upto(row, x)
    BY <1>1, <1>2, <2>1 DEF Upto
  <2>6. Upto(row, x) = Upto(row, y)
    BY <2>1, <2>3, <2>4, FS_Subset
  <2> QED BY <2>5, <2>6
<1>3. d \in Nat /\ e \in Nat
  BY <1>1 DEF Nth
<1> QED BY <1>2, <1>3

\* That is the date the code computes.
LEMMA NthIs ==
    ASSUME NEW row, Ruled(row), row.anchor # None, NEW n
    PROVE  NthOccurrence(row, n) = Nth(row, n)
<1> DEFINE a == row.anchor
<1>1. NthOccurrence(row, n) =
        {d \in Calendar : /\ d >= a /\ OccursOn(row, d, a)
                          /\ Cardinality({c \in a..d : OccursOn(row, c, a)}) = n}
  BY DEF NthOccurrence
<1>2. \A d : OccursOn(row, d, a) <=> Occurs(row, d)
  BY AnchoredOccurs
<1>3. \A d : {c \in a..d : OccursOn(row, c, a)} = Upto(row, d)
  BY <1>2 DEF Upto
<1> QED BY <1>1, <1>2, <1>3 DEF Nth

\* The first date of a window that starts with tick.
DueFrom(row, tick) == IF row.start # None /\ row.start > tick THEN row.start ELSE tick

\* Counted before the anchor was pinned, the n-th visit is the same.
LEMMA SameNth ==
    ASSUME NEW row, Ruled(row), row.anchor = None, OddDays = FALSE, day \in Nat,
           row.start # None => row.start >= day,
           NEW pinned, Ruled(pinned), SameRule(pinned, row),
           pinned.anchor = FirstAnchor(row, DueFrom(row, day)), pinned.anchor # None, NEW n
    PROVE  NthOccurrence(row, n) = Nth(pinned, n)
<1> DEFINE o == DueFrom(row, day)
           a == pinned.anchor
<1>1. o \in Nat /\ (row.start # None => row.start = o) /\ (row.start = None => day = o)
  BY CadenceAssumption DEF DueFrom, Ruled, Plan, Calendar
<1>2. /\ a \in o..(o + Week - 1)
      /\ \A d \in Nat : OccursOn(row, d, o) <=> Occurs(pinned, d)
      /\ \A d \in o..(a - 1) : ~Occurs(pinned, d)
  <2>1. pinned.anchor = FirstAnchor(row, o)
    OBVIOUS
  <2> HIDE DEF o
  <2> QED BY <1>1, <2>1, SamePhase
<1>3. NthOccurrence(row, n) =
        {d \in Calendar : /\ d >= o /\ OccursOn(row, d, o)
                          /\ Cardinality({c \in o..d : OccursOn(row, c, o)}) = n}
  <2>1. (IF row.anchor # None THEN row.anchor ELSE IF row.start # None THEN row.start ELSE day) = o
    BY <1>1
  <2> HIDE DEF o
  <2> QED BY <2>1, Zenon DEF NthOccurrence
<1> HIDE DEF o
<1>4. \A d \in Nat : d >= o /\ Occurs(pinned, d) => d >= a
  BY <1>1, <1>2, WeekIs
<1>5. \A d \in Nat : d >= a => d >= o
  BY <1>1, <1>2, WeekIs
<1>6. ASSUME NEW d \in Nat PROVE {c \in o..d : OccursOn(row, c, o)} = Upto(pinned, d)
  <2>1. \A c \in o..d : c \in Nat
    BY <1>1
  <2>2. \A c \in a..d : c \in Nat
    BY <1>1, <1>2, WeekIs
  <2>3. ASSUME NEW c \in o..d, OccursOn(row, c, o) PROVE c \in Upto(pinned, d)
    <3>1. c \in Nat /\ Occurs(pinned, c) /\ c >= a /\ a \in Nat
      BY <1>1, <1>2, <1>4, <2>1, <2>3, WeekIs
    <3> QED BY <3>1 DEF Upto
  <2>4. ASSUME NEW c \in Upto(pinned, d) PROVE c \in o..d /\ OccursOn(row, c, o)
    <3>1. c \in a..d /\ c \in Nat /\ Occurs(pinned, c)
      BY <2>2 DEF Upto
    <3>2. c >= a /\ c <= d /\ a \in Nat
      BY <1>1, <1>2, <3>1, WeekIs
    <3> QED BY <1>1, <1>2, <1>5, <3>1, <3>2
  <2> QED BY <2>3, <2>4
<1>7. Calendar \subseteq Nat
  BY CadenceAssumption DEF Calendar
<1>8. \A d \in Calendar : (d >= o /\ OccursOn(row, d, o)) <=> (d >= a /\ Occurs(pinned, d))
  BY <1>2, <1>4, <1>5, <1>7
<1> QED BY <1>3, <1>6, <1>7, <1>8 DEF Nth

-----------------------------------------------------------------------------
(* The series *)

\* The last date generated for, and the dates that got their visit by then.
Reach(row, tick) == DueFrom(row, tick) + Ahead * Week
DatesDue(row, tick) ==
    {d \in row.anchor..Reach(row, tick) : Occurs(row, d) /\ (row.end # None => d < row.end)}

\* The end is the day after the N-th visit.
EndsRight(row) ==
    /\ row.count = 0 => row.end = None
    /\ row.count # 0 => row.end # None /\ row.end - 1 \in Nth(row, row.count)

\* A series that has visits.
Running ==
    /\ Ruled(plan) /\ plan.anchor # None /\ EndsRight(plan)
    /\ plan.start # None => plan.anchor = plan.start /\ plan.start <= LastToday + Week
    /\ visits = DatesDue(plan, lastTick)
    /\ \A d \in DueFrom(plan, lastTick)..(plan.anchor - 1) : ~Occurs(plan, d)

CadenceInv ==
    /\ CadenceTypeOK
    /\ lastTick <= day /\ day <= lastTick + Ahead * Week /\ day <= LastToday
    /\ (plan = NoPlan /\ visits = {}) \/ Running

\* The calendar reaches beyond every date the tick may generate.
LEMMA HorizonIs ==
    /\ Ahead * Week \in Nat /\ Week <= Ahead * Week
    /\ LastToday + Week + Ahead * Week <= CalendarEnd
    /\ LastToday \in Nat /\ Week \in Nat /\ Week > 0 /\ CalendarEnd \in Nat /\ Week - 1 <= LastToday
    /\ Calendar = 0..CalendarEnd /\ Calendar \subseteq Nat /\ None \notin Calendar
<1>1. /\ (Ahead + 1) * Week = Ahead * Week + Week /\ Ahead * Week \in Nat
      /\ Ahead * Week >= 1 * Week /\ 1 * Week = Week
  BY CadenceAssumption
<1> QED BY <1>1, CadenceAssumption DEF Calendar, None

\* A tick far enough before the end of the calendar stays in it.
LEMMA ReachIs ==
    ASSUME NEW row \in Plan, NEW tick \in Nat, tick <= LastToday,
           row.start # None => row.start <= LastToday + Week
    PROVE  /\ DueFrom(row, tick) \in Nat /\ DueFrom(row, tick) >= tick
           /\ Reach(row, tick) \in Calendar /\ Reach(row, tick) >= tick + Ahead * Week
BY HorizonIs DEF DueFrom, Reach, Plan

\* What generate_jobs adds.
LEMMA DatesAre ==
    ASSUME NEW row, Ruled(row), row.anchor # None
    PROVE  GenerateDates(row) = {d \in DueFrom(row, day)..Reach(row, day) :
                                   Occurs(row, d) /\ (row.end # None => d < row.end)}
<1> DEFINE from == IF row.start # None /\ row.start > day THEN row.start ELSE day
           to == from + Ahead * Week
<1>1. GenerateDates(row) = {d \in from..to : OccursOn(row, d, from) /\ (row.end # None => d < row.end)}
  BY DEF GenerateDates
<1>2. from = DueFrom(row, day) /\ to = Reach(row, day)
  BY DEF DueFrom, Reach
<1> HIDE DEF from, to
<1>3. \A d : OccursOn(row, d, from) <=> Occurs(row, d)
  BY AnchoredOccurs
<1> QED BY <1>1, <1>2, <1>3

\* Before the series is opened there is nothing.
LEMMA CadenceStarts == CadenceInit => CadenceInv
<1> SUFFICES ASSUME CadenceInit PROVE CadenceInv
  OBVIOUS
<1>1. day \in Nat /\ day <= LastToday /\ lastTick = day /\ plan = NoPlan /\ visits = {}
  BY HorizonIs DEF CadenceInit
<1>2. NoPlan \in Plan
  BY CadenceAssumption DEF NoPlan, Plan, None
<1> QED BY <1>1, <1>2, HorizonIs DEF CadenceInv, CadenceTypeOK

\* The dates of a series are in the calendar.
LEMMA PromisedType ==
    ASSUME NEW row, Ruled(row), row.anchor # None, NEW tick \in Nat, tick <= LastToday,
           row.start # None => row.start <= LastToday + Week
    PROVE  DatesDue(row, tick) \subseteq Calendar
<1>1. row \in Plan /\ row.anchor \in Nat
  BY HorizonIs DEF Ruled, Plan
<1>2. Reach(row, tick) \in Calendar
  BY <1>1, ReachIs
<1> QED BY <1>1, <1>2, HorizonIs DEF DatesDue

\* A row the form may send.
LEMMA OpeningIs ==
    ASSUME NEW row \in Openings, Sensible(row), day \in Nat, day <= LastToday
    PROVE  /\ Ruled(row) /\ row.anchor = None /\ row.end = None /\ row.count \in Nat
           /\ row.start # None => row.start >= day /\ row.start <= LastToday + Week
<1>1. /\ row.frequency \in Frequencies /\ row.frequency \in {"daily", "weekly", "monthly"}
      /\ row.days \in SUBSET (0..(Week - 1)) /\ row.interval \in Nat \ {0} /\ row.monthDay \in Nat
      /\ row.count \in Nat /\ row.anchor = None /\ row.end = None
  <2>1. /\ row.frequency \in Frequencies /\ row.days \in DaySets /\ row.interval \in Intervals \cup {1}
        /\ row.monthDay \in MonthDays \cup {1} /\ row.count \in Counts
        /\ row.anchor = None /\ row.end = None
    BY DEF Openings
  <2>2. Intervals \subseteq Nat \ {0} /\ MonthDays \subseteq 1..31 /\ Counts \subseteq Nat
    BY CadenceAssumption
  <2>3. DaySets \subseteq SUBSET (0..(Week - 1)) /\ Frequencies \subseteq {"daily", "weekly", "monthly"}
    BY CadenceAssumption
  <2>8. Intervals \cup {1} \subseteq Nat \ {0} /\ MonthDays \cup {1} \subseteq Nat
    BY <2>2
  <2>4. row.interval \in Nat \ {0}
    BY <2>1, <2>8, Zenon
  <2>5. row.monthDay \in Nat
    BY <2>1, <2>8, Zenon
  <2>6. row.count \in Nat
    BY <2>1, <2>2
  <2>7. row.days \in SUBSET (0..(Week - 1)) /\ row.frequency \in {"daily", "weekly", "monthly"}
    BY <2>1, <2>3, Zenon
  <2> QED BY <2>1, <2>4, <2>5, <2>6, <2>7
<1>2. row.start \in Calendar \cup {None} /\ (row.start # None => row.start >= day /\ row.start <= LastToday + Week)
  BY HorizonIs DEF Openings
<1>3. row \in Plan
  BY <1>1, <1>2 DEF Openings, Plan
<1> QED BY <1>1, <1>2, <1>3 DEF Ruled

\* The dates made when the anchor is pinned.
LEMMA FirstVisits ==
    ASSUME NEW row, Ruled(row), row.anchor = None, OddDays = FALSE, day \in Nat, day <= LastToday,
           row.start # None => row.start >= day /\ row.start <= LastToday + Week,
           NEW pinned, Ruled(pinned), SameRule(pinned, row),
           pinned.anchor = FirstAnchor(row, DueFrom(row, day)), pinned.anchor # None
    PROVE  /\ GenerateDates(pinned) = DatesDue(pinned, day)
           /\ \A d \in DueFrom(pinned, day)..(pinned.anchor - 1) : ~Occurs(pinned, d)
           /\ pinned.start # None => pinned.anchor = pinned.start /\ pinned.start <= LastToday + Week
<1> DEFINE o == DueFrom(row, day)
           a == pinned.anchor
           to == Reach(pinned, day)
<1>1. o \in Nat /\ (row.start # None => row.start = o)
  BY HorizonIs DEF DueFrom, Ruled, Plan
<1>2. pinned.anchor = FirstAnchor(row, o)
  OBVIOUS
<1>3. DueFrom(pinned, day) = o
  BY DEF DueFrom, SameRule
<1>4. to \in Int
  BY <1>1, <1>3, HorizonIs DEF Reach
<1> HIDE DEF o
<1>5. a \in o..(o + Week - 1) /\ \A d \in o..(a - 1) : ~Occurs(pinned, d)
  BY <1>1, <1>2, SamePhase
<1> HIDE DEF to
<1>6. GenerateDates(pinned) = {d \in o..to : Occurs(pinned, d) /\ (pinned.end # None => d < pinned.end)}
  BY <1>3, DatesAre DEF to
<1>7. DatesDue(pinned, day) = {d \in a..to : Occurs(pinned, d) /\ (pinned.end # None => d < pinned.end)}
  BY DEF DatesDue, to
<1>8. ASSUME NEW d, Occurs(pinned, d) PROVE d \in o..to <=> d \in a..to
  <2>1. a \in Nat /\ o <= a
    BY <1>1, <1>5, HorizonIs
  <2>2. d \in o..to /\ d < a => d \in o..(a - 1)
    BY <1>1, <1>4, <2>1
  <2> QED BY <1>1, <1>4, <1>5, <1>8, <2>1, <2>2
<1>9. GenerateDates(pinned) = DatesDue(pinned, day)
  BY <1>6, <1>7, <1>8
<1>10. pinned.start # None => a = pinned.start /\ pinned.start <= LastToday + Week
  BY <1>1, <1>2 DEF SameRule, FirstAnchor
<1> QED BY <1>3, <1>5, <1>9, <1>10

\* An end that is counted, and the anchor pinned after it.
LEMMA Pinned ==
    ASSUME NEW row, Ruled(row), row.anchor = None, row.end = None, row.count \in Nat,
           day \in Nat, day <= LastToday, visits = {},
           row.start # None => row.start >= day /\ row.start <= LastToday + Week,
           NEW ended \in Ended(row), NEW pinned, pinned = Anchored(ended)
    PROVE  /\ Ruled(pinned) /\ SameRule(pinned, row)
           /\ pinned.anchor = FirstAnchor(row, DueFrom(row, day)) /\ pinned.anchor # None
           /\ row.count = 0 => pinned.end = None
           /\ row.count # 0 => pinned.end # None /\ pinned.end - 1 \in NthOccurrence(row, row.count)
<1> DEFINE o == DueFrom(row, day)
           a == FirstAnchor(row, o)
<1>1. /\ o \in Nat /\ o <= LastToday + Week
      /\ (row.start # None => row.start = o) /\ (row.start = None => o = day)
  BY HorizonIs DEF DueFrom, Ruled, Plan
<1>2. /\ Ruled(ended) /\ SameRule(ended, row) /\ ended.anchor = None
      /\ row.count = 0 => ended.end = None
      /\ row.count # 0 => ended.end # None /\ ended.end - 1 \in NthOccurrence(row, row.count)
  <2>1. CASE row.count = 0
    <3>1. ended = [row EXCEPT !.end = None]
      BY <2>1 DEF Ended
    <3>2. ended = row
      BY <3>1 DEF Ruled, Plan
    <3> QED BY <2>1, <3>2 DEF SameRule
  <2>2. CASE row.count # 0
    <3>1. PICK d \in NthOccurrence(row, row.count) : ended = [row EXCEPT !.end = d + 1]
      BY <2>2 DEF Ended
    <3>2. d \in Calendar
      BY <3>1 DEF NthOccurrence
    <3>3. d + 1 \in 1..(CalendarEnd + 1) /\ d + 1 # None /\ (d + 1) - 1 = d
      BY <3>2, HorizonIs DEF None
    <3>4. ended \in Plan /\ SameRule(ended, row) /\ ended.anchor = None /\ ended.end = d + 1
      BY <3>1, <3>3 DEF Ruled, SameRule, Plan
    <3> QED BY <2>2, <3>1, <3>3, <3>4 DEF Ruled, SameRule, Sensible
  <2> QED BY <2>1, <2>2
<1> HIDE DEF o
<1>3. a \in Nat /\ a <= LastToday + Week + Week
  <2>1. CASE row.start # None \/ row.frequency = "monthly"
    BY <1>1, <2>1, HorizonIs DEF FirstAnchor
  <2>2. CASE ~(row.start # None \/ row.frequency = "monthly")
    <3>1. a = FirstChosen(row, o)
      BY <2>2 DEF FirstAnchor
    <3>2. FirstChosen(row, o) \in o..(o + Week - 1)
      BY <1>1, FirstChosenIs DEF Ruled
    <3> QED BY <1>1, <3>1, <3>2, HorizonIs
  <2> QED BY <2>1, <2>2
<1>4. pinned = [ended EXCEPT !.anchor = a]
  <2>1. FirstChosen(ended, day) = FirstChosen(row, day)
    BY <1>2 DEF FirstChosen, EffectiveDays, SameRule
  <2>2. ended.start = row.start /\ ended.frequency = row.frequency
    BY <1>2 DEF SameRule
  <2>3. (IF ended.start # None THEN ended.start
         ELSE IF visits # {} THEN Min(visits)
         ELSE IF ended.frequency = "monthly" THEN day ELSE FirstChosen(ended, day)) = a
    BY <1>1, <2>1, <2>2 DEF FirstAnchor
  <2> HIDE DEF a
  <2> QED BY <1>2, <2>3 DEF Anchored
<1>5. a \in Calendar /\ a # None
  <2> HIDE DEF a
  <2> QED BY <1>1, <1>3, HorizonIs
<1> HIDE DEF a
<1>6. /\ pinned \in Plan /\ SameRule(pinned, ended) /\ pinned.anchor = a /\ pinned.end = ended.end
  BY <1>2, <1>4, <1>5 DEF Ruled, SameRule, Plan
<1>7. Ruled(pinned) /\ SameRule(pinned, row)
  BY <1>2, <1>6 DEF Ruled, SameRule, Sensible
<1> QED BY <1>2, <1>5, <1>6, <1>7 DEF a, o

\* The first tick, of create_schedule.
LEMMA OpenKeeps ==
    ASSUME CadenceInv, OddDays = FALSE, OpenSeries
    PROVE  CadenceInv'
<1>1. plan = NoPlan /\ visits = {} /\ day \in Nat /\ day <= LastToday
  BY HorizonIs DEF OpenSeries, CadenceInv, CadenceTypeOK, Running, Ruled, NoPlan
<1>2. PICK row \in Openings : Sensible(row) /\ \E ended \in Ended(row) : Generate(ended)
  BY DEF OpenSeries
<1>3. PICK ended \in Ended(row) : Generate(ended)
  BY <1>2
<1>4. PICK pinned : pinned = Anchored(ended)
  OBVIOUS
<1>5. /\ plan' = pinned /\ visits' = visits \cup GenerateDates(pinned)
      /\ lastTick' = day /\ day' = day
  BY <1>3, <1>4 DEF Generate
<1>6. /\ Ruled(row) /\ row.anchor = None /\ row.end = None /\ row.count \in Nat
      /\ row.start # None => row.start >= day /\ row.start <= LastToday + Week
  BY <1>1, <1>2, OpeningIs
<1>7. /\ Ruled(pinned) /\ SameRule(pinned, row)
      /\ pinned.anchor = FirstAnchor(row, DueFrom(row, day)) /\ pinned.anchor # None
      /\ row.count = 0 => pinned.end = None
      /\ row.count # 0 => pinned.end # None /\ pinned.end - 1 \in NthOccurrence(row, row.count)
  BY <1>1, <1>4, <1>6, Pinned
<1>8. /\ GenerateDates(pinned) = DatesDue(pinned, day)
      /\ \A d \in DueFrom(pinned, day)..(pinned.anchor - 1) : ~Occurs(pinned, d)
      /\ pinned.start # None => pinned.anchor = pinned.start /\ pinned.start <= LastToday + Week
  BY <1>1, <1>6, <1>7, FirstVisits
<1>9. EndsRight(pinned)
  <2>1. NthOccurrence(row, row.count) = Nth(pinned, row.count)
    BY <1>1, <1>6, <1>7, SameNth
  <2> QED BY <1>7, <2>1 DEF EndsRight, SameRule
<1>10. Running'
  BY <1>1, <1>5, <1>7, <1>8, <1>9 DEF Running
<1>11. visits' \subseteq Calendar /\ plan' \in Plan
  <2>1. DatesDue(pinned, day) \subseteq Calendar
    BY <1>1, <1>7, <1>8, PromisedType
  <2> QED BY <1>1, <1>5, <1>7, <1>8, <2>1 DEF Ruled
<1> QED BY <1>1, <1>5, <1>10, <1>11, HorizonIs DEF CadenceInv, CadenceTypeOK

\* Every later tick.
LEMMA TickKeeps ==
    ASSUME CadenceInv, CadenceTick
    PROVE  CadenceInv'
<1> DEFINE a == plan.anchor
           f == DueFrom(plan, lastTick)
           g == DueFrom(plan, day)
           r == Reach(plan, lastTick)
           s == Reach(plan, day)
<1>1. /\ Running /\ lastTick \in Nat /\ day \in Nat /\ lastTick <= day /\ day <= lastTick + Ahead * Week
      /\ day <= LastToday
  BY HorizonIs DEF CadenceInv, CadenceTypeOK, CadenceTick
<1>2. plan \in Plan /\ Ruled(plan) /\ a # None /\ a \in Nat
  BY <1>1, HorizonIs DEF Running, Ruled, Plan
<1>3. plan' = plan /\ visits' = visits \cup GenerateDates(plan) /\ lastTick' = day /\ day' = day
  <2>1. Anchored(plan) = plan
    BY <1>2 DEF Anchored
  <2> QED BY <2>1 DEF CadenceTick, Generate
<1>4. /\ f \in Nat /\ g \in Nat /\ r \in Nat /\ s \in Nat
      /\ f <= g /\ g <= r /\ r <= s
  <2> DEFINE st == plan.start
             h == Ahead * Week
  <2>1. st \in Nat \cup {None} /\ (st # None => st <= LastToday + Week)
    BY <1>1, <1>2, HorizonIs DEF Running, Plan
  <2>2. h \in Nat /\ lastTick \in Nat /\ day \in Nat /\ lastTick <= day /\ day <= lastTick + h
    BY <1>1, HorizonIs
  <2>3. f = (IF st # None /\ st > lastTick THEN st ELSE lastTick) /\ r = f + h
    BY DEF DueFrom, Reach
  <2>4. g = (IF st # None /\ st > day THEN st ELSE day) /\ s = g + h
    BY DEF DueFrom, Reach
  <2> HIDE DEF st, h, f, g, r, s
  <2>5. f \in Nat /\ g \in Nat /\ f <= g /\ g <= f + h
    BY <2>1, <2>2, <2>3, <2>4
  <2> QED BY <2>2, <2>3, <2>4, <2>5
<1>5. visits' = DatesDue(plan, day)
  <2>1. visits = {d \in a..r : Occurs(plan, d) /\ (plan.end # None => d < plan.end)}
    BY <1>1 DEF Running, DatesDue
  <2>2. GenerateDates(plan) = {d \in g..s : Occurs(plan, d) /\ (plan.end # None => d < plan.end)}
    BY <1>2, DatesAre
  <2>3. DatesDue(plan, day) = {d \in a..s : Occurs(plan, d) /\ (plan.end # None => d < plan.end)}
    BY DEF DatesDue
  <2>4. \A d \in f..(a - 1) : ~Occurs(plan, d)
    BY <1>1 DEF Running
  <2> HIDE DEF f, g, r, s, a
  <2>5. ASSUME NEW d, Occurs(plan, d) PROVE d \in a..s <=> d \in a..r \/ d \in g..s
    <3>1. d \in g..s => d >= a
      BY <1>2, <1>4, <2>4, <2>5
    <3> QED BY <1>2, <1>4, <3>1
  <2> QED BY <1>3, <2>1, <2>2, <2>3, <2>5
<1>6. \A d \in g..(a - 1) : ~Occurs(plan, d)
  <2>1. \A d \in f..(a - 1) : ~Occurs(plan, d)
    BY <1>1 DEF Running
  <2> HIDE DEF f, g, a
  <2> QED BY <1>2, <1>4, <2>1
<1>7. plan.start # None => plan.start <= LastToday + Week
  BY <1>1 DEF Running
<1>8. visits' \subseteq Calendar
  BY <1>1, <1>2, <1>5, <1>7, PromisedType
<1>9. Running'
  BY <1>1, <1>3, <1>5, <1>6 DEF Running
<1> QED BY <1>1, <1>2, <1>3, <1>8, <1>9, HorizonIs DEF CadenceInv, CadenceTypeOK

\* Saving the form counts again, and comes to the same end.
LEMMA SaveChangesNothing ==
    ASSUME CadenceInv, SaveEnds
    PROVE  plan' = plan
<1>1. Running /\ plan' \in Ended(plan)
  BY DEF SaveEnds, CadenceInv
<1>2. plan \in Plan /\ Ruled(plan) /\ plan.anchor # None /\ EndsRight(plan)
  BY <1>1 DEF Running, Ruled
<1>3. CASE plan.count = 0
  <2>1. plan.end = None /\ plan' = [plan EXCEPT !.end = None]
    BY <1>1, <1>2, <1>3 DEF EndsRight, Ended
  <2> QED BY <1>2, <2>1 DEF Plan
<1>4. CASE plan.count # 0
  <2>1. PICK d \in NthOccurrence(plan, plan.count) : plan' = [plan EXCEPT !.end = d + 1]
    BY <1>1, <1>4 DEF Ended
  <2>2. plan.end # None /\ plan.end - 1 \in Nth(plan, plan.count)
    BY <1>2, <1>4 DEF EndsRight
  <2>3. d \in Nth(plan, plan.count)
    BY <1>2, <2>1, NthIs
  <2>4. d = plan.end - 1
    BY <1>2, <2>2, <2>3, OneNth
  <2>5. plan.end \in Nat
    BY <1>2, <2>2 DEF Plan
  <2>6. d + 1 = plan.end
    BY <2>4, <2>5
  <2> QED BY <1>2, <2>1, <2>6 DEF Plan
<1> QED BY <1>3, <1>4

\* No step breaks the invariant.
LEMMA CadenceStep == OddDays = FALSE /\ CadenceInv /\ [CadenceNext]_cadenceVars => CadenceInv'
<1> SUFFICES ASSUME OddDays = FALSE, CadenceInv, [CadenceNext]_cadenceVars PROVE CadenceInv'
  OBVIOUS
<1>1. CASE OpenSeries
  BY <1>1, OpenKeeps
<1>2. CASE CadenceTick
  BY <1>2, TickKeeps
<1>3. CASE SaveEnds
  <2>1. UNCHANGED cadenceVars
    BY <1>3, SaveChangesNothing DEF SaveEnds, cadenceVars
  <2> QED BY <2>1 DEF cadenceVars, CadenceInv, CadenceTypeOK, Running
<1>4. CASE Midnight
  <2>1. day \in Nat /\ lastTick \in Nat /\ day' = day + 1 /\ UNCHANGED <<plan, visits, lastTick>>
        /\ day < LastToday /\ day < lastTick + Ahead * Week
    BY <1>4, HorizonIs DEF Midnight, CadenceInv, CadenceTypeOK
  <2>2. CadenceTypeOK'
    BY <2>1, HorizonIs DEF CadenceInv, CadenceTypeOK
  <2>3. lastTick' <= day' /\ day' <= lastTick' + Ahead * Week /\ day' <= LastToday
    BY <2>1, HorizonIs DEF CadenceInv
  <2>4. ((plan = NoPlan /\ visits = {}) \/ Running)'
    BY <2>1 DEF CadenceInv, Running
  <2> QED BY <2>2, <2>3, <2>4 DEF CadenceInv
<1>5. CASE UNCHANGED cadenceVars
  BY <1>5 DEF cadenceVars, CadenceInv, CadenceTypeOK, Running
<1> QED BY <1>1, <1>2, <1>3, <1>4, <1>5 DEF CadenceNext

-----------------------------------------------------------------------------
(* The promise *)

\* From the first visit on, the promised dates are the dates of the rule.
LEMMA PromiseIs ==
    ASSUME Ruled(plan), plan.anchor # None, NEW first \in Calendar, Occurs(plan, first),
           NEW d \in Calendar, first <= d
    PROVE  Promised(first, d) <=> Occurs(plan, d)
<1> DEFINE a == plan.anchor
           i == plan.interval
<1>1. /\ a \in Nat /\ i \in Nat \ {0} /\ plan.monthDay \in Nat /\ first \in Nat /\ d \in Nat
  BY HorizonIs DEF Ruled, Plan
<1>2. DailyAnchor(plan, 0) = a /\ PhaseAnchor(plan, 0) = a
  BY DEF DailyAnchor, PhaseAnchor
<1>3. CASE plan.frequency = "monthly"
  <2>1. Promised(first, d) <=> \/ DayOfMonth[d] = plan.monthDay
                               \/ DayOfMonth[d] < plan.monthDay /\ DayOfMonth[d + 1] = 1
    BY <1>3 DEF Promised
  <2> QED BY <1>1, <1>3, <2>1, OccursMonthly, Clamped DEF Occurs
<1>4. CASE plan.frequency = "daily"
  <2>1. Promised(first, d) <=> (d - first) % i = 0 /\ Weekday(d) \in EffectiveDays(plan)
    BY <1>4 DEF Promised
  <2>2. (first - a) % i = 0
    BY <1>2, <1>4, OccursDaily DEF Occurs
  <2>3. Occurs(plan, d) <=> (d - a) % i = 0 /\ Weekday(d) \in EffectiveDays(plan)
    BY <1>2, <1>4, OccursDaily DEF Occurs
  <2> DEFINE x == first - a
             y == d - a
  <2>4. x \in Int /\ y \in Int /\ x % i = 0 /\ y - x = d - first
    BY <1>1, <2>2
  <2> HIDE DEF x, y, i
  <2>5. y % i = 0 <=> (y - x) % i = 0
    BY <1>1, <2>4, MultiplesApart
  <2> QED BY <2>1, <2>3, <2>4, <2>5 DEF y
<1>5. CASE plan.frequency = "weekly"
  <2>1. Promised(first, d) <=> \E k \in 0..d : /\ Monday(d) = Monday(first) + k * i * Week
                                               /\ Weekday(d) \in EffectiveDays(plan)
    BY <1>5 DEF Promised
  <2>2. ((Monday(first) - Monday(a)) \div Week) % i = 0
    BY <1>2, <1>5, OccursWeekly DEF Occurs
  <2>3. Occurs(plan, d) <=> /\ Weekday(d) \in EffectiveDays(plan)
                            /\ ((Monday(d) - Monday(a)) \div Week) % i = 0
    BY <1>2, <1>5, OccursWeekly DEF Occurs
  <2> HIDE DEF a, i
  <2>5. a \in Nat /\ first \in Nat /\ d \in Nat /\ first <= d /\ i \in Nat \ {0}
    BY <1>1
  <2>6. InStep(a, first, i)
    BY <2>2 DEF InStep
  <2>7. InStep(a, d, i) <=> Later(first, d, i)
    BY <2>5, <2>6, InPhase, Zenon
  <2>4. ((Monday(d) - Monday(a)) \div Week) % i = 0
          <=> \E k \in 0..d : Monday(d) = Monday(first) + k * i * Week
    BY <2>7, Zenon DEF InStep, Later
  <2> QED BY <2>1, <2>3, <2>4
<1> QED BY <1>3, <1>4, <1>5 DEF Ruled

\* The dates that are due are the promised ones.
LEMMA KeptFollows == CadenceInv => CadenceKept
<1> SUFFICES ASSUME CadenceInv, visits # {}
             PROVE  LET first == Min(visits) IN
                      /\ \A d \in visits : Promised(first, d)
                      /\ \A d \in first..(lastTick + Ahead * Week) :
                            Promised(first, d) /\ (plan.end # None => d < plan.end) => d \in visits
  BY DEF CadenceKept
<1> DEFINE first == Min(visits)
<1> HIDE DEF first
<1>0. Running /\ visits \subseteq Calendar
  BY DEF CadenceInv, CadenceTypeOK
<1>00. day \in Nat /\ lastTick \in Nat /\ lastTick <= day /\ day <= LastToday
  BY HorizonIs DEF CadenceInv, CadenceTypeOK
<1>1. Running /\ visits \subseteq Calendar /\ lastTick \in Nat /\ lastTick <= LastToday
  BY <1>0, <1>00, HorizonIs
<1>2. plan \in Plan /\ Ruled(plan) /\ plan.anchor # None /\ plan.anchor \in Nat
  BY <1>1, HorizonIs DEF Running, Ruled, Plan
<1>3. visits = DatesDue(plan, lastTick)
  BY <1>1 DEF Running
<1>4. Reach(plan, lastTick) \in Calendar /\ Reach(plan, lastTick) >= lastTick + Ahead * Week
  BY <1>1, <1>2, ReachIs DEF Running
<1>5. first \in visits /\ \A d \in visits : first <= d
  BY <1>1, HorizonIs, MinIs DEF first
<1>6. first \in Calendar /\ Occurs(plan, first) /\ plan.anchor <= first
  BY <1>1, <1>2, <1>3, <1>5, HorizonIs DEF DatesDue
<1>7. ASSUME NEW d \in visits PROVE Promised(first, d)
  <2>1. d \in Calendar /\ first <= d /\ Occurs(plan, d)
    BY <1>1, <1>3, <1>5 DEF DatesDue
  <2> QED BY <1>2, <1>6, <2>1, PromiseIs
<1>8. ASSUME NEW d \in first..(lastTick + Ahead * Week), Promised(first, d), plan.end # None => d < plan.end
      PROVE  d \in visits
  <2>1. d \in Calendar /\ first <= d /\ d \in plan.anchor..Reach(plan, lastTick)
    BY <1>1, <1>2, <1>4, <1>6, HorizonIs
  <2>2. Occurs(plan, d)
    BY <1>2, <1>6, <1>8, <2>1, PromiseIs
  <2> QED BY <1>3, <1>8, <2>1, <2>2 DEF DatesDue
<1> QED BY <1>7, <1>8 DEF first

\* As many dates are due as were counted.
LEMMA EndFollows == CadenceInv => EndsAfterN
<1> SUFFICES ASSUME CadenceInv, plan.count # 0
             PROVE  /\ Cardinality(visits) <= plan.count
                    /\ lastTick + Ahead * Week >= plan.end => Cardinality(visits) = plan.count
  BY DEF EndsAfterN
<1>1. Running /\ lastTick \in Nat /\ lastTick <= LastToday
  BY HorizonIs DEF CadenceInv, CadenceTypeOK, NoPlan
<1>2. plan \in Plan /\ plan.anchor \in Nat /\ plan.end \in Nat /\ plan.end # None
      /\ plan.end - 1 \in Nth(plan, plan.count) /\ visits = DatesDue(plan, lastTick)
  BY <1>1, HorizonIs DEF Running, Ruled, Plan, EndsRight
<1> DEFINE e == plan.end - 1
           all == Upto(plan, e)
<1>3. e \in Nat /\ Cardinality(all) = plan.count
  BY <1>2, HorizonIs DEF Nth
<1>4. IsFiniteSet(all)
  <2> DEFINE a == plan.anchor
  <2>1. a \in Int /\ e \in Int
    BY <1>2, <1>3
  <2>2. all \subseteq a..e
    BY DEF Upto
  <2> HIDE DEF a, e, all
  <2>3. IsFiniteSet(a..e)
    BY <2>1, FS_Interval
  <2> QED BY <2>2, <2>3, FS_Subset
<1>5. visits \in SUBSET all
  BY <1>2, <1>3, HorizonIs DEF DatesDue, Upto
<1>6. Reach(plan, lastTick) \in Nat /\ Reach(plan, lastTick) >= lastTick + Ahead * Week
  BY <1>1, <1>2, ReachIs, HorizonIs DEF Running
<1>7. ASSUME lastTick + Ahead * Week >= plan.end PROVE visits = all
  <2>1. \A d \in plan.anchor..e : d \in plan.anchor..Reach(plan, lastTick) /\ d < plan.end
    BY <1>1, <1>2, <1>3, <1>6, <1>7, HorizonIs
  <2>2. all \subseteq visits
    BY <1>2, <2>1 DEF DatesDue, Upto
  <2> QED BY <1>5, <2>2
<1>8. Cardinality(visits) <= plan.count
  BY <1>3, <1>4, <1>5, FS_Subset
<1> QED BY <1>3, <1>7, <1>8

\* A series keeps to the dates that were promised, on whatever days the tick
\* ran, failed and ran again, for any week, calendar and rule, where an
\* every-N-days series has no chosen weekdays (_phase_anchor).
THEOREM PromiseIsKept ==
    ASSUME OddDays = FALSE
    PROVE  CadenceSpec => []CadenceKept
<1>1. CadenceInv /\ [CadenceNext]_cadenceVars => CadenceInv'
  BY CadenceStep
<1> QED BY <1>1, CadenceStarts, KeptFollows, PTL DEF CadenceSpec

\* "Ends after N" gives N visits in all, however often the form is saved
\* (_nth_occurrence_date), under the same condition.
THEOREM CountIsKept ==
    ASSUME OddDays = FALSE
    PROVE  CadenceSpec => []EndsAfterN
<1>1. CadenceInv /\ [CadenceNext]_cadenceVars => CadenceInv'
  BY CadenceStep
<1> QED BY <1>1, CadenceStarts, EndFollows, PTL DEF CadenceSpec
=============================================================================
