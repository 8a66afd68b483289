--------------------------- MODULE CalendarProofs ---------------------------
(***************************************************************************)
(* What holds of the mirrored calendars for any number of jobs, events,    *)
(* bookings and feeds.  An event whose id the program learned stays        *)
(* findable from its job, while office requests do not overlap with pushes *)
(* and healing. A turnover is taken off the board only for a guest who is  *)
(* gone, and what the office decided of one stands, however feeds are      *)
(* read, torn and read again.                                              *)
(***************************************************************************)
EXTENDS GoogleMirror, TurnoverSync, FoldLemmas

-----------------------------------------------------------------------------
(* The Google mirror *)

\* Google keeps the job an event was made for, and every id the program holds
\* is of an event made for the job it is held for.
Attributed ==
    /\ \A e \in CalendarEvents : google[e].live => google[e].of # NoJob
    /\ \A j \in Jobs : Linked(j) => google[task[j].event].of = j
    /\ \A p \in Pushers, j \in Jobs : pushing[p].made[j] # NoEvent =>
         google[pushing[p].made[j]].of = j
    /\ booked.made # NoEvent => booked.job # NoJob /\ google[booked.made].of = booked.job

\* A job with an event on its way to its row has none in its row, and only the
\* push that holds the row has made one.
OneMaker ==
    /\ booked.job # NoJob => ~Linked(booked.job)
    /\ \A p \in Pushers, j \in Jobs : pushing[p].made[j] # NoEvent =>
         holder[j] = p /\ ~Linked(j) /\ j \notin pushing[p].todo

\* A push that is over has left nothing, and an office request has the calendar
\* to itself.
Apart ==
    /\ \A p \in Pushers : pushing[p].on \/ pushing[p] = NoPush
    /\ booked # NotBooked => Calm

\* What is about to be cleared is still there to be cleared, and still dead.
HealsTheDead ==
    healing.on => \A j \in healing.missing : Linked(j) /\ ~google[task[j].event].live

MirrorInv ==
    MirrorTypeOK /\ Attributed /\ OneMaker /\ Apart /\ HealsTheDead /\ KnownEventIsLinked

-----------------------------------------------------------------------------
(* Typing *)

\* The resting values are well typed.
LEMMA RestTypes ==
    /\ NoPush.on = FALSE /\ NoPush.todo = {} /\ \A j \in Jobs : NoPush.made[j] = NoEvent
    /\ NoPush \in [on: BOOLEAN, todo: SUBSET Jobs, made: [Jobs -> CalendarEvents \cup {NoEvent}]]
    /\ NotBooked \in [job: Jobs \cup {NoJob}, made: CalendarEvents \cup {NoEvent}]
    /\ NotBooked.job = NoJob /\ NotBooked.made = NoEvent
    /\ NotHealing \in [on: BOOLEAN, missing: SUBSET Jobs] /\ NotHealing.on = FALSE
BY DEF NoPush, NotBooked, NotHealing

\* The next job of a push is one of its jobs.
LEMMA NextToPush ==
    ASSUME NEW S \in SUBSET Jobs, S # {}
    PROVE  Min(S) \in S /\ Min(S) \in Jobs
<1> DEFINE Less == OpToRel(<, Nat)
<1>1. S \subseteq Nat
  BY MirrorAssumption
<1>2. IsWellFoundedOn(Less, Nat)
  BY NatLessThanWellFounded
<1> HIDE DEF Less
<1>3. \E x \in S : \A y \in S : ~(<<y, x>> \in Less)
  BY <1>1, <1>2, WFMin
<1>4. \A x, y \in Nat : y < x => <<y, x>> \in Less
  BY DEF OpToRel, Less
<1>5. PICK x \in S : \A y \in S : ~(<<y, x>> \in Less)
  BY <1>3
<1>6. \A y \in S : ~(y < x) /\ x \in Nat /\ y \in Nat
  BY <1>1, <1>4, <1>5
<1>7. \A y \in S : x =< y
  BY <1>6
<1> QED BY <1>7 DEF Min

\* What Google's side of a creation does: nothing, an event for the job and its
\* id, or an event for the job and no answer.
LEMMA CreateMakes ==
    ASSUME MirrorTypeOK, NEW j \in Jobs, NEW e \in CalendarEvents \cup {NoEvent}, Create(j, e)
    PROVE  /\ google' \in [CalendarEvents -> [of: Jobs \cup {NoJob}, live: BOOLEAN]]
           /\ strays' \subseteq CalendarEvents /\ strays \subseteq strays'
           /\ \A d \in CalendarEvents :
                \/ google'[d] = google[d]
                \/ /\ google[d].of = NoJob /\ google'[d].of = j
                   /\ d = e \/ d \in strays'
           /\ e # NoEvent => google'[e].of = j /\ google[e].of = NoJob
<1> USE DEF MirrorTypeOK
<1>1. CASE /\ e \in CalendarEvents /\ google[e].of = NoJob
           /\ google' = [google EXCEPT ![e] = [of |-> j, live |-> TRUE]]
           /\ UNCHANGED strays
  BY <1>1
<1>2. CASE e = NoEvent /\ UNCHANGED <<google, strays>>
  BY <1>2
<1>3. CASE /\ e = NoEvent
           /\ \E lost \in CalendarEvents :
                /\ google[lost].of = NoJob
                /\ google' = [google EXCEPT ![lost] = [of |-> j, live |-> TRUE]]
                /\ strays' = strays \cup {lost}
  BY <1>3
<1> QED BY <1>1, <1>2, <1>3 DEF Create

\* And of a deletion: the event goes, or nothing changes.
LEMMA DeleteMakes ==
    ASSUME MirrorTypeOK, NEW e \in CalendarEvents, NEW ok \in BOOLEAN, Delete(e, ok)
    PROVE  /\ google' \in [CalendarEvents -> [of: Jobs \cup {NoJob}, live: BOOLEAN]]
           /\ \A d \in CalendarEvents : google'[d].of = google[d].of
                /\ (google'[d].live => google[d].live)
                /\ (d # e => google'[d] = google[d])
           /\ ok => ~google'[e].live
<1>1. CASE google[e].live /\ google' = [google EXCEPT ![e].live = FALSE]
  <2> DEFINE dead == [google[e] EXCEPT !.live = FALSE]
  <2>0. google' = [google EXCEPT ![e] = dead]
    BY <1>1
  <2>a. google[e] \in [of: Jobs \cup {NoJob}, live: BOOLEAN]
    BY DEF MirrorTypeOK
  <2>1. /\ dead \in [of: Jobs \cup {NoJob}, live: BOOLEAN]
        /\ dead.of = google[e].of /\ dead.live = FALSE
    BY <2>a
  <2> HIDE DEF dead
  <2>2. \A d \in CalendarEvents : d # e => google'[d] = google[d]
    BY <1>1 DEF MirrorTypeOK
  <2>3. google' \in [CalendarEvents -> [of: Jobs \cup {NoJob}, live: BOOLEAN]]
    BY <2>0, <2>1 DEF MirrorTypeOK
  <2> QED BY <2>0, <2>1, <2>2, <2>3 DEF MirrorTypeOK
<1>2. CASE ~ok /\ UNCHANGED google
  BY <1>2 DEF MirrorTypeOK
<1> QED BY <1>1, <1>2 DEF Delete

-----------------------------------------------------------------------------
(* The office has the calendar to itself *)

\* Google's rows and the program's, as types.
Events == [CalendarEvents -> [of: Jobs \cup {NoJob}, live: BOOLEAN]]

\* While no push and no healing runs, nothing is in flight but what the office made.
LEMMA AloneInFlight ==
    ASSUME MirrorInv, Crowded = FALSE, Calm
    PROVE  /\ \A p \in Pushers, j \in Jobs : pushing[p].made[j] = NoEvent
           /\ ~healing.on
           /\ InFlight \subseteq {booked.made, NoEvent}
<1>1. \A p \in Pushers : pushing[p] = NoPush
  BY DEF Calm, MirrorInv, Apart
<1>2. ~healing.on
  BY RestTypes DEF Calm
<1> QED BY <1>1, <1>2, RestTypes DEF InFlight

\* A step of the office keeps the invariant when what it leaves in Google, in the
\* rows and in its own hands agree.
LEMMA OfficeKeeps ==
    ASSUME MirrorInv, Crowded = FALSE, Calm, UNCHANGED <<pushing, holder, healing>>,
           task' \in [Jobs -> Task], google' \in Events,
           booked' \in [job: Jobs \cup {NoJob}, made: CalendarEvents \cup {NoEvent}],
           strays' \subseteq CalendarEvents,
           \A e \in CalendarEvents : google'[e].live => google'[e].of # NoJob,
           \A j \in Jobs : task'[j].event # NoEvent => google'[task'[j].event].of = j,
           booked'.made # NoEvent =>
             booked'.job # NoJob /\ google'[booked'.made].of = booked'.job,
           booked'.job # NoJob => task'[booked'.job].event = NoEvent,
           \A e \in CalendarEvents \ strays' :
             google'[e].live /\ e # booked'.made => task'[google'[e].of].event = e
    PROVE  MirrorInv'
<1>1. MirrorTypeOK'
  BY DEF MirrorInv, MirrorTypeOK, Events
<1>2. \A p \in Pushers, j \in Jobs : pushing'[p].made[j] = NoEvent
  BY AloneInFlight
<1>3. Attributed' /\ OneMaker'
  BY <1>2 DEF Attributed, OneMaker, Linked
<1>4. Apart' /\ HealsTheDead'
  BY AloneInFlight DEF MirrorInv, Apart, Calm, HealsTheDead
<1>5. booked'.made \in InFlight'
  BY DEF InFlight
<1>6. KnownEventIsLinked'
  BY <1>5 DEF KnownEventIsLinked
<1> QED BY <1>1, <1>3, <1>4, <1>6 DEF MirrorInv

\* So it does when it makes no event, and drops a link only when the event is
\* gone or becomes a stray.
LEMMA UnlinkKeeps ==
    ASSUME MirrorInv, Crowded = FALSE, Calm, Idling, NEW j \in Jobs,
           UNCHANGED <<booked, pushing, holder, healing>>,
           task' \in [Jobs -> Task], google' \in Events,
           strays \subseteq strays', strays' \subseteq CalendarEvents,
           \A d \in CalendarEvents : google'[d].of = google[d].of
                                     /\ (google'[d].live => google[d].live),
           \A i \in Jobs \ {j} : task'[i].event = task[i].event,
           \/ task'[j].event = task[j].event
           \/ /\ task'[j].event = NoEvent
              /\ \A e \in CalendarEvents : task[j].event = e /\ google'[e].live => e \in strays'
    PROVE  MirrorInv'
<1> USE DEF MirrorInv
<1>1. booked' = NotBooked /\ booked'.made = NoEvent /\ booked'.job = NoJob
      /\ NoEvent \notin CalendarEvents /\ booked' \in [job: Jobs \cup {NoJob},
                                                      made: CalendarEvents \cup {NoEvent}]
  BY RestTypes, MirrorAssumption DEF Idling
<1>2. \A i \in Jobs : task[i].event \in CalendarEvents \cup {NoEvent}
  BY DEF MirrorTypeOK, Task
<1>3. \A e \in CalendarEvents : google'[e].live => google'[e].of # NoJob
  BY DEF Attributed
<1>4. \A i \in Jobs : task'[i].event # NoEvent => google'[task'[i].event].of = i
  BY <1>2 DEF Attributed, Linked
<1>5. ASSUME NEW e \in CalendarEvents \ strays', google'[e].live
      PROVE  task'[google'[e].of].event = e
  <2>1. e \notin InFlight
    BY <1>1, <1>5, AloneInFlight, ZenonT(40)
  <2>2. task[google[e].of].event = e /\ google[e].of \in Jobs
    BY <1>5, <2>1 DEF KnownEventIsLinked, Attributed, MirrorTypeOK
  <2> QED BY <1>5, <2>2
<1> QED BY <1>1, <1>3, <1>4, <1>5, OfficeKeeps

\* A row that is given another status and link, and what that leaves typed.
LEMMA TaskSet ==
    ASSUME MirrorTypeOK, NEW j \in Jobs, NEW row \in Task,
           task' = [task EXCEPT ![j] = row]
    PROVE  task' \in [Jobs -> Task] /\ task'[j] = row
           /\ \A i \in Jobs \ {j} : task'[i] = task[i]
BY DEF MirrorTypeOK

\* Every request about one job keeps the invariant.
LEMMA JobRequestKeeps ==
    ASSUME MirrorInv, Crowded = FALSE, NEW j \in Jobs, MirrorOffice(j)
    PROVE  MirrorInv'
<1> USE DEF MirrorInv
<1>0. /\ task[j] \in Task /\ task[j].event \in CalendarEvents \cup {NoEvent}
      /\ google \in Events /\ NoEvent \notin CalendarEvents /\ strays \subseteq CalendarEvents
      /\ Calm /\ Idling
  <2>1. Calm /\ Idling
    BY DEF MirrorOffice, Commission, CancelLinked, MoveCalendar, RescheduleLinked, RemoveTask,
           ReadBack, SetStatus, OfficeMay
  <2> QED BY <2>1, MirrorAssumption DEF MirrorTypeOK, Task, Events
<1>1. CASE Commission(j)
  <2> DEFINE row == [task[j] EXCEPT !.status = "scheduled"]
  <2>1. row \in Task /\ row.event = NoEvent /\ task[j].event = NoEvent
    BY <1>0, <1>1 DEF Commission, Task
  <2>2. task' = [task EXCEPT ![j] = row]
    BY <1>1 DEF Commission
  <2> HIDE DEF row
  <2>3. task' \in [Jobs -> Task] /\ \A i \in Jobs : task'[i].event = task[i].event
    BY <2>1, <2>2, TaskSet
  <2>4. booked' = [job |-> j, made |-> NoEvent] /\ google' = google /\ strays' = strays
        /\ UNCHANGED <<pushing, holder, healing>>
    BY <1>1 DEF Commission, NotBooked
  <2>5. ASSUME NEW e \in CalendarEvents \ strays', google'[e].live
        PROVE  task'[google'[e].of].event = e
    <3>1. e \notin InFlight
      BY <1>0, AloneInFlight, RestTypes DEF Idling
    <3>2. task[google[e].of].event = e /\ google[e].of \in Jobs
      BY <2>4, <2>5, <3>1 DEF KnownEventIsLinked, Attributed, MirrorTypeOK
    <3> QED BY <2>3, <2>4, <3>2
  <2>6. \A i \in Jobs : task'[i].event # NoEvent => google'[task'[i].event].of = i
    BY <2>3, <2>4 DEF Attributed, Linked
  <2> QED BY <1>0, <2>1, <2>3, <2>4, <2>5, <2>6, OfficeKeeps DEF Attributed
<1>2. CASE CancelLinked(j)
  <2>1. PICK ok \in BOOLEAN : /\ Delete(task[j].event, ok)
                              /\ task' = [task EXCEPT ![j].status = "cancelled",
                                                      ![j].event = IF ok THEN NoEvent ELSE @]
    BY <1>2 DEF CancelLinked
  <2> DEFINE row == [task[j] EXCEPT !.status = "cancelled", !.event = IF ok THEN NoEvent ELSE @]
  <2>2. row \in Task /\ row.event = IF ok THEN NoEvent ELSE task[j].event
    BY <1>0 DEF Task
  <2>3. task' = [task EXCEPT ![j] = row]
    BY <1>0, <2>1 DEF MirrorTypeOK
  <2> HIDE DEF row
  <2>4. task[j].event \in CalendarEvents
    BY <1>0, <1>2 DEF CancelLinked, Linked
  <2>5. UNCHANGED <<booked, pushing, holder, healing, strays>>
    BY <1>2 DEF CancelLinked
  <2>6. /\ google' \in Events
        /\ \A d \in CalendarEvents : google'[d].of = google[d].of
                                     /\ (google'[d].live => google[d].live)
        /\ ok => ~google'[task[j].event].live
    BY <2>1, <2>4, DeleteMakes DEF Events
  <2> QED BY <1>0, <2>2, <2>3, <2>5, <2>6, TaskSet, UnlinkKeeps
<1>3. CASE MoveCalendar(j) /\ Delete(task[j].event, FALSE) /\ UNCHANGED <<task, strays>>
  <2>1. task[j].event \in CalendarEvents /\ UNCHANGED <<booked, pushing, holder, healing>>
    BY <1>0, <1>3 DEF MoveCalendar, Linked
  <2>2. /\ google' \in Events
        /\ \A d \in CalendarEvents : google'[d].of = google[d].of
                                     /\ (google'[d].live => google[d].live)
    BY <1>3, <2>1, DeleteMakes DEF Events
  <2> QED BY <1>0, <1>3, <2>1, <2>2, UnlinkKeeps DEF MirrorTypeOK
<1>4. CASE RescheduleLinked(j)
  <2>1. PICK ok \in BOOLEAN : Delete(task[j].event, ok)
    BY <1>4 DEF RescheduleLinked
  <2> DEFINE row == [task[j] EXCEPT !.event = NoEvent]
  <2>2. row \in Task /\ row.event = NoEvent
    BY <1>0 DEF Task
  <2>3. task' = [task EXCEPT ![j] = row]
    BY <1>0, <1>4 DEF MirrorTypeOK, RescheduleLinked
  <2> HIDE DEF row
  <2>4. task[j].event \in CalendarEvents
    BY <1>0, <1>4 DEF RescheduleLinked, Linked
  <2>5. UNCHANGED <<booked, pushing, holder, healing>>
        /\ strays' = strays \cup {e \in {task[j].event} : google'[e].live}
    BY <1>4 DEF RescheduleLinked
  <2>6. /\ google' \in Events
        /\ \A d \in CalendarEvents : google'[d].of = google[d].of
                                     /\ (google'[d].live => google[d].live)
    BY <2>1, <2>4, DeleteMakes DEF Events
  <2>7. strays \subseteq strays' /\ strays' \subseteq CalendarEvents
        /\ \A e \in CalendarEvents : task[j].event = e /\ google'[e].live => e \in strays'
    BY <1>0, <2>4, <2>5
  <2> QED BY <1>0, <2>2, <2>3, <2>5, <2>6, <2>7, TaskSet, UnlinkKeeps, ZenonT(40)
<1>5. CASE RemoveTask(j)
  <2> DEFINE row == [status |-> "deleted", event |-> NoEvent]
  <2>1. row \in Task /\ row.event = NoEvent
    BY DEF Task
  <2>2. /\ task' = [task EXCEPT ![j] = row]
        /\ UNCHANGED <<booked, pushing, holder, healing>>
        /\ strays' = strays \cup {e \in CalendarEvents : task[j].event = e /\ google'[e].live}
    BY <1>5 DEF RemoveTask
  <2> HIDE DEF row
  <2>3. /\ google' \in Events
        /\ \A d \in CalendarEvents : google'[d].of = google[d].of
                                     /\ (google'[d].live => google[d].live)
    <3>1. CASE Linked(j) /\ \E ok \in BOOLEAN : Delete(task[j].event, ok)
      BY <1>0, <3>1, DeleteMakes DEF Linked, Events
    <3>2. CASE UNCHANGED google
      BY <1>0, <3>2
    <3> QED BY <1>5, <3>1, <3>2 DEF RemoveTask
  <2>4. strays \subseteq strays' /\ strays' \subseteq CalendarEvents
        /\ \A e \in CalendarEvents : task[j].event = e /\ google'[e].live => e \in strays'
    BY <1>0, <2>2
  <2> QED BY <1>0, <2>1, <2>2, <2>3, <2>4, TaskSet, UnlinkKeeps, ZenonT(40)
<1>6. ASSUME NEW to \in {"scheduled", "completed", "cancelled"},
             task' = [task EXCEPT ![j].status = to],
             UNCHANGED <<google, booked, pushing, holder, healing, strays>>
      PROVE  MirrorInv'
  <2> DEFINE row == [task[j] EXCEPT !.status = to]
  <2>1. row \in Task /\ row.event = task[j].event
    BY <1>0 DEF Task
  <2>2. task' = [task EXCEPT ![j] = row]
    BY <1>6
  <2> HIDE DEF row
  <2> QED BY <1>0, <1>6, <2>1, <2>2, TaskSet, UnlinkKeeps
<1>7. CASE ReadBack(j) \/ SetStatus(j, "scheduled", "cancelled")
           \/ SetStatus(j, "scheduled", "completed") \/ SetStatus(j, "cancelled", "scheduled")
  BY <1>6, <1>7 DEF ReadBack, SetStatus
<1>8. ASSUME NEW e \in CalendarEvents \cup {NoEvent}, Linked(j),
             UNCHANGED <<booked, pushing, holder, healing>>,
             e # NoEvent => google[e].of = NoJob,
             google' = [d \in CalendarEvents |->
                          IF d = task[j].event THEN [google[d] EXCEPT !.live = FALSE]
                          ELSE IF d = e THEN [of |-> j, live |-> TRUE] ELSE google[d]],
             \/ task' = [task EXCEPT ![j].event = e] /\ UNCHANGED strays
             \/ UNCHANGED task /\ strays' = strays \cup ({e} \ {NoEvent})
      PROVE  MirrorInv'
  <2>1. \A d \in CalendarEvents : google[d] \in [of: Jobs \cup {NoJob}, live: BOOLEAN]
    BY DEF MirrorTypeOK
  <2>2. task[j].event \in CalendarEvents /\ google[task[j].event].of = j /\ task[j].event # e
    BY <1>0, <1>8, MirrorAssumption DEF Linked, Attributed
  <2>3. \A d \in CalendarEvents :
          /\ google'[d] \in [of: Jobs \cup {NoJob}, live: BOOLEAN]
          /\ d # e => google'[d].of = google[d].of /\ (google'[d].live => google[d].live)
          /\ d = e => google'[d].of = j
          /\ d = task[j].event => ~google'[d].live
    BY <1>8, <2>1, <2>2
  <2>4. google' \in Events
    BY <1>8, <2>3 DEF Events
  <2>5. /\ task' \in [Jobs -> Task]
        /\ \A i \in Jobs \ {j} : task'[i].event = task[i].event
        /\ strays \subseteq strays' /\ strays' \subseteq CalendarEvents
        /\ \/ task'[j].event = e
           \/ task'[j].event = task[j].event /\ (e \in CalendarEvents => e \in strays')
    <3>1. CASE task' = [task EXCEPT ![j].event = e] /\ UNCHANGED strays
      <4> DEFINE row == [task[j] EXCEPT !.event = e]
      <4>1. row \in Task /\ row.event = e /\ task' = [task EXCEPT ![j] = row]
        BY <1>0, <3>1 DEF Task
      <4> HIDE DEF row
      <4> QED BY <1>0, <3>1, <4>1, TaskSet
    <3>2. CASE UNCHANGED task /\ strays' = strays \cup ({e} \ {NoEvent})
      BY <1>0, <3>2 DEF MirrorTypeOK
    <3> QED BY <1>8, <3>1, <3>2
  <2>6. \A i \in Jobs : task[i].event \in CalendarEvents \cup {NoEvent}
    BY DEF MirrorTypeOK, Task
  <2>7. \A i \in Jobs : task'[i].event # NoEvent => google'[task'[i].event].of = i
    <3>1. \A i \in Jobs : task[i].event # NoEvent =>
            task[i].event # e /\ google'[task[i].event].of = i
      BY <1>8, <2>3, <2>6, MirrorAssumption DEF Attributed, Linked
    <3> QED BY <2>3, <2>5, <3>1
  <2>8. \A d \in CalendarEvents : google'[d].live => google'[d].of # NoJob
    BY <2>3, MirrorAssumption DEF Attributed
  <2>9. ASSUME NEW d \in CalendarEvents \ strays', google'[d].live
        PROVE  task'[google'[d].of].event = d
    <3>1. CASE d = e
      BY <1>0, <2>2, <2>3, <2>5, <2>9, <3>1
    <3>2. CASE d # e
      <4>1. google[d].live /\ d # task[j].event /\ google'[d].of = google[d].of /\ d \notin strays
        BY <2>3, <2>5, <2>9, <3>2
      <4>2. d \notin InFlight
        BY <1>0, AloneInFlight, RestTypes DEF Idling
      <4>3. task[google[d].of].event = d /\ google[d].of \in Jobs
        BY <4>1, <4>2 DEF KnownEventIsLinked, Attributed, MirrorTypeOK
      <4> QED BY <2>5, <4>1, <4>3
    <3> QED BY <3>1, <3>2
  <2>10. booked' = NotBooked /\ booked' \in [job: Jobs \cup {NoJob},
                                             made: CalendarEvents \cup {NoEvent}]
         /\ booked'.made = NoEvent /\ booked'.job = NoJob
    BY <1>0, <1>8, RestTypes DEF Idling
  <2> QED BY <1>0, <1>8, <2>4, <2>5, <2>7, <2>8, <2>9, <2>10, OfficeKeeps
<1>9. CASE MoveCalendar(j)
  BY <1>3, <1>8, <1>9 DEF MoveCalendar
<1> QED BY <1>1, <1>2, <1>4, <1>5, <1>7, <1>9 DEF MirrorOffice

\* So does the second half of an office request, or its death.
LEMMA CommissionKeeps ==
    ASSUME MirrorInv, Crowded = FALSE,
           CommissionCreate \/ CommissionCommit \/ CommissionDies
    PROVE  MirrorInv'
<1> USE DEF MirrorInv
<1>0. /\ Calm /\ UNCHANGED <<pushing, holder, healing>>
      /\ NoEvent \notin CalendarEvents /\ google \in Events /\ strays \subseteq CalendarEvents
      /\ task \in [Jobs -> Task]
      /\ booked \in [job: Jobs \cup {NoJob}, made: CalendarEvents \cup {NoEvent}]
      /\ NotBooked \in [job: Jobs \cup {NoJob}, made: CalendarEvents \cup {NoEvent}]
      /\ NotBooked.job = NoJob /\ NotBooked.made = NoEvent
  <2>1. Calm /\ UNCHANGED <<pushing, holder, healing>>
    BY DEF CommissionCreate, CommissionCommit, CommissionDies, Apart, Idling
  <2> QED BY <2>1, RestTypes, MirrorAssumption DEF MirrorTypeOK, Events
<1>1. ASSUME NEW e \in CalendarEvents, e # booked.made, google[e].live, e \notin strays
      PROVE  task[google[e].of].event = e /\ google[e].of \in Jobs
  BY <1>0, <1>1, AloneInFlight DEF KnownEventIsLinked, Attributed, MirrorTypeOK
<1>2. CASE CommissionCreate
  <2>1. PICK e \in CalendarEvents \cup {NoEvent} :
          /\ Create(booked.job, e)
          /\ booked' = IF e = NoEvent THEN NotBooked ELSE [booked EXCEPT !.made = e]
    BY <1>2 DEF CommissionCreate
  <2>2. booked.job \in Jobs /\ booked.made = NoEvent /\ task' = task
    BY <1>0, <1>2 DEF CommissionCreate
  <2>3. /\ google' \in Events /\ strays' \subseteq CalendarEvents /\ strays \subseteq strays'
        /\ \A d \in CalendarEvents :
             \/ google'[d] = google[d]
             \/ /\ google[d].of = NoJob
                /\ google'[d].of = booked.job
                /\ d = e \/ d \in strays'
        /\ e # NoEvent => google'[e].of = booked.job
    BY <2>1, <2>2, CreateMakes DEF Events
  <2>4. /\ booked' \in [job: Jobs \cup {NoJob}, made: CalendarEvents \cup {NoEvent}]
        /\ booked'.made = e
        /\ booked'.job = IF e = NoEvent THEN NoJob ELSE booked.job
    <3>1. CASE e = NoEvent
      BY <1>0, <2>1, <3>1
    <3>2. CASE e # NoEvent
      BY <1>0, <2>1, <3>2
    <3> QED BY <3>1, <3>2
  <2>5. booked'.job # NoJob => task'[booked'.job].event = NoEvent
    BY <2>2, <2>4 DEF OneMaker, Linked
  <2>6. \A d \in CalendarEvents : google'[d].live => google'[d].of # NoJob
    BY <2>2, <2>3, MirrorAssumption DEF Attributed
  <2>7. \A i \in Jobs : task'[i].event # NoEvent => google'[task'[i].event].of = i
    <3>1. \A i \in Jobs : task[i].event \in CalendarEvents \cup {NoEvent}
      BY <1>0 DEF Task
    <3> QED BY <2>2, <2>3, <3>1, MirrorAssumption DEF Attributed, Linked
  <2>8. ASSUME NEW d \in CalendarEvents \ strays', google'[d].live, d # e
        PROVE  task'[google'[d].of].event = d
    <3>1. google'[d] = google[d] /\ d \notin strays
      BY <2>3, <2>8
    <3> QED BY <1>0, <1>1, <2>2, <2>8, <3>1
  <2> QED BY <1>0, <2>2, <2>3, <2>4, <2>5, <2>6, <2>7, <2>8, MirrorAssumption, OfficeKeeps
<1>3. CASE CommissionCommit
  <2>1. booked.job \in Jobs /\ booked.made \in CalendarEvents
        /\ google[booked.made].of = booked.job
    BY <1>0, <1>3 DEF CommissionCommit, Attributed
  <2> DEFINE row == [task[booked.job] EXCEPT !.event = booked.made]
  <2>2. row \in Task /\ row.event = booked.made
    BY <1>0, <2>1 DEF Task
  <2>3. task' = [task EXCEPT ![booked.job] = row] /\ booked' = NotBooked
        /\ google' = google /\ strays' = strays
    BY <1>3 DEF CommissionCommit
  <2> HIDE DEF row
  <2>4. /\ task' \in [Jobs -> Task] /\ task'[booked.job].event = booked.made
        /\ \A i \in Jobs \ {booked.job} : task'[i] = task[i]
    BY <2>1, <2>2, <2>3, TaskSet
  <2>5. ~Linked(booked.job)
    BY <2>1, MirrorAssumption DEF OneMaker
  <2>6. ASSUME NEW d \in CalendarEvents \ strays', google'[d].live
        PROVE  task'[google'[d].of].event = d
    <3>1. CASE d = booked.made
      BY <2>1, <2>3, <2>4, <3>1
    <3>2. CASE d # booked.made
      <4>1. task[google[d].of].event = d /\ google[d].of \in Jobs
        BY <1>1, <2>3, <2>6, <3>2
      <4>2. google[d].of # booked.job
        BY <1>0, <2>5, <4>1 DEF Linked
      <4> QED BY <2>3, <2>4, <4>1, <4>2
    <3> QED BY <3>1, <3>2
  <2>7. \A i \in Jobs : task'[i].event # NoEvent => google'[task'[i].event].of = i
    BY <2>1, <2>3, <2>4 DEF Attributed, Linked
  <2> QED BY <1>0, <2>3, <2>4, <2>6, <2>7, OfficeKeeps DEF Attributed
<1>4. CASE CommissionDies
  <2>1. booked' = NotBooked /\ strays' = strays \cup ({booked.made} \ {NoEvent})
        /\ task' = task /\ google' = google
    BY <1>4 DEF CommissionDies
  <2>2. \A d \in CalendarEvents \ strays' : google'[d].live => task'[google'[d].of].event = d
    BY <1>0, <1>1, <2>1
  <2>3. \A i \in Jobs : task'[i].event # NoEvent => google'[task'[i].event].of = i
    BY <2>1 DEF Attributed, Linked
  <2> QED BY <1>0, <2>1, <2>2, <2>3, OfficeKeeps DEF Attributed
<1> QED BY <1>2, <1>3, <1>4

-----------------------------------------------------------------------------
(* Pushes and the healing, which overlap *)

\* A push that is running, or one that has made something, runs while no office
\* request does.
LEMMA PushesAlone ==
    ASSUME MirrorInv, Crowded = FALSE
    PROVE  /\ \A p \in Pushers : pushing[p].on => booked = NotBooked
           /\ healing.on => booked = NotBooked
           /\ \A p \in Pushers : ~pushing[p].on =>
                pushing[p].todo = {} /\ \A j \in Jobs : pushing[p].made[j] = NoEvent
BY RestTypes DEF MirrorInv, Apart, Calm

\* The program moves one push, and the others keep what they have made.
LEMMA PushSet ==
    ASSUME MirrorTypeOK, NEW p \in Pushers, NEW push,
           push \in [on: BOOLEAN, todo: SUBSET Jobs, made: [Jobs -> CalendarEvents \cup {NoEvent}]],
           pushing' = [pushing EXCEPT ![p] = push]
    PROVE  /\ pushing' \in [Pushers -> [on: BOOLEAN, todo: SUBSET Jobs,
                                        made: [Jobs -> CalendarEvents \cup {NoEvent}]]]
           /\ pushing'[p] = push /\ \A q \in Pushers \ {p} : pushing'[q] = pushing[q]
BY DEF MirrorTypeOK

\* The push reads its jobs.
LEMMA PushReadKeeps ==
    ASSUME MirrorInv, Crowded = FALSE, NEW p \in Pushers, PushRead(p)
    PROVE  MirrorInv'
<1> USE DEF MirrorInv
<1> DEFINE push == [NoPush EXCEPT !.on = TRUE, !.todo = Unpushed]
<1>1. /\ push \in [on: BOOLEAN, todo: SUBSET Jobs, made: [Jobs -> CalendarEvents \cup {NoEvent}]]
      /\ push.on = TRUE /\ \A j \in Jobs : push.made[j] = NoEvent
  BY RestTypes DEF NoPush, Unpushed
<1>2. /\ pushing' = [pushing EXCEPT ![p] = push] /\ ~pushing[p].on /\ booked = NotBooked
      /\ UNCHANGED <<task, google, booked, holder, healing, strays>>
  BY DEF PushRead, Idling
<1> HIDE DEF push
<1>3. /\ pushing' \in [Pushers -> [on: BOOLEAN, todo: SUBSET Jobs,
                                   made: [Jobs -> CalendarEvents \cup {NoEvent}]]]
      /\ pushing'[p] = push /\ \A q \in Pushers \ {p} : pushing'[q] = pushing[q]
  BY <1>1, <1>2, PushSet
<1>4. \A q \in Pushers, j \in Jobs : pushing'[q].made[j] = pushing[q].made[j]
  BY <1>1, <1>2, <1>3, PushesAlone
<1>5. MirrorTypeOK'
  BY <1>2, <1>3 DEF MirrorTypeOK
<1>6. Attributed'
  BY <1>2, <1>4 DEF Attributed, Linked
<1>7. OneMaker'
  BY <1>1, <1>2, <1>3 DEF OneMaker, Linked
<1>8. Apart' /\ HealsTheDead'
  BY <1>1, <1>2, <1>3 DEF Apart, HealsTheDead, Linked
<1>9. InFlight' = InFlight
  BY <1>2, <1>4 DEF InFlight
<1> QED BY <1>2, <1>5, <1>6, <1>7, <1>8, <1>9 DEF KnownEventIsLinked

\* The push locks its next job, looks again and makes its event.
LEMMA PushKeeps ==
    ASSUME MirrorInv, Crowded = FALSE, NEW p \in Pushers, Push(p)
    PROVE  MirrorInv'
<1> USE DEF MirrorInv
<1> DEFINE j == Min(pushing[p].todo)
<1>0. /\ pushing[p].todo \in SUBSET Jobs /\ pushing[p].todo # {}
      /\ pushing[p] \in [on: BOOLEAN, todo: SUBSET Jobs,
                         made: [Jobs -> CalendarEvents \cup {NoEvent}]]
      /\ NoEvent \notin CalendarEvents /\ NoJob \notin Jobs \cup Pushers
  BY MirrorAssumption DEF Push, MirrorTypeOK
<1>1. j \in Jobs /\ j \in pushing[p].todo
  BY <1>0, NextToPush
<1>2. /\ holder[j] \in {NoJob, p} /\ holder' = [holder EXCEPT ![j] = p]
      /\ UNCHANGED <<task, booked, healing>>
  BY DEF Push
<1>3. PICK e \in CalendarEvents \cup {NoEvent} :
        /\ IF Linked(j) THEN e = NoEvent /\ UNCHANGED <<google, strays>> ELSE Create(j, e)
        /\ pushing' = [pushing EXCEPT ![p].todo = @ \ {j}, ![p].made[j] = e]
  BY DEF Push
<1> HIDE DEF j
<1> DEFINE push == [pushing[p] EXCEPT !.todo = @ \ {j}, !.made[j] = e]
<1>4. /\ push \in [on: BOOLEAN, todo: SUBSET Jobs, made: [Jobs -> CalendarEvents \cup {NoEvent}]]
      /\ push.on = pushing[p].on /\ push.todo = pushing[p].todo \ {j}
      /\ push.made[j] = e /\ \A i \in Jobs \ {j} : push.made[i] = pushing[p].made[i]
  BY <1>0, <1>1
<1>5. pushing' = [pushing EXCEPT ![p] = push]
  BY <1>3
<1> HIDE DEF push
<1>6. /\ pushing' \in [Pushers -> [on: BOOLEAN, todo: SUBSET Jobs,
                                   made: [Jobs -> CalendarEvents \cup {NoEvent}]]]
      /\ pushing'[p] = push /\ \A q \in Pushers \ {p} : pushing'[q] = pushing[q]
  BY <1>4, <1>5, PushSet
<1>7. pushing[p].on /\ booked = NotBooked /\ pushing[p].made[j] = NoEvent
  BY <1>0, <1>1, PushesAlone DEF OneMaker
<1>8. /\ google' \in Events /\ strays' \subseteq CalendarEvents /\ strays \subseteq strays'
      /\ \A d \in CalendarEvents :
           \/ google'[d] = google[d]
           \/ /\ google[d].of = NoJob /\ google'[d].of = j
              /\ d = e \/ d \in strays'
      /\ e # NoEvent => google'[e].of = j /\ ~Linked(j)
  <2>1. CASE Linked(j)
    BY <1>3, <2>1 DEF MirrorTypeOK, Events
  <2>2. CASE ~Linked(j)
    BY <1>1, <1>3, <2>2, CreateMakes DEF Events
  <2> QED BY <2>1, <2>2
<1>9. MirrorTypeOK'
  BY <1>1, <1>2, <1>6, <1>8 DEF MirrorTypeOK, Events
<1>10. \A q \in Pushers, i \in Jobs :
         pushing'[q].made[i] = IF q = p /\ i = j THEN e ELSE pushing[q].made[i]
  BY <1>4, <1>6
<1>11. \A d \in CalendarEvents : google[d].of # NoJob => google'[d] = google[d]
  BY <1>8
<1>12. \A i \in Jobs : task[i].event \in CalendarEvents \cup {NoEvent}
  BY DEF MirrorTypeOK, Task
<1>13. Attributed'
  <2>1. \A d \in CalendarEvents : google'[d].live => google'[d].of # NoJob
    BY <1>0, <1>1, <1>8 DEF Attributed
  <2>2. \A i \in Jobs : task'[i].event # NoEvent => google'[task'[i].event].of = i
    BY <1>0, <1>2, <1>11, <1>12 DEF Attributed, Linked
  <2>3. \A q \in Pushers, i \in Jobs : pushing[q].made[i] \in CalendarEvents \cup {NoEvent}
    BY DEF MirrorTypeOK
  <2>4. \A q \in Pushers, i \in Jobs : pushing'[q].made[i] # NoEvent =>
          google'[pushing'[q].made[i]].of = i
    BY <1>0, <1>8, <1>10, <1>11, <2>3 DEF Attributed
  <2> QED BY <1>2, <1>7, <2>1, <2>2, <2>4, RestTypes DEF Attributed, Linked
<1>14. OneMaker'
  <2>1. ASSUME NEW q \in Pushers, NEW i \in Jobs, pushing'[q].made[i] # NoEvent
        PROVE  holder'[i] = q /\ ~Linked(i)' /\ i \notin pushing'[q].todo
    <3>1. CASE q = p /\ i = j
      BY <1>1, <1>2, <1>4, <1>6, <1>8, <1>10, <2>1, <3>1 DEF MirrorTypeOK, Linked
    <3>2. CASE ~(q = p /\ i = j)
      <4>1. holder[i] = q /\ ~Linked(i) /\ i \notin pushing[q].todo
        BY <1>10, <2>1, <3>2 DEF OneMaker
      <4>2. i # j
        BY <1>0, <1>2, <3>2, <4>1
      <4> QED BY <1>1, <1>2, <1>4, <1>6, <4>1, <4>2 DEF MirrorTypeOK, Linked
    <3> QED BY <3>1, <3>2
  <2> QED BY <1>2, <1>7, <2>1, RestTypes DEF OneMaker
<1>15. Apart'
  BY <1>2, <1>4, <1>6, <1>7 DEF Apart
<1>16. HealsTheDead'
  <2>1. \A i \in healing.missing : i \in Jobs
    BY DEF MirrorTypeOK
  <2> QED BY <1>0, <1>2, <1>11, <1>12, <2>1 DEF HealsTheDead, Linked, Attributed
<1>17. KnownEventIsLinked'
  <2>1. ASSUME NEW d \in CalendarEvents \ (strays' \cup InFlight'), google'[d].live
        PROVE  task'[google'[d].of].event = d
    <3>1. d # e
      BY <1>1, <1>10, <2>1 DEF InFlight
    <3>2. google'[d] = google[d] /\ d \notin strays
      BY <1>8, <2>1, <3>1
    <3>3. InFlight \subseteq InFlight' \cup {NoEvent}
      <4>1. \A q \in Pushers, i \in Jobs : pushing[q].made[i] \in InFlight' \cup {NoEvent}
        <5>1. \A q \in Pushers, i \in Jobs : pushing'[q].made[i] \in InFlight'
          BY DEF InFlight
        <5> QED BY <1>7, <1>10, <5>1
      <4> QED BY <1>2, <4>1 DEF InFlight
    <3>4. d \notin InFlight
      BY <1>0, <2>1, <3>3
    <3> QED BY <1>2, <2>1, <3>2, <3>4 DEF KnownEventIsLinked
  <2> QED BY <2>1 DEF KnownEventIsLinked
<1> QED BY <1>9, <1>13, <1>14, <1>15, <1>16, <1>17

\* Its one commit links what it made, and only that.
LEMMA PushCommitKeeps ==
    ASSUME MirrorInv, Crowded = FALSE, NEW p \in Pushers, PushCommit(p)
    PROVE  MirrorInv'
<1> USE DEF MirrorInv
<1>0. /\ booked = NotBooked /\ NoEvent \notin CalendarEvents /\ NoJob \notin Pushers
      /\ \A q \in Pushers, j \in Jobs : pushing[q].made[j] \in CalendarEvents \cup {NoEvent}
  BY PushesAlone, MirrorAssumption, ZenonT(40) DEF PushCommit, MirrorTypeOK
<1>1. /\ task' = [j \in Jobs |-> IF pushing[p].made[j] = NoEvent THEN task[j]
                                 ELSE [task[j] EXCEPT !.event = pushing[p].made[j]]]
      /\ pushing' = [pushing EXCEPT ![p] = NoPush]
      /\ holder' = [j \in Jobs |-> IF holder[j] = p THEN NoJob ELSE holder[j]]
      /\ UNCHANGED <<google, booked, healing, strays>>
  BY DEF PushCommit
<1>2. /\ pushing' \in [Pushers -> [on: BOOLEAN, todo: SUBSET Jobs,
                                   made: [Jobs -> CalendarEvents \cup {NoEvent}]]]
      /\ pushing'[p] = NoPush /\ \A q \in Pushers \ {p} : pushing'[q] = pushing[q]
  BY <1>1, RestTypes, PushSet
<1>3. \A j \in Jobs :
        /\ task'[j] \in Task
        /\ pushing[p].made[j] = NoEvent => task'[j] = task[j]
        /\ pushing[p].made[j] # NoEvent =>
             task'[j].event = pushing[p].made[j] /\ task[j].event = NoEvent
  <2> SUFFICES ASSUME NEW j \in Jobs
               PROVE  /\ task'[j] \in Task
                      /\ pushing[p].made[j] = NoEvent => task'[j] = task[j]
                      /\ pushing[p].made[j] # NoEvent =>
                           task'[j].event = pushing[p].made[j] /\ task[j].event = NoEvent
    OBVIOUS
  <2> DEFINE row == [task[j] EXCEPT !.event = pushing[p].made[j]]
  <2>1. task[j] \in Task /\ row \in Task /\ row.event = pushing[p].made[j]
    BY <1>0 DEF MirrorTypeOK, Task
  <2>2. task'[j] = IF pushing[p].made[j] = NoEvent THEN task[j] ELSE row
    BY <1>1
  <2> HIDE DEF row
  <2>3. pushing[p].made[j] # NoEvent => task[j].event = NoEvent
    BY DEF OneMaker, Linked
  <2> QED BY <2>1, <2>2, <2>3
<1>4. MirrorTypeOK'
  BY <1>1, <1>2, <1>3 DEF MirrorTypeOK
<1>5. Attributed'
  <2>1. \A j \in Jobs : task'[j].event # NoEvent => google[task'[j].event].of = j
    BY <1>3 DEF Attributed, Linked
  <2>2. \A q \in Pushers, j \in Jobs : pushing'[q].made[j] # NoEvent =>
          google[pushing'[q].made[j]].of = j
    <3>1. \A q \in Pushers, j \in Jobs : pushing'[q].made[j] # NoEvent =>
            pushing'[q].made[j] = pushing[q].made[j]
      BY <1>2, RestTypes
    <3> QED BY <3>1 DEF Attributed
  <2> QED BY <1>1, <2>1, <2>2 DEF Attributed, Linked
<1>6. OneMaker'
  <2>1. ASSUME NEW q \in Pushers, NEW j \in Jobs, pushing'[q].made[j] # NoEvent
        PROVE  holder'[j] = q /\ ~Linked(j)' /\ j \notin pushing'[q].todo
    <3>1. q # p /\ pushing'[q] = pushing[q]
      BY <1>2, <2>1, RestTypes
    <3>2. holder[j] = q /\ ~Linked(j) /\ j \notin pushing[q].todo
      BY <2>1, <3>1 DEF OneMaker
    <3>3. pushing[p].made[j] = NoEvent
      BY <3>1, <3>2 DEF OneMaker
    <3> QED BY <1>1, <1>3, <3>1, <3>2, <3>3 DEF Linked
  <2> QED BY <1>0, <1>1, <2>1, RestTypes DEF OneMaker
<1>7. Apart'
  BY <1>0, <1>1, <1>2 DEF Apart
<1>8. HealsTheDead'
  <2>1. \A j \in healing.missing : j \in Jobs
    BY DEF MirrorTypeOK
  <2> QED BY <1>1, <1>3, <2>1 DEF HealsTheDead, Linked
<1>9. KnownEventIsLinked'
  <2>1. ASSUME NEW e \in CalendarEvents \ (strays' \cup InFlight'), google'[e].live
        PROVE  task'[google'[e].of].event = e
    <3>1. google[e].of \in Jobs /\ google[e].live
      BY <1>1, <2>1 DEF Attributed, MirrorTypeOK
    <3>2. CASE \E j \in Jobs : pushing[p].made[j] = e
      <4>1. PICK j \in Jobs : pushing[p].made[j] = e
        BY <3>2
      <4>2. google[e].of = j
        BY <1>0, <4>1 DEF Attributed
      <4> QED BY <1>0, <1>1, <1>3, <4>1, <4>2
    <3>3. CASE ~\E j \in Jobs : pushing[p].made[j] = e
      <4>1. \A q \in Pushers, j \in Jobs : pushing[q].made[j] # e
        <5>1. \A q \in Pushers, j \in Jobs : pushing'[q].made[j] # e
          BY <2>1 DEF InFlight
        <5> QED BY <1>2, <3>3, <5>1
      <4>2. e \notin InFlight
        BY <1>0, <4>1, RestTypes DEF InFlight
      <4>3. task[google[e].of].event = e
        BY <1>1, <2>1, <4>2 DEF KnownEventIsLinked
      <4>4. pushing[p].made[google[e].of] = NoEvent
        BY <1>0, <1>3, <3>1, <4>3
      <4> QED BY <1>1, <1>3, <3>1, <4>3, <4>4
    <3> QED BY <3>2, <3>3
  <2> QED BY <2>1 DEF KnownEventIsLinked
<1> QED BY <1>4, <1>5, <1>6, <1>7, <1>8, <1>9

\* A push that dies leaves what it made as strays.
LEMMA PushDiesKeeps ==
    ASSUME MirrorInv, Crowded = FALSE, NEW p \in Pushers, PushDies(p)
    PROVE  MirrorInv'
<1> USE DEF MirrorInv
<1>0. /\ booked = NotBooked /\ NoEvent \notin CalendarEvents /\ NoJob \notin Pushers
      /\ \A q \in Pushers, j \in Jobs : pushing[q].made[j] \in CalendarEvents \cup {NoEvent}
  BY PushesAlone, MirrorAssumption, ZenonT(40) DEF PushDies, MirrorTypeOK
<1>1. /\ strays' = strays \cup ({pushing[p].made[j] : j \in Jobs} \ {NoEvent})
      /\ pushing' = [pushing EXCEPT ![p] = NoPush]
      /\ holder' = [j \in Jobs |-> IF holder[j] = p THEN NoJob ELSE holder[j]]
      /\ UNCHANGED <<task, google, booked, healing>>
  BY DEF PushDies
<1>2. /\ pushing' \in [Pushers -> [on: BOOLEAN, todo: SUBSET Jobs,
                                   made: [Jobs -> CalendarEvents \cup {NoEvent}]]]
      /\ pushing'[p] = NoPush /\ \A q \in Pushers \ {p} : pushing'[q] = pushing[q]
  BY <1>1, RestTypes, PushSet
<1>3. \A q \in Pushers, j \in Jobs : pushing'[q].made[j] # NoEvent =>
        q # p /\ pushing'[q] = pushing[q]
  BY <1>2, RestTypes
<1>4. MirrorTypeOK'
  BY <1>0, <1>1, <1>2 DEF MirrorTypeOK
<1>5. Attributed'
  BY <1>1, <1>3 DEF Attributed, Linked
<1>6. OneMaker'
  BY <1>0, <1>1, <1>3, RestTypes DEF OneMaker, Linked
<1>7. Apart' /\ HealsTheDead'
  BY <1>0, <1>1, <1>2 DEF Apart, HealsTheDead, Linked
<1>8. KnownEventIsLinked'
  <2>1. ASSUME NEW e \in CalendarEvents \ (strays' \cup InFlight'), google'[e].live
        PROVE  task'[google'[e].of].event = e
    <3>1. \A q \in Pushers, j \in Jobs : pushing[q].made[j] # e
      <4>1. \A j \in Jobs : pushing[p].made[j] # e
        BY <1>0, <1>1, <2>1
      <4>2. \A q \in Pushers, j \in Jobs : pushing'[q].made[j] # e
        BY <2>1 DEF InFlight
      <4> QED BY <1>2, <4>1, <4>2
    <3>2. e \notin InFlight
      BY <1>0, <3>1, RestTypes DEF InFlight
    <3> QED BY <1>1, <2>1, <3>2 DEF KnownEventIsLinked
  <2> QED BY <2>1 DEF KnownEventIsLinked
<1> QED BY <1>4, <1>5, <1>6, <1>7, <1>8

\* The healing clears links whose events are still gone.
LEMMA HealKeeps ==
    ASSUME MirrorInv, Crowded = FALSE, HealRead \/ HealCommit
    PROVE  MirrorInv'
<1> USE DEF MirrorInv
<1>1. CASE HealRead
  <2> DEFINE missing == {j \in LinkedJobs : ~google[task[j].event].live}
  <2>1. /\ healing' = [on |-> TRUE, missing |-> missing] /\ booked = NotBooked
        /\ UNCHANGED <<task, google, booked, pushing, holder, strays>>
    BY <1>1 DEF HealRead, Idling
  <2>2. \A j \in missing : j \in Jobs /\ Linked(j) /\ ~google[task[j].event].live
    BY DEF LinkedJobs
  <2> HIDE DEF missing
  <2>3. MirrorTypeOK'
    BY <2>1, <2>2 DEF MirrorTypeOK
  <2>4. Attributed' /\ OneMaker' /\ Apart'
    BY <2>1 DEF Attributed, OneMaker, Apart, Linked
  <2>5. HealsTheDead'
    BY <2>1, <2>2 DEF HealsTheDead, Linked
  <2>6. KnownEventIsLinked'
    BY <2>1 DEF KnownEventIsLinked, InFlight
  <2> QED BY <2>3, <2>4, <2>5, <2>6
<1>2. CASE HealCommit
  <2>1. /\ healing.on /\ healing' = NotHealing /\ booked = NotBooked
        /\ task' = [j \in Jobs |-> IF j \in healing.missing THEN [task[j] EXCEPT !.event = NoEvent]
                                   ELSE task[j]]
        /\ UNCHANGED <<google, booked, pushing, holder, strays>>
    BY <1>2, PushesAlone DEF HealCommit
  <2>2. \A j \in Jobs :
          /\ task'[j] \in Task
          /\ j \in healing.missing => task'[j].event = NoEvent
          /\ j \notin healing.missing => task'[j] = task[j]
    BY <2>1, SMTT(30) DEF MirrorTypeOK, Task
  <2>3. MirrorTypeOK'
    BY <2>1, <2>2, RestTypes DEF MirrorTypeOK
  <2>4. \A j \in Jobs : task'[j].event # NoEvent => task'[j] = task[j]
    BY <2>2
  <2>5. Attributed'
    BY <2>1, <2>4 DEF Attributed, Linked
  <2>6. OneMaker'
    BY <2>1, <2>4, RestTypes DEF OneMaker, Linked
  <2>7. Apart' /\ HealsTheDead'
    BY <2>1, RestTypes DEF Apart, HealsTheDead
  <2>8. ASSUME NEW e \in CalendarEvents \ (strays' \cup InFlight'), google'[e].live
        PROVE  task'[google'[e].of].event = e
    <3>1. e \notin InFlight /\ google[e].live /\ google[e].of \in Jobs
      BY <2>1, <2>8 DEF InFlight, Attributed, MirrorTypeOK
    <3>2. task[google[e].of].event = e
      BY <2>1, <2>8, <3>1 DEF KnownEventIsLinked
    <3>3. google[e].of \notin healing.missing
      BY <2>1, <3>1, <3>2 DEF HealsTheDead
    <3> QED BY <2>1, <2>2, <3>1, <3>2, <3>3
  <2> QED BY <2>3, <2>5, <2>6, <2>7, <2>8 DEF KnownEventIsLinked
<1> QED BY <1>1, <1>2

\* An event that somebody deletes in Google is live nowhere afterwards.
LEMMA DeletionKeeps ==
    ASSUME MirrorInv, NEW e \in CalendarEvents, DeletedInGoogle(e)
    PROVE  MirrorInv'
<1> USE DEF MirrorInv
<1>1. Delete(e, TRUE) /\ UNCHANGED <<task, booked, pushing, holder, healing, strays>>
  BY DEF DeletedInGoogle, Delete
<1>2. /\ google' \in [CalendarEvents -> [of: Jobs \cup {NoJob}, live: BOOLEAN]]
      /\ \A d \in CalendarEvents : google'[d].of = google[d].of
                                   /\ (google'[d].live => google[d].live)
  BY <1>1, DeleteMakes
<1>3. MirrorTypeOK'
  BY <1>1, <1>2 DEF MirrorTypeOK
<1>4. /\ \A j \in Jobs : task[j].event \in CalendarEvents \cup {NoEvent}
      /\ \A p \in Pushers, j \in Jobs : pushing[p].made[j] \in CalendarEvents \cup {NoEvent}
      /\ booked.made \in CalendarEvents \cup {NoEvent}
      /\ healing.missing \subseteq Jobs
  BY DEF MirrorTypeOK, Task
<1>5. Attributed'
  BY <1>1, <1>2, <1>4 DEF Attributed, Linked
<1>6. OneMaker'
  BY <1>1 DEF OneMaker, Linked
<1>7. Apart'
  BY <1>1 DEF Apart, Calm
<1>8. HealsTheDead'
  BY <1>1, <1>2, <1>4 DEF HealsTheDead, Linked
<1>9. KnownEventIsLinked'
  BY <1>1, <1>2 DEF KnownEventIsLinked, InFlight
<1> QED BY <1>3, <1>5, <1>6, <1>7, <1>8, <1>9

\* The invariant of the mirror.
LEMMA MirrorInvariant ==
    ASSUME Crowded = FALSE
    PROVE  MirrorSpec => []MirrorInv
<1>1. MirrorInit => MirrorInv
  <2> SUFFICES ASSUME MirrorInit PROVE MirrorInv
    OBVIOUS
  <2>1. MirrorTypeOK
    BY RestTypes DEF MirrorInit, MirrorTypeOK, Task
  <2>2. Attributed /\ OneMaker /\ Apart /\ HealsTheDead
    BY RestTypes DEF MirrorInit, Attributed, OneMaker, Apart, HealsTheDead, Linked
  <2>3. KnownEventIsLinked
    BY DEF MirrorInit, KnownEventIsLinked
  <2> QED BY <2>1, <2>2, <2>3 DEF MirrorInv
<1>2. MirrorInv /\ [MirrorNext]_mirrorVars => MirrorInv'
  <2> SUFFICES ASSUME MirrorInv, [MirrorNext]_mirrorVars PROVE MirrorInv'
    OBVIOUS
  <2>1. CASE CommissionCreate \/ CommissionCommit \/ CommissionDies
    BY <2>1, CommissionKeeps
  <2>2. CASE \E j \in Jobs : MirrorOffice(j)
    BY <2>2, JobRequestKeeps
  <2>3. CASE \E p \in Pushers : PushRead(p) \/ Push(p) \/ PushCommit(p) \/ PushDies(p)
    BY <2>3, PushReadKeeps, PushKeeps, PushCommitKeeps, PushDiesKeeps
  <2>4. CASE HealRead \/ HealCommit
    BY <2>4, HealKeeps
  <2>5. CASE \E e \in CalendarEvents : DeletedInGoogle(e)
    BY <2>5, DeletionKeeps
  <2>6. CASE UNCHANGED mirrorVars
    BY <2>6 DEF mirrorVars, MirrorInv, MirrorTypeOK, Attributed, OneMaker, Apart, Calm,
                HealsTheDead, KnownEventIsLinked, InFlight, Linked
  <2> QED BY <2>1, <2>2, <2>3, <2>4, <2>5, <2>6 DEF MirrorNext
<1> QED BY <1>1, <1>2, PTL DEF MirrorSpec

\* While office requests overlap neither pushes nor the healing, an event whose
\* id the program learned is found from its job for as long as it is in the
\* calendar: any number of pushes may overlap with each other and with the
\* healing, any call may fail, and any answer may be lost.
THEOREM KnownEventsAreLinked ==
    ASSUME Crowded = FALSE
    PROVE  MirrorSpec => []KnownEventIsLinked
<1>1. MirrorInv => KnownEventIsLinked
  BY DEF MirrorInv
<1>2. MirrorSpec => []MirrorInv
  BY MirrorInvariant
<1> QED BY <1>1, <1>2, PTL

-----------------------------------------------------------------------------
(* The turnovers *)

\* One booking of a feed, as the fold of TakenAll takes it, and the fold over the
\* feed: `g` has the values it goes through, for every part of the order.
TakenOne(read, last, inOrder, s, b) ==
    IF read[b] = Gone THEN s ELSE Taken(s, b, read[b], last, inOrder)

TakenUpTo(read, order, last, inOrder, start) ==
    FoldLeft(LAMBDA s, b : IF read[b] = Gone THEN s ELSE Taken(s, b, read[b], last, inOrder),
             start, order)

Unfolds(g, read, order, last, inOrder, start, k) ==
    g = [s \in SUBSET (1..k) |->
            IF s = {} THEN start
            ELSE TakenOne(read, last, inOrder, g[s \ {Max(s)}], order[Max(s)])]

\* A fold over a feed's bookings is the last value of its unfolding.
LEMMA Expand ==
    ASSUME NEW read, NEW order, NEW last, NEW inOrder, NEW start, NEW n \in Nat,
           DOMAIN order = 1..n,
           NEW g, Unfolds(g, read, order, last, inOrder, start, n)
    PROVE \E h : Unfolds(h, read, order, last, inOrder, start, n) /\ TakenUpTo(read, order, last, inOrder, start) = h[1..n]
<1> DEFINE h == CHOOSE i : Unfolds(i, read, order, last, inOrder, start, n)
<1>1. Unfolds(h, read, order, last, inOrder, start, n)
  OBVIOUS
<1>2. TakenUpTo(read, order, last, inOrder, start) = h[1..n]
  BY DEF TakenUpTo, FoldLeft, MapThenFoldSet, Unfolds, TakenOne
<1> QED BY <1>1, <1>2

\* The largest of the numbers up to k is k, when k is one of them.
LEMMA MaxIs ==
    ASSUME NEW k \in Nat, NEW s \in SUBSET (1..k), k \in s
    PROVE Max(s) = k
<1>1. \A x \in s : (\A y \in s : x >= y) => x = k
  OBVIOUS
<1>2. \A y \in s : k >= y
  OBVIOUS
<1>3. Max(s) \in s /\ \A y \in s : Max(s) >= y
  BY <1>2 DEF Max
<1> QED BY <1>1, <1>3

\* An unfolding goes on for one more booking.
LEMMA StepUp ==
    ASSUME NEW read, NEW order, NEW last, NEW inOrder, NEW start, NEW k \in Nat,
           NEW g, Unfolds(g, read, order, last, inOrder, start, k)
    PROVE \E h : Unfolds(h, read, order, last, inOrder, start, k + 1)
<1> DEFINE h == [s \in SUBSET (1..(k + 1)) |->
                    IF k + 1 \in s THEN TakenOne(read, last, inOrder, g[s \ {k + 1}], order[k + 1])
                    ELSE g[s]]
<1>1. ASSUME NEW s \in SUBSET (1..(k + 1))
      PROVE h[s] = IF s = {} THEN start
                   ELSE TakenOne(read, last, inOrder, h[s \ {Max(s)}], order[Max(s)])
  <2>1. CASE k + 1 \in s
    <3>1. Max(s) = k + 1
      BY <2>1, MaxIs
    <3>2. s \ {k + 1} \in SUBSET (1..(k + 1)) /\ k + 1 \notin s \ {k + 1}
      OBVIOUS
    <3>3. h[s \ {k + 1}] = g[s \ {k + 1}]
      BY <3>2
    <3> QED BY <2>1, <3>1, <3>3
  <2>2. CASE k + 1 \notin s
    <3>1. s \in SUBSET (1..k)
      BY <2>2
    <3>2. h[s] = g[s] /\ h[s \ {Max(s)}] = g[s \ {Max(s)}]
      BY <2>2, <3>1
    <3>3. s # {} => s \ {Max(s)} \in SUBSET (1..k)
      BY <3>1
    <3> QED BY <3>1, <3>2, <3>3 DEF Unfolds
  <2> QED BY <2>1, <2>2
<1>2. Unfolds(h, read, order, last, inOrder, start, k + 1)
  BY <1>1 DEF Unfolds
<1> QED BY <1>2

\* Every feed has an unfolding, of any length.
LEMMA FoldExists ==
    ASSUME NEW read, NEW order, NEW last, NEW inOrder, NEW start, NEW n \in Nat
    PROVE \E g : Unfolds(g, read, order, last, inOrder, start, n)
<1> DEFINE P == {k \in Nat : \E g : Unfolds(g, read, order, last, inOrder, start, k)}
<1>1. 0 \in P
  <2>1. Unfolds([s \in SUBSET (1..0) |-> start], read, order, last, inOrder, start, 0)
    BY DEF Unfolds
  <2> QED BY <2>1
<1>2. \A k \in P : k + 1 \in P
  BY StepUp
<1>3. P = Nat
  <2> HIDE DEF P
  <2>1. P \in SUBSET Nat
    BY DEF P
  <2> QED BY <1>1, <1>2, <2>1, Induction
<1> QED BY <1>3

\* The steps of a fold.
LEMMA FoldRuns ==
    ASSUME NEW read, NEW order, NEW last, NEW inOrder, NEW start, NEW n \in Nat,
           DOMAIN order = 1..n
    PROVE \E run : /\ run[0] = start
                   /\ \A i \in 1..n : run[i] = TakenOne(read, last, inOrder, run[i - 1], order[i])
                   /\ run[n] = TakenUpTo(read, order, last, inOrder, start)
<1>0. PICK g : Unfolds(g, read, order, last, inOrder, start, n)
  BY FoldExists
<1>1. PICK h : /\ Unfolds(h, read, order, last, inOrder, start, n)
               /\ TakenUpTo(read, order, last, inOrder, start) = h[1..n]
  BY <1>0, Expand
<1> DEFINE run == [i \in 0..n |-> h[1..i]]
<1>2. run[0] = start
  BY <1>1 DEF Unfolds
<1>3. ASSUME NEW i \in 1..n
      PROVE run[i] = TakenOne(read, last, inOrder, run[i - 1], order[i])
  <2>1. Max(1..i) = i
    BY MaxIs
  <2>2. (1..i) \ {i} = 1..(i - 1) /\ 1..i # {}
    OBVIOUS
  <2>3. run[i] = h[1..i] /\ run[i - 1] = h[1..(i - 1)]
    OBVIOUS
  <2>4. 1..i \in SUBSET (1..n)
    OBVIOUS
  <2>5. \A s \in SUBSET (1..n) : s # {} =>
          h[s] = TakenOne(read, last, inOrder, h[s \ {Max(s)}], order[Max(s)])
    BY <1>1 DEF Unfolds
  <2>6. h[1..i] = TakenOne(read, last, inOrder, h[(1..i) \ {i}], order[i])
    BY <2>1, <2>2, <2>4, <2>5
  <2> QED BY <2>2, <2>3, <2>6
<1>4. run[n] = h[1..n]
  OBVIOUS
<1> HIDE DEF run
<1> QED BY <1>1, <1>2, <1>3, <1>4
\* The transaction of a feed in progress.
Tx == [booking: [Bookings -> Booking], turnover: [Turnovers -> Turnover],
       stored: [Turnovers -> Turnover], ok: BOOLEAN]

\* Turnovers it can still make.
Free(s) == {t \in Turnovers : s.turnover[t].status = "none"}

\* The turnovers of a transaction against those of the last commit: a scheduled
\* one stays so, and is on another day only if its booking was taken and moved.
FollowsTheGuest(s, done) ==
    \A t \in Turnovers : turnover[t].status = "scheduled" =>
        /\ s.turnover[t].status = "scheduled"
        /\ \/ s.turnover[t].day = turnover[t].day
           \/ \E b \in done : booking[b].job = t /\ s.booking[b].day # booking[b].day

\* Bookings not yet taken are as they were, and one the office dismissed has no
\* turnover unless it had one.
LeavesDismissed(s, done) ==
    \A b \in Bookings :
        /\ b \notin done => s.booking[b] = booking[b]
        /\ s.booking[b].dismissed = booking[b].dismissed
        /\ booking[b].dismissed /\ booking[b].job = NoTurnover => s.booking[b].job = NoTurnover

\* What a feed has done once the bookings `done` of its `own` were taken.
Taking(s, done, own) ==
    /\ s \in Tx
    /\ done \subseteq own
    /\ Cardinality(Free(s)) + Cardinality(done) >= Cardinality(own)
    /\ FollowsTheGuest(s, done) /\ LeavesDismissed(s, done)

\* What a transaction's steps do, with the turnovers and the bookings that change
\* named.  A flush stores the turnovers it has in hand, and changes no booking.
LEMMA FlushedShape ==
    ASSUME NEW s \in Tx, NEW inOrder
    PROVE  /\ Flushed(s, inOrder) \in Tx
           /\ Flushed(s, inOrder).booking = s.booking
           /\ Flushed(s, inOrder).turnover = s.turnover
           /\ Flushed(s, inOrder).stored = s.turnover
<1> DEFINE whole == s.ok /\ OnePerDate(s.stored, s.turnover, inOrder)
<1>1. whole \in BOOLEAN
  OBVIOUS
<1> HIDE DEF whole
<1>2. Flushed(s, inOrder) = [[s EXCEPT !.ok = whole] EXCEPT !.stored = s.turnover]
  BY DEF Flushed, whole
<1> QED BY <1>1, <1>2 DEF Tx

\* A moved booking takes its own turnover with it, and no other.
LEMMA MovedShape ==
    ASSUME NEW s \in Tx, NEW b \in Bookings, NEW d \in Days
    PROVE  /\ Moved(s, b, d) \in Tx
           /\ Moved(s, b, d).booking = [s.booking EXCEPT ![b].kind = "reservation", ![b].day = d]
           /\ \A t \in Turnovers :
                 /\ Moved(s, b, d).turnover[t].status = s.turnover[t].status
                 /\ \/ Moved(s, b, d).turnover[t] = s.turnover[t]
                    \/ s.booking[b].job = t /\ s.booking[b].day # d
<1> DEFINE row == s.booking[b].job
           bs == [s.booking EXCEPT ![b].kind = "reservation", ![b].day = d]
           ts == IF /\ s.booking[b].kind # "unknown" /\ s.booking[b].day # d
                    /\ row # NoTurnover /\ s.turnover[row].status = "scheduled"
                 THEN [s.turnover EXCEPT ![row].day = d] ELSE s.turnover
<1>1. bs \in [Bookings -> Booking]
  BY DEF Tx, Booking
<1>2. row \in Turnovers \cup {NoTurnover}
  BY DEF Tx, Booking
<1>3. ts \in [Turnovers -> Turnover]
  BY <1>2 DEF Tx, Turnover
<1>4. \A u \in Turnovers : /\ ts[u].status = s.turnover[u].status
                           /\ ts[u] = s.turnover[u] \/ (row = u /\ s.booking[b].day # d)
  BY <1>2 DEF Tx, Turnover
<1>5. Moved(s, b, d) = [s EXCEPT !.booking = bs, !.turnover = ts]
  BY <1>2 DEF Moved, Tx
<1> HIDE DEF bs, ts
<1>6. Moved(s, b, d) \in Tx /\ Moved(s, b, d).booking = bs /\ Moved(s, b, d).turnover = ts
  BY <1>1, <1>3, <1>5 DEF Tx
<1>7. Moved(s, b, d).booking = [s.booking EXCEPT ![b].kind = "reservation", ![b].day = d]
  BY <1>6 DEF bs
<1> QED BY <1>4, <1>6, <1>7

\* A booking is let go of its turnover, which stays as it is.
LEMMA UnlinkedShape ==
    ASSUME NEW s \in Tx, NEW b \in Bookings
    PROVE  /\ Unlinked(s, b) \in Tx
           /\ Unlinked(s, b).turnover = s.turnover
           /\ Unlinked(s, b).booking \in {s.booking, [s.booking EXCEPT ![b].job = NoTurnover]}
<1> DEFINE bs == [s.booking EXCEPT ![b].job = NoTurnover]
<1>1. bs \in [Bookings -> Booking]
  BY DEF Tx, Booking
<1>2. Unlinked(s, b) = s \/ Unlinked(s, b) = [s EXCEPT !.booking = bs]
  BY DEF Unlinked, Tx
<1> HIDE DEF bs
<1>3. [s EXCEPT !.booking = bs] \in Tx /\ [s EXCEPT !.booking = bs].booking = bs
      /\ [s EXCEPT !.booking = bs].turnover = s.turnover
  BY <1>1 DEF Tx
<1> QED BY <1>2, <1>3 DEF bs

\* A turnover is linked: one that is there, a new one, or a cancelled one revived.
Links(s, r, b, u) ==
    /\ r \in Tx
    /\ r.booking = [s.booking EXCEPT ![b].job = u]
    /\ \/ r.turnover = s.turnover
       \/ u \in Free(s) /\ \E row \in Turnover : r.turnover = [s.turnover EXCEPT ![u] = row]
       \/ /\ s.turnover[u].status = "cancelled"
          /\ r.turnover = [s.turnover EXCEPT ![u].status = "scheduled"]

\* A turnover is inserted, or the one that was there first is taken.
LEMMA InsertedShape ==
    ASSUME NEW s \in Tx, NEW b \in Bookings, NEW d \in Days, NEW inOrder, Free(s) # {}
    PROVE  \E u \in Turnovers : Links(s, Inserted(s, b, d, inOrder), b, u)
<1> DEFINE f == Flushed(s, inOrder)
           t == CHOOSE u \in Turnovers : f.turnover[u].status = "none"
           winner == LiveOn(f.stored, d)
           w == CHOOSE u \in winner : TRUE
           row == [status |-> "scheduled", day |-> d]
           bs(u) == [s.booking EXCEPT ![b].job = u]
           ts == [s.turnover EXCEPT ![t] = row]
<1>1. f \in Tx /\ f.booking = s.booking /\ f.turnover = s.turnover /\ f.stored = s.turnover
  BY FlushedShape
<1>2. t \in Turnovers /\ s.turnover[t].status = "none"
  BY <1>1 DEF Free
<1>3. row \in Turnover
  BY DEF Turnover
<1>4. winner # {} => w \in Turnovers
  <2>1. DOMAIN s.turnover = Turnovers
    BY DEF Tx
  <2>2. winner \subseteq Turnovers
    BY <1>1, <2>1 DEF LiveOn
  <2> QED BY <2>2
<1>5. \A u \in Turnovers : bs(u) \in [Bookings -> Booking]
  BY DEF Tx, Booking
<1>6. ts \in [Turnovers -> Turnover]
  BY <1>2, <1>3 DEF Tx
<1>7. Inserted(s, b, d, inOrder) =
        IF winner # {} THEN [f EXCEPT !.booking[b].job = w]
        ELSE [f EXCEPT !.booking[b].job = t, !.turnover[t] = row, !.stored[t] = row]
  BY DEF Inserted
<1> HIDE DEF f, t, winner, w, row
<1>8. CASE winner # {}
  <2>1. Inserted(s, b, d, inOrder) = [f EXCEPT !.booking = bs(w)]
    BY <1>1, <1>7, <1>8 DEF Tx
  <2>2. bs(w) \in [Bookings -> Booking]
    BY <1>4, <1>5, <1>8
  <2> HIDE DEF bs
  <2>3. /\ Inserted(s, b, d, inOrder) \in Tx
        /\ Inserted(s, b, d, inOrder).booking = bs(w)
        /\ Inserted(s, b, d, inOrder).turnover = s.turnover
    BY <1>1, <2>1, <2>2 DEF Tx
  <2> QED BY <1>4, <1>8, <2>3 DEF Links, bs
<1>9. CASE winner = {}
  <2>1. Inserted(s, b, d, inOrder) = [f EXCEPT !.booking = bs(t), !.turnover = ts, !.stored = ts]
    BY <1>1, <1>7, <1>9 DEF Tx
  <2>2. bs(t) \in [Bookings -> Booking]
    BY <1>2, <1>5
  <2> HIDE DEF bs, ts
  <2>3. /\ Inserted(s, b, d, inOrder) \in Tx
        /\ Inserted(s, b, d, inOrder).booking = bs(t)
        /\ Inserted(s, b, d, inOrder).turnover = ts
    BY <1>1, <1>6, <2>1, <2>2 DEF Tx
  <2>4. t \in Free(s)
    BY <1>2 DEF Free
  <2> QED BY <1>2, <1>3, <2>3, <2>4 DEF Links, bs, ts
<1> QED BY <1>8, <1>9

\* A booking is covered by a turnover of its day, or by a new one.
LEMMA CoveredShape ==
    ASSUME NEW s \in Tx, NEW b \in Bookings, NEW d \in Days, NEW last, NEW inOrder, Free(s) # {}
    PROVE  \E u \in Turnovers : Links(s, Covered(s, b, d, last, inOrder), b, u)
<1> DEFINE live == LiveOn(s.stored, d)
           dead == {t \in Turnovers : s.stored[t] = [status |-> "cancelled", day |-> d]}
           pick == IF live # {} THEN live ELSE dead
           u == IF last \in pick THEN last ELSE CHOOSE v \in pick : TRUE
           bs == [s.booking EXCEPT ![b].job = u]
           ts == [s.turnover EXCEPT ![u].status = IF @ = "cancelled" THEN "scheduled" ELSE @]
<1>1. pick \subseteq Turnovers
  <2>1. DOMAIN s.stored = Turnovers
    BY DEF Tx
  <2> QED BY <2>1 DEF LiveOn
<1>4. ASSUME NEW v \in Turnovers
      PROVE  /\ [s.booking EXCEPT ![b].job = v] \in [Bookings -> Booking]
             /\ [s.turnover EXCEPT ![v].status = IF @ = "cancelled" THEN "scheduled" ELSE @]
                  \in [Turnovers -> Turnover]
  <2>1. [s.booking EXCEPT ![b].job = v] \in [Bookings -> Booking]
    BY DEF Tx, Booking
  <2>2. [s.turnover EXCEPT ![v].status = IF @ = "cancelled" THEN "scheduled" ELSE @]
                  \in [Turnovers -> Turnover]
    BY DEF Tx, Turnover
  <2> QED BY <2>1, <2>2
<1>2. CASE pick = {}
  <2>1. Covered(s, b, d, last, inOrder) = Inserted(s, b, d, inOrder)
    BY <1>2 DEF Covered
  <2> QED BY <2>1, InsertedShape
<1>3. CASE pick # {}
  <2>1. u \in Turnovers
    BY <1>1, <1>3
  <2>2. bs \in [Bookings -> Booking]
    BY <1>4, <2>1
  <2>3. ts \in [Turnovers -> Turnover]
    BY <1>4, <2>1
  <2>4. Covered(s, b, d, last, inOrder) = [s EXCEPT !.booking = bs, !.turnover = ts]
    BY <1>3 DEF Covered, Tx
  <2>5. CASE s.turnover[u].status = "cancelled"
    <3>1. ts = [s.turnover EXCEPT ![u].status = "scheduled"]
      BY <2>5
    <3> HIDE DEF u, bs, ts
    <3>2. /\ Covered(s, b, d, last, inOrder) \in Tx
          /\ Covered(s, b, d, last, inOrder).booking = bs
          /\ Covered(s, b, d, last, inOrder).turnover = ts
      BY <2>2, <2>3, <2>4 DEF Tx
    <3> QED BY <2>1, <2>5, <3>1, <3>2 DEF Links, bs
  <2>6. CASE s.turnover[u].status # "cancelled"
    <3>1. ts = s.turnover
      BY <2>1, <2>6 DEF Tx, Turnover
    <3> HIDE DEF u, bs, ts
    <3>2. /\ Covered(s, b, d, last, inOrder) \in Tx
          /\ Covered(s, b, d, last, inOrder).booking = bs
          /\ Covered(s, b, d, last, inOrder).turnover = s.turnover
      BY <2>2, <2>3, <2>4, <3>1 DEF Tx
    <3> QED BY <2>1, <3>2 DEF Links, bs
  <2> QED BY <2>5, <2>6
<1> QED BY <1>2, <1>3

\* Turnovers that were scheduled and bookings not touched yet come through a step.
Settled(s, done) ==
    s \in Tx /\ done \subseteq Bookings /\ FollowsTheGuest(s, done) /\ LeavesDismissed(s, done)

\* A flush settles nothing.
LEMMA FlushedSettled ==
    ASSUME NEW s, NEW done, Settled(s, done), NEW inOrder
    PROVE  Settled(Flushed(s, inOrder), done) /\ Free(Flushed(s, inOrder)) = Free(s)
BY FlushedShape DEF Settled, FollowsTheGuest, LeavesDismissed, Free

\* A moved booking counts as taken.
LEMMA MovedSettled ==
    ASSUME NEW s, NEW done, Settled(s, done), NEW b \in Bookings, b \notin done, NEW d \in Days
    PROVE  Settled(Moved(s, b, d), done \cup {b}) /\ Free(Moved(s, b, d)) = Free(s)
<1> DEFINE m == Moved(s, b, d)
<1>1. s \in Tx /\ s.booking[b] = booking[b] /\ s.booking[b] \in Booking
  BY DEF Settled, LeavesDismissed, Tx
<1>2. /\ m \in Tx
      /\ m.booking = [s.booking EXCEPT ![b].kind = "reservation", ![b].day = d]
      /\ \A t \in Turnovers : /\ m.turnover[t].status = s.turnover[t].status
                              /\ \/ m.turnover[t] = s.turnover[t]
                                 \/ s.booking[b].job = t /\ s.booking[b].day # d
  BY <1>1, MovedShape
<1> HIDE DEF m
<1>3. /\ m.booking[b].day = d /\ m.booking[b].job = booking[b].job
      /\ m.booking[b].dismissed = booking[b].dismissed
      /\ \A c \in Bookings \ {b} : m.booking[c] = s.booking[c]
  BY <1>1, <1>2 DEF Tx, Booking
<1>4. Free(m) = Free(s)
  BY <1>2 DEF Free
<1>5. FollowsTheGuest(m, done \cup {b})
  <2> SUFFICES ASSUME NEW t \in Turnovers, turnover[t].status = "scheduled"
               PROVE  /\ m.turnover[t].status = "scheduled"
                      /\ \/ m.turnover[t].day = turnover[t].day
                         \/ \E c \in done \cup {b} :
                               booking[c].job = t /\ m.booking[c].day # booking[c].day
    BY DEF FollowsTheGuest
  <2>1. m.turnover[t].status = "scheduled"
    BY <1>2 DEF Settled, FollowsTheGuest
  <2>2. CASE m.turnover[t] = s.turnover[t]
    <3>1. CASE s.turnover[t].day = turnover[t].day
      BY <2>1, <2>2, <3>1
    <3>2. CASE \E c \in done : booking[c].job = t /\ s.booking[c].day # booking[c].day
      <4>1. PICK c \in done : booking[c].job = t /\ s.booking[c].day # booking[c].day
        BY <3>2
      <4>2. m.booking[c].day = s.booking[c].day
        BY <1>3, <4>1 DEF Settled
      <4> QED BY <2>1, <4>1, <4>2
    <3> QED BY <3>1, <3>2 DEF Settled, FollowsTheGuest
  <2>3. CASE s.booking[b].job = t /\ s.booking[b].day # d
    BY <1>1, <1>3, <2>1, <2>3
  <2> QED BY <1>2, <2>2, <2>3
<1>6. LeavesDismissed(m, done \cup {b})
  BY <1>3 DEF Settled, LeavesDismissed
<1> QED BY <1>2, <1>4, <1>5, <1>6 DEF Settled, m

\* A booking that was taken can be let go of its turnover.
LEMMA UnlinkedSettled ==
    ASSUME NEW s, NEW done, Settled(s, done), NEW b \in Bookings, b \in done
    PROVE  Settled(Unlinked(s, b), done) /\ Free(Unlinked(s, b)) = Free(s)
<1> DEFINE u == Unlinked(s, b)
<1>1. s \in Tx /\ s.booking \in [Bookings -> Booking]
  BY DEF Settled, Tx
<1>2. /\ u \in Tx /\ u.turnover = s.turnover
      /\ u.booking \in {s.booking, [s.booking EXCEPT ![b].job = NoTurnover]}
  BY <1>1, UnlinkedShape
<1> HIDE DEF u
<1>3. \A c \in Bookings : /\ u.booking[c].day = s.booking[c].day
                          /\ u.booking[c].dismissed = s.booking[c].dismissed
                          /\ u.booking[c].job \in {s.booking[c].job, NoTurnover}
                          /\ c # b => u.booking[c] = s.booking[c]
  BY <1>1, <1>2 DEF Booking
<1>4. Free(u) = Free(s)
  BY <1>2 DEF Free
<1>5. FollowsTheGuest(u, done)
  BY <1>2, <1>3 DEF Settled, FollowsTheGuest
<1>6. LeavesDismissed(u, done)
  BY <1>3 DEF Settled, LeavesDismissed
<1> QED BY <1>2, <1>4, <1>5, <1>6 DEF Settled, u

\* A booking that is wanted was not dismissed while it had no turnover.
LEMMA LinkedSettled ==
    ASSUME NEW s, NEW r, NEW done, Settled(s, done), NEW b \in Bookings, b \in done,
           ~s.booking[b].dismissed, NEW u \in Turnovers, Links(s, r, b, u)
    PROVE  Settled(r, done) /\ Free(s) \ {u} \subseteq Free(r)
<1>1. /\ s \in Tx /\ s.booking \in [Bookings -> Booking] /\ s.turnover \in [Turnovers -> Turnover]
      /\ r \in Tx
  BY DEF Settled, Tx, Links
<1>2. \A c \in Bookings : /\ r.booking[c].day = s.booking[c].day
                          /\ r.booking[c].dismissed = s.booking[c].dismissed
                          /\ c # b => r.booking[c] = s.booking[c]
  BY <1>1 DEF Links, Booking
<1>3. \A t \in Turnovers : /\ t # u => r.turnover[t] = s.turnover[t]
                           /\ s.turnover[t].status = "scheduled" => r.turnover[t] = s.turnover[t]
  <2> SUFFICES ASSUME NEW t \in Turnovers
               PROVE  /\ t # u => r.turnover[t] = s.turnover[t]
                      /\ s.turnover[t].status = "scheduled" => r.turnover[t] = s.turnover[t]
    OBVIOUS
  <2>1. CASE r.turnover = s.turnover
    BY <2>1
  <2>2. CASE u \in Free(s) /\ \E row \in Turnover : r.turnover = [s.turnover EXCEPT ![u] = row]
    <3>1. s.turnover[u].status = "none"
      BY <2>2 DEF Free
    <3>2. t # u => r.turnover[t] = s.turnover[t]
      BY <1>1, <2>2
    <3> QED BY <3>1, <3>2
  <2>3. CASE /\ s.turnover[u].status = "cancelled"
             /\ r.turnover = [s.turnover EXCEPT ![u].status = "scheduled"]
    <3>1. t # u => r.turnover[t] = s.turnover[t]
      BY <1>1, <2>3
    <3> QED BY <2>3, <3>1
  <2> QED BY <2>1, <2>2, <2>3 DEF Links
<1>4. Free(s) \ {u} \subseteq Free(r)
  BY <1>3 DEF Free
<1>5. FollowsTheGuest(r, done)
  BY <1>2, <1>3 DEF Settled, FollowsTheGuest
<1>6. LeavesDismissed(r, done)
  <2> SUFFICES ASSUME NEW c \in Bookings
               PROVE  /\ c \notin done => r.booking[c] = booking[c]
                      /\ r.booking[c].dismissed = booking[c].dismissed
                      /\ booking[c].dismissed /\ booking[c].job = NoTurnover
                            => r.booking[c].job = NoTurnover
    BY DEF LeavesDismissed
  <2>1. CASE c = b
    BY <1>2, <2>1 DEF Settled, LeavesDismissed
  <2>2. CASE c # b
    BY <1>2, <2>2 DEF Settled, LeavesDismissed
  <2> QED BY <2>1, <2>2
<1> QED BY <1>1, <1>4, <1>5, <1>6 DEF Settled

\* One more booking is taken.
LEMMA TakenSettled ==
    ASSUME NEW own \in SUBSET Bookings, NEW s, NEW done, Taking(s, done, own),
           NEW b \in own, b \notin done, NEW d \in Days, NEW last, NEW inOrder
    PROVE  Taking(Taken(s, b, d, last, inOrder), done \cup {b}, own)
<1> DEFINE known == IF s.booking[b].kind = "unknown" THEN Flushed(s, inOrder) ELSE s
           m == Moved(known, b, d)
           u == Unlinked(m, b)
           more == done \cup {b}
<1>1. Settled(s, done) /\ b \in Bookings
  BY DEF Taking, Settled
<1>2. Settled(known, done) /\ Free(known) = Free(s)
  BY <1>1, FlushedSettled
<1> HIDE DEF known
<1>3. Settled(m, more) /\ Free(m) = Free(s)
  BY <1>1, <1>2, MovedSettled
<1> HIDE DEF m
<1>4. Settled(u, more) /\ Free(u) = Free(s)
  BY <1>1, <1>3, UnlinkedSettled
<1> HIDE DEF u
<1>5. /\ IsFiniteSet(Bookings) /\ IsFiniteSet(Turnovers)
      /\ more \in SUBSET own /\ done \in SUBSET own
  BY TurnoverAssumption DEF Taking
<1>6. /\ IsFiniteSet(own) /\ IsFiniteSet(done) /\ IsFiniteSet(Free(s))
      /\ \A r : IsFiniteSet(Free(r)) /\ Cardinality(Free(r)) \in Nat
  BY <1>5, FS_Subset, FS_CardinalityType DEF Free
<1>7. Cardinality(more) = Cardinality(done) + 1 /\ Cardinality(more) <= Cardinality(own)
      /\ Cardinality(done) \in Nat /\ Cardinality(own) \in Nat
  BY <1>5, <1>6, FS_AddElement, FS_Subset, FS_CardinalityType
<1>8. Cardinality(Free(s)) + Cardinality(done) >= Cardinality(own)
  BY DEF Taking
<1>9. Free(s) # {}
  BY <1>6, <1>7, <1>8, FS_EmptySet
<1>10. Taken(s, b, d, last, inOrder) =
         IF Wants(u, b, d) THEN Covered(u, b, d, last, inOrder) ELSE u
  BY DEF Taken, u, m, known
<1>11. CASE ~Wants(u, b, d)
  BY <1>4, <1>5, <1>6, <1>7, <1>8, <1>10, <1>11 DEF Settled, Taking
<1>12. CASE Wants(u, b, d)
  <2> DEFINE r == Covered(u, b, d, last, inOrder)
  <2>1. u \in Tx /\ ~u.booking[b].dismissed
    BY <1>4, <1>12 DEF Settled, Wants
  <2>2. PICK t \in Turnovers : Links(u, r, b, t)
    BY <1>1, <1>4, <1>9, <2>1, CoveredShape
  <2> HIDE DEF r
  <2>3. Settled(r, more) /\ Free(s) \ {t} \subseteq Free(r)
    <3>1. b \in more /\ t \in Turnovers /\ b \in Bookings
      BY <1>1, <2>2
    <3>2. Settled(r, more) /\ Free(u) \ {t} \subseteq Free(r)
      BY <1>4, <2>1, <2>2, <3>1, LinkedSettled
    <3> QED BY <1>4, <3>2
  <2> DEFINE rest == Free(s) \ {t}
  <2>4. IsFiniteSet(rest) /\ Cardinality(rest) \in Nat
        /\ Cardinality(rest) = IF t \in Free(s) THEN Cardinality(Free(s)) - 1 ELSE Cardinality(Free(s))
    BY <1>6, FS_RemoveElement, FS_CardinalityType
  <2>5. Cardinality(rest) <= Cardinality(Free(r))
    BY <1>6, <2>3, FS_Subset
  <2>6. Cardinality(Free(r)) + Cardinality(more) >= Cardinality(own)
    BY <1>6, <1>7, <1>8, <2>4, <2>5
  <2>7. Taking(r, more, own)
    BY <1>5, <2>3, <2>6 DEF Settled, Taking
  <2> QED BY <1>10, <1>12, <2>7 DEF r
<1> QED BY <1>11, <1>12

\* A booking the feed did not show is passed over.
LEMMA PassedOver ==
    ASSUME NEW own \in SUBSET Bookings, NEW s, NEW done, Taking(s, done, own),
           NEW b \in own, b \notin done
    PROVE  Taking(s, done \cup {b}, own)
<1>1. IsFiniteSet(done)
  BY TurnoverAssumption, FS_Subset DEF Taking
<1>2. IsFiniteSet(Free(s)) /\ IsFiniteSet(own)
  BY TurnoverAssumption, FS_Subset DEF Free
<1>3. Cardinality(done \cup {b}) = Cardinality(done) + 1
  BY <1>1, FS_AddElement
<1>4. Cardinality(Free(s)) \in Nat /\ Cardinality(done) \in Nat /\ Cardinality(own) \in Nat
  BY <1>1, <1>2, FS_CardinalityType
<1>5. Cardinality(Free(s)) + Cardinality(done \cup {b}) >= Cardinality(own)
  BY <1>3, <1>4 DEF Taking
<1>6. FollowsTheGuest(s, done \cup {b}) /\ LeavesDismissed(s, done \cup {b})
  BY DEF Taking, FollowsTheGuest, LeavesDismissed
<1> QED BY <1>5, <1>6 DEF Taking

\* All bookings of a feed, one after the other.
LEMMA AllTaken ==
    ASSUME TurnoverTypeOK, NEW own \in SUBSET Bookings,
           Cardinality({t \in Turnovers : turnover[t].status = "none"}) >= Cardinality(own),
           NEW read \in Content, NEW order \in SetToSeqs(own), NEW last, NEW inOrder,
           NEW start,
           start = [booking |-> booking, turnover |-> turnover, stored |-> turnover, ok |-> TRUE]
    PROVE  \E done \in SUBSET own : Taking(TakenUpTo(read, order, last, inOrder, start), done, own)
<1> DEFINE n == Cardinality(own)
<1>1. IsFiniteSet(own) /\ n \in Nat
  BY TurnoverAssumption, FS_Subset, FS_CardinalityType
<1>2. /\ order \in [1..n -> own]
      /\ \A i, j \in 1..n : i # j => order[i] # order[j]
  BY DEF SetToSeqs
<1> HIDE DEF n
<1>3. DOMAIN order = 1..n
  BY <1>2
<1>4. PICK run : /\ run[0] = start
                 /\ \A i \in 1..n : run[i] = TakenOne(read, last, inOrder, run[i - 1], order[i])
                 /\ run[n] = TakenUpTo(read, order, last, inOrder, start)
  BY <1>1, <1>3, FoldRuns, SMTT(30)
<1> DEFINE upTo(i) == {order[j] : j \in 1..i}
           P == {i \in Nat : i <= n => Taking(run[i], upTo(i), own)}
<1>5. 0 \in P
  <2>1. upTo(0) = {}
    OBVIOUS
  <2>2. start \in Tx
    BY DEF TurnoverTypeOK, Tx
  <2>3. Cardinality(Free(start)) + Cardinality({}) >= Cardinality(own)
    <3>1. Free(start) = {t \in Turnovers : turnover[t].status = "none"}
      BY DEF Free
    <3>2. IsFiniteSet(Free(start)) /\ Cardinality(Free(start)) \in Nat
      BY TurnoverAssumption, FS_Subset, FS_CardinalityType DEF Free
    <3>3. Cardinality({}) = 0
      BY FS_EmptySet
    <3>4. Cardinality(Free(start)) >= Cardinality(own)
      BY <3>1
    <3> QED BY <3>2, <3>3, <3>4
  <2>4. FollowsTheGuest(start, {}) /\ LeavesDismissed(start, {})
    BY DEF FollowsTheGuest, LeavesDismissed
  <2>5. Taking(start, {}, own)
    BY <2>2, <2>3, <2>4 DEF Taking
  <2> QED BY <1>4, <2>1, <2>5
<1>6. ASSUME NEW i \in P PROVE i + 1 \in P
  <2> SUFFICES ASSUME i + 1 <= n PROVE Taking(run[i + 1], upTo(i + 1), own)
    OBVIOUS
  <2>1. i \in Nat /\ i + 1 \in 1..n /\ (i + 1) - 1 = i
    BY <1>1
  <2>2. Taking(run[i], upTo(i), own)
    BY <1>1, <2>1
  <2>3. run[i + 1] = TakenOne(read, last, inOrder, run[i], order[i + 1])
    BY <1>4, <2>1
  <2>4. order[i + 1] \in own /\ order[i + 1] \notin upTo(i)
    BY <1>1, <1>2, <2>1
  <2>5. upTo(i + 1) = upTo(i) \cup {order[i + 1]}
    BY <2>1
  <2>6. read[order[i + 1]] \in Days \cup {Gone}
    BY <2>4 DEF Content
  <2> HIDE DEF upTo
  <2>7. CASE read[order[i + 1]] = Gone
    BY <2>2, <2>3, <2>4, <2>5, <2>7, PassedOver DEF TakenOne
  <2>8. CASE read[order[i + 1]] # Gone
    <3>1. read[order[i + 1]] \in Days
      BY <2>6, <2>8
    <3>2. run[i + 1] = Taken(run[i], order[i + 1], read[order[i + 1]], last, inOrder)
      BY <2>3, <2>8 DEF TakenOne
    <3> QED BY <2>2, <2>4, <2>5, <3>1, <3>2, TakenSettled
  <2> QED BY <2>7, <2>8
<1>7. P = Nat
  <2> HIDE DEF P
  <2>1. P \in SUBSET Nat
    BY DEF P
  <2> QED BY <1>5, <1>6, <2>1, Induction
<1>8. Taking(run[n], upTo(n), own)
  <2>1. n \in Nat
    BY <1>1
  <2>2. n \in P
    <3> HIDE DEF P
    <3> QED BY <1>7, <2>1
  <2> HIDE DEF upTo
  <2> QED BY <2>1, <2>2
<1>9. upTo(n) \in SUBSET own
  BY <1>2
<1> QED BY <1>4, <1>8, <1>9

\* What a feed leaves behind when it commits.
LEMMA ResultSettled ==
    ASSUME TurnoverTypeOK, NEW f \in Feeds, RowsLeft(f), NEW read \in Reads(f),
           NEW s \in TakeResults(f, read), s.ok
    PROVE  /\ \E done \in SUBSET Bookings : Settled(s, done)
           /\ \E inOrder : OneLinkEach(booking, s.booking, inOrder)
<1> DEFINE own == {b \in Bookings : FeedOf[b] = f}
           start == [booking |-> booking, turnover |-> turnover, stored |-> turnover, ok |-> TRUE]
<1>1. PICK order \in SetToSeqs(own), last \in Turnovers, inOrder \in BOOLEAN :
         s = TakenAll(read, order, last, inOrder)
  BY DEF TakeResults
<1>2. read \in Content
  BY DEF Reads, TurnoverTypeOK, Content
<1> DEFINE taken == TakenUpTo(read, order, last, inOrder, start)
           done == Flushed(taken, inOrder)
<1>3. own \in SUBSET Bookings
      /\ Cardinality({t \in Turnovers : turnover[t].status = "none"}) >= Cardinality(own)
  BY DEF RowsLeft
<1>4. s = [done EXCEPT !.ok = @ /\ OneLinkEach(booking, done.booking, inOrder)]
  BY <1>1 DEF TakenAll, TakenUpTo
<1> HIDE DEF own, start
<1>5. PICK which \in SUBSET own : Taking(taken, which, own)
  BY <1>2, <1>3, AllTaken DEF start
<1>6. Settled(taken, which)
  BY <1>3, <1>5 DEF Taking, Settled
<1> HIDE DEF taken
<1>7. Settled(done, which)
  BY <1>6, FlushedSettled
<1> HIDE DEF done
<1>8. /\ s.booking = done.booking /\ s.turnover = done.turnover /\ s.stored = done.stored
      /\ s \in Tx
  <2> DEFINE whole == done.ok /\ OneLinkEach(booking, done.booking, inOrder)
  <2>1. whole \in BOOLEAN /\ done \in Tx
    BY <1>7 DEF Settled
  <2>2. s = [done EXCEPT !.ok = whole]
    BY <1>4
  <2> HIDE DEF whole
  <2> QED BY <2>1, <2>2 DEF Tx
<1>9. OneLinkEach(booking, done.booking, inOrder)
  BY <1>4, <1>7 DEF Settled, Tx
<1> QED BY <1>3, <1>7, <1>8, <1>9 DEF Settled, FollowsTheGuest, LeavesDismissed

-----------------------------------------------------------------------------
(* The feeds and the office *)

\* A turnover has one booking (ical_events.job_id is UNIQUE).
OneLink ==
    \A b, c \in Bookings : b # c /\ booking[b].job # NoTurnover => booking[c].job # booking[b].job

\* While nothing stands against a sweep, all that is left to know of the feeds
\* taken is in what the run has seen.
ReadSoFar ==
    syncing.state = "running" /\ Sweepable =>
        \A f \in Feeds \ syncing.todo : memory[f] # Nothing /\ Shown(memory[f]) \subseteq syncing.seen

\* The inductive invariant.
TurnoverInv == TurnoverTypeOK /\ OneLink /\ ReadSoFar

\* What a feed shows is bookings.
LEMMA ShownAreBookings ==
    ASSUME TurnoverTypeOK, NEW f
    PROVE  \A read \in Reads(f) : read \in Content /\ Shown(read) \subseteq Bookings
BY DEF Reads, TurnoverTypeOK, Content, Shown

\* A sync starts, or gives up one feed, or skips one, or ends with nothing done.
LEMMA SyncRuns ==
    ASSUME TurnoverInv,
           \/ \E f \in Feeds : FetchFails(f) \/ FeedUnchanged(f)
           \/ \E fs \in SUBSET Feeds, tick \in BOOLEAN : StartSync(fs, tick)
    PROVE  TurnoverInv'
<1> USE DEF TurnoverInv, TurnoverTypeOK
<1>1. ASSUME NEW f \in Feeds, FetchFails(f) PROVE TurnoverInv'
  <2>1. syncing' \in Sync /\ ~Sweepable'
    BY <1>1 DEF FetchFails, Sync, Sweepable
  <2> QED BY <1>1, <2>1 DEF FetchFails, OneLink, ReadSoFar
<1>2. ASSUME NEW f \in Feeds, FeedUnchanged(f) PROVE TurnoverInv'
  <2>1. memory[f] # Nothing /\ Shown(memory[f]) \subseteq Bookings
    BY <1>2, ShownAreBookings DEF FeedUnchanged
  <2>2. /\ syncing' \in Sync /\ syncing'.todo = syncing.todo \ {f}
        /\ syncing'.seen = syncing.seen \cup Shown(memory[f])
        /\ syncing'.state = syncing.state /\ (Sweepable' <=> Sweepable)
    BY <1>2, <2>1 DEF FeedUnchanged, Sync, Sweepable
  <2>3. ReadSoFar'
    BY <1>2, <2>1, <2>2 DEF FeedUnchanged, ReadSoFar, Shown
  <2> QED BY <1>2, <2>2, <2>3 DEF FeedUnchanged, OneLink
<1>3. ASSUME NEW fs \in SUBSET Feeds, NEW tick \in BOOLEAN, StartSync(fs, tick)
      PROVE  TurnoverInv'
  <2>1. /\ syncing' \in Sync /\ syncing'.todo = fs /\ (syncing'.all <=> fs = Feeds)
    BY <1>3 DEF StartSync, Sync, NoSync
  <2>2. ReadSoFar'
    BY <2>1 DEF ReadSoFar, Sweepable
  <2> QED BY <1>3, <2>1, <2>2 DEF StartSync, OneLink
<1> QED BY <1>1, <1>2, <1>3

\* A feed is taken, or raises.
LEMMA FeedStep ==
    ASSUME TurnoverInv, NEW f \in Feeds, TakeFeed(f)
    PROVE  TurnoverInv'
<1>0. PICK read \in Reads(f) : \E s \in TakeResults(f, read) : FeedTaken(f, read, s) \/ FeedRaises(s)
  BY DEF TakeFeed
<1>1. PICK s \in TakeResults(f, read) : FeedTaken(f, read, s) \/ FeedRaises(s)
  BY <1>0
<1>2. CASE FeedRaises(s)
  BY <1>2 DEF FeedRaises, TurnoverInv, TurnoverTypeOK, OneLink, ReadSoFar, NoSync, Sync
<1>3. CASE FeedTaken(f, read, s)
  <2>1. /\ \E done \in SUBSET Bookings : Settled(s, done)
        /\ \E inOrder : OneLinkEach(booking, s.booking, inOrder)
    BY <1>3, ResultSettled DEF TurnoverInv, TakeFeed, FeedTaken
  <2>2. read \in Content /\ Shown(read) \subseteq Bookings
    BY ShownAreBookings DEF TurnoverInv
  <2>3. booking' = s.booking /\ turnover' = s.turnover /\ UNCHANGED <<platform, today>>
    BY <1>3 DEF FeedTaken
  <2>4. memory' = memory \/ memory' = [memory EXCEPT ![f] = read]
    BY <1>3 DEF FeedTaken
  <2>5. /\ syncing' \in Sync /\ syncing'.todo = syncing.todo \ {f}
        /\ syncing'.seen = syncing.seen \cup Shown(read)
        /\ syncing'.state = syncing.state
        /\ Sweepable' => Sweepable /\ memory' = [memory EXCEPT ![f] = read]
    <3> DEFINE partial == Partial(f, read)
               trusted == syncing.reliable /\ ~partial
    <3>1. /\ syncing' = [syncing EXCEPT !.todo = @ \ {f}, !.seen = @ \cup Shown(read),
                                        !.reliable = trusted]
          /\ memory' = IF partial THEN memory ELSE [memory EXCEPT ![f] = read]
      BY <1>3 DEF FeedTaken
    <3>2. trusted \in BOOLEAN
      OBVIOUS
    <3>3. trusted => syncing.reliable /\ ~partial
      BY DEF TurnoverInv, TurnoverTypeOK, Sync
    <3> HIDE DEF partial, trusted
    <3>4. syncing' \in Sync /\ syncing'.todo = syncing.todo \ {f}
          /\ syncing'.seen = syncing.seen \cup Shown(read)
          /\ syncing'.state = syncing.state /\ syncing'.all = syncing.all
          /\ syncing'.reliable = trusted
      BY <2>2, <3>1, <3>2 DEF TurnoverInv, TurnoverTypeOK, Sync
    <3> QED BY <3>1, <3>3, <3>4 DEF Sweepable
  <2>6. TurnoverTypeOK'
    BY <2>1, <2>2, <2>3, <2>4, <2>5 DEF TurnoverInv, TurnoverTypeOK, Settled, Tx
  <2>7. OneLink'
    <3> SUFFICES ASSUME NEW b \in Bookings, NEW c \in Bookings, b # c,
                        s.booking[b].job # NoTurnover, s.booking[c].job = s.booking[b].job
                 PROVE  FALSE
      BY <2>3 DEF OneLink
    <3>1. CASE s.booking[b].job # booking[b].job
      BY <2>1, <3>1 DEF OneLinkEach
    <3>2. CASE s.booking[c].job # booking[c].job
      BY <2>1, <3>2 DEF OneLinkEach
    <3> QED BY <3>1, <3>2 DEF TurnoverInv, OneLink
  <2>8. ReadSoFar'
    <3> SUFFICES ASSUME syncing'.state = "running", Sweepable', NEW g \in Feeds \ syncing'.todo
                 PROVE  memory'[g] # Nothing /\ Shown(memory'[g]) \subseteq syncing'.seen
      BY DEF ReadSoFar, Shown
    <3>1. Sweepable /\ memory' = [memory EXCEPT ![f] = read] /\ memory \in [Feeds -> Content \cup {Nothing}]
      BY <2>5 DEF TurnoverInv, TurnoverTypeOK
    <3>2. CASE g = f
      <4>1. memory'[g] = read
        BY <3>1, <3>2
      <4>2. read # Nothing
        BY <2>2, TurnoverAssumption DEF Content
      <4> QED BY <2>5, <4>1, <4>2
    <3>3. CASE g # f
      <4>1. memory'[g] = memory[g]
        BY <3>1, <3>3
      <4>2. g \in Feeds \ syncing.todo /\ syncing.state = "running"
        BY <2>5, <3>3
      <4>3. memory[g] # Nothing /\ Shown(memory[g]) \subseteq syncing.seen
        BY <3>1, <4>2 DEF TurnoverInv, ReadSoFar
      <4> QED BY <2>5, <4>1, <4>3
    <3> QED BY <3>2, <3>3
  <2> QED BY <2>6, <2>7, <2>8 DEF TurnoverInv
<1> QED BY <1>1, <1>2, <1>3

\* The sweep, the office, the platforms and the night.
LEMMA SweepStep ==
    ASSUME TurnoverInv, Sweep
    PROVE  TurnoverInv'
<1>1. syncing' = NoSync /\ NoSync \in Sync /\ UNCHANGED <<platform, memory, today>>
  BY DEF Sweep, NoSync, Sync
<1>2. ReadSoFar'
  BY <1>1 DEF ReadSoFar, NoSync
<1>3. CASE ~Sweepable
  BY <1>1, <1>2, <1>3 DEF Sweep, TurnoverInv, TurnoverTypeOK, OneLink
<1>4. CASE Sweepable
  <2>1. /\ booking' = [b \in Bookings |-> IF b \in Missing
                          THEN [booking[b] EXCEPT !.kind = "cancelled", !.job = NoTurnover]
                          ELSE booking[b]]
        /\ turnover' = [t \in Turnovers |->
              IF turnover[t].status = "scheduled" /\ \E b \in Missing : booking[b].job = t
              THEN [turnover[t] EXCEPT !.status = "cancelled"] ELSE turnover[t]]
    BY <1>4 DEF Sweep
  <2>2. booking' \in [Bookings -> Booking]
    BY <2>1 DEF TurnoverInv, TurnoverTypeOK, Booking
  <2>3. turnover' \in [Turnovers -> Turnover]
    BY <2>1, ZenonT(40) DEF TurnoverInv, TurnoverTypeOK, Turnover
  <2>4. \A b \in Bookings : booking'[b].job \in {booking[b].job, NoTurnover}
    BY <2>1 DEF TurnoverInv, TurnoverTypeOK, Booking
  <2>5. OneLink'
    BY <2>4 DEF TurnoverInv, OneLink
  <2> QED BY <1>1, <1>2, <2>2, <2>3, <2>5 DEF TurnoverInv, TurnoverTypeOK
<1> QED BY <1>3, <1>4

\* The office's work on the board.
LEMMA OfficeStepInv ==
    ASSUME TurnoverInv, OfficeStep
    PROVE  TurnoverInv'
<1> USE DEF TurnoverInv, TurnoverTypeOK
<1>1. PICK t \in Turnovers :
         \/ StatusSet(t, "cancelled") \/ StatusSet(t, "completed")
         \/ Reopen(t) \/ DeleteTurnover(t) \/ PurgeCancelled(t)
         \/ \E d \in Days : MoveTurnover(t, d)
  BY DEF OfficeStep
<1>2. UNCHANGED <<platform, memory, syncing, today>>
  BY <1>1 DEF StatusSet, Reopen, DeleteTurnover, PurgeCancelled, MoveTurnover
<1>3. turnover' \in [Turnovers -> Turnover]
  <2>1. \A status \in {"scheduled", "completed", "cancelled"} :
           [turnover EXCEPT ![t].status = status] \in [Turnovers -> Turnover]
    BY DEF Turnover
  <2>2. \A d \in Days : [turnover EXCEPT ![t].day = d] \in [Turnovers -> Turnover]
    BY DEF Turnover
  <2>3. [turnover EXCEPT ![t] = [status |-> "none", day |-> Gone]] \in [Turnovers -> Turnover]
    BY DEF Turnover
  <2> QED BY <1>1, <2>1, <2>2, <2>3
          DEF StatusSet, Reopen, DeleteTurnover, PurgeCancelled, MoveTurnover
<1>4. booking' \in [Bookings -> Booking]
      /\ \A b \in Bookings : booking'[b].job \in {booking[b].job, NoTurnover}
  <2>1. CASE DeleteTurnover(t)
    BY <2>1 DEF DeleteTurnover, Booking
  <2>2. CASE PurgeCancelled(t)
    BY <2>2 DEF PurgeCancelled, Booking
  <2>3. CASE booking' = booking
    BY <2>3
  <2> QED BY <1>1, <2>1, <2>2, <2>3 DEF StatusSet, Reopen, MoveTurnover
<1>5. OneLink'
  BY <1>4 DEF OneLink
<1>6. ReadSoFar'
  BY <1>2 DEF ReadSoFar, Sweepable, Shown
<1> QED BY <1>2, <1>3, <1>4, <1>5, <1>6

\* The types, one booking to a turnover, and what a run has read, at any time.
LEMMA TurnoverInvariant == TurnoverSpec => []TurnoverInv
<1>1. TurnoverInit => TurnoverInv
  <2> SUFFICES ASSUME TurnoverInit PROVE TurnoverInv
    OBVIOUS
  <2>1. TurnoverTypeOK
    BY TurnoverAssumption
       DEF TurnoverInit, TurnoverTypeOK, Content, Booking, Turnover, Sync, NoSync, Days
  <2>2. OneLink /\ ReadSoFar
    BY DEF TurnoverInit, OneLink, ReadSoFar, NoSync
  <2> QED BY <2>1, <2>2 DEF TurnoverInv
<1>2. TurnoverInv /\ [TurnoverNext]_turnoverVars => TurnoverInv'
  <2> SUFFICES ASSUME TurnoverInv, [TurnoverNext]_turnoverVars PROVE TurnoverInv'
    OBVIOUS
  <2>1. CASE UNCHANGED turnoverVars
    BY <2>1 DEF turnoverVars, TurnoverInv, TurnoverTypeOK, OneLink, ReadSoFar, Sweepable, Shown
  <2>2. CASE \E b \in Bookings, d \in Days \cup {Gone} : GuestsChange(b, d)
    BY <2>2 DEF GuestsChange, TurnoverInv, TurnoverTypeOK, Content, OneLink, ReadSoFar, Sweepable, Shown
  <2>3. CASE NightFalls
    <3>1. today' \in Days
      BY <2>3, TurnoverAssumption DEF NightFalls, TurnoverInv, TurnoverTypeOK, Days
    <3> QED BY <2>3, <3>1 DEF NightFalls, TurnoverInv, TurnoverTypeOK, OneLink, ReadSoFar, Sweepable, Shown
  <2> QED BY <2>1, <2>2, <2>3, SyncRuns, FeedStep, SweepStep, OfficeStepInv
          DEF TurnoverNext, SyncStep
<1> QED BY <1>1, <1>2, PTL DEF TurnoverSpec

\* The sweep cancels only turnovers whose booking no feed of the run showed, and
\* only when every feed was read in full, for any number of feeds and bookings,
\* whatever fails, is skipped or is retried, and whatever the office does between
\* two feeds (the cancellations at the end of sync_property).
THEOREM SweptWhenGone == TurnoverSpec => SweptOnlyWhenGone
<1> DEFINE Swept ==
      syncing.state = "running" /\ syncing' = NoSync =>
         \A t \in CancelledNow :
            /\ \A b \in Bookings : booking[b].job = t => b \notin syncing.seen
            /\ syncing.all /\ syncing.reliable
            /\ \A f \in Feeds : memory[f] # Nothing
                  /\ \A b \in Shown(memory[f]) : booking[b].job # t
<1>1. TurnoverInv /\ [TurnoverNext]_turnoverVars => [Swept]_turnoverVars
  <2> SUFFICES ASSUME TurnoverInv, TurnoverNext, syncing.state = "running", syncing' = NoSync,
                      NEW t \in CancelledNow
               PROVE  /\ \A b \in Bookings : booking[b].job = t => b \notin syncing.seen
                      /\ syncing.all /\ syncing.reliable
                      /\ \A f \in Feeds : memory[f] # Nothing
                            /\ \A b \in Shown(memory[f]) : booking[b].job # t
    BY DEF turnoverVars, CancelledNow
  <2>1. t \in Turnovers /\ turnover[t].status = "scheduled" /\ turnover'[t].status = "cancelled"
    BY DEF CancelledNow
  <2>2. Sweep
    <3>1. syncing # NoSync /\ syncing'.state = "idle"
      BY DEF NoSync
    <3>2. ASSUME NEW f \in Feeds, FetchFails(f) \/ FeedUnchanged(f) PROVE FALSE
      <4>1. syncing'.state = syncing.state
        BY <3>2 DEF FetchFails, FeedUnchanged, TurnoverInv, TurnoverTypeOK, Sync
      <4> QED BY <3>1, <4>1
    <3>3. ASSUME NEW f \in Feeds, TakeFeed(f) PROVE FALSE
      <4>1. PICK read \in Reads(f) : \E s \in TakeResults(f, read) :
               FeedTaken(f, read, s) \/ FeedRaises(s)
        BY <3>3 DEF TakeFeed
      <4>2. PICK s \in TakeResults(f, read) : FeedTaken(f, read, s) \/ FeedRaises(s)
        BY <4>1
      <4>3. CASE FeedTaken(f, read, s)
        <5> DEFINE partial == Partial(f, read)
                   trusted == syncing.reliable /\ ~partial
        <5>1. syncing' = [syncing EXCEPT !.todo = @ \ {f}, !.seen = @ \cup Shown(read),
                                         !.reliable = trusted]
          BY <4>3 DEF FeedTaken
        <5> HIDE DEF trusted
        <5>2. syncing'.state = syncing.state
          BY <5>1 DEF TurnoverInv, TurnoverTypeOK, Sync
        <5> QED BY <3>1, <5>2
      <4>4. CASE FeedRaises(s)
        BY <2>1, <4>4 DEF FeedRaises
      <4> QED BY <4>2, <4>3, <4>4
    <3>4. ~OfficeStep
      BY <3>1 DEF OfficeStep, StatusSet, Reopen, DeleteTurnover, PurgeCancelled, MoveTurnover
    <3> QED BY <3>1, <3>2, <3>3, <3>4 DEF TurnoverNext, SyncStep, GuestsChange, StartSync, NightFalls
  <2>3. Sweepable /\ syncing.todo = {} /\ \E b \in Missing : booking[b].job = t
    BY <2>1, <2>2 DEF Sweep, TurnoverInv, TurnoverTypeOK, Turnover
  <2>4. \A b \in Bookings : booking[b].job = t => b \notin syncing.seen
    BY <2>1, <2>3, TurnoverAssumption DEF Missing, TurnoverInv, OneLink
  <2>5. \A f \in Feeds : memory[f] # Nothing /\ Shown(memory[f]) \subseteq syncing.seen
    BY <2>3 DEF TurnoverInv, ReadSoFar
  <2>6. \A f \in Feeds : Shown(memory[f]) \subseteq Bookings
    BY DEF Shown
  <2> QED BY <2>3, <2>4, <2>5, <2>6 DEF Sweepable
<1> QED BY <1>1, TurnoverInvariant, PTL DEF TurnoverSpec, SweptOnlyWhenGone, Swept

\* The sync moves a turnover only to follow its own booking's checkout and makes
\* nothing for a booking the office dismissed, in whatever order the feed lists
\* the bookings and however many of them share a date.
THEOREM OfficeStands == TurnoverSpec => OfficeDecisionStands
<1>1. TurnoverInv /\ [TurnoverNext]_turnoverVars => [OfficeOverruled => ~SyncStep]_turnoverVars
  <2> SUFFICES ASSUME TurnoverInv, SyncStep, OfficeOverruled PROVE FALSE
    OBVIOUS
  <2>1. PICK b \in Bookings :
           IF booking[b].job = NoTurnover
           THEN booking[b].dismissed /\ booking'[b].job # NoTurnover
           ELSE /\ turnover[booking[b].job].status = "scheduled"
                /\ turnover'[booking[b].job].day # turnover[booking[b].job].day
                /\ booking'[b].day = booking[b].day
    BY DEF OfficeOverruled
  <2>2. booking[b].job # NoTurnover => booking[b].job \in Turnovers
    BY DEF TurnoverInv, TurnoverTypeOK, Booking
  <2>3. CASE UNCHANGED <<booking, turnover>>
    BY <2>1, <2>3
  <2>4. CASE Sweep /\ Sweepable
    <3>1. booking[b].job = NoTurnover => booking'[b].job = NoTurnover
      <4>1. booking'[b] = IF b \in Missing
                          THEN [booking[b] EXCEPT !.kind = "cancelled", !.job = NoTurnover]
                          ELSE booking[b]
        BY <2>4 DEF Sweep
      <4> QED BY <4>1 DEF TurnoverInv, TurnoverTypeOK, Booking
    <3>2. ASSUME NEW t \in Turnovers PROVE turnover'[t].day = turnover[t].day
      <4>1. turnover'[t] \in {turnover[t], [turnover[t] EXCEPT !.status = "cancelled"]}
        BY <2>4 DEF Sweep
      <4> QED BY <4>1 DEF TurnoverInv, TurnoverTypeOK, Turnover
    <3> QED BY <2>1, <2>2, <3>1, <3>2
  <2>5. ASSUME NEW f \in Feeds, NEW read \in Reads(f), NEW s \in TakeResults(f, read),
               RowsLeft(f), FeedTaken(f, read, s)
        PROVE  FALSE
    <3>1. PICK done \in SUBSET Bookings : Settled(s, done)
      BY <2>5, ResultSettled DEF TurnoverInv, FeedTaken
    <3>2. booking' = s.booking /\ turnover' = s.turnover
      BY <2>5 DEF FeedTaken
    <3>3. CASE booking[b].job = NoTurnover
      BY <2>1, <3>1, <3>2, <3>3 DEF Settled, LeavesDismissed
    <3>4. CASE booking[b].job # NoTurnover
      <4>1. PICK c \in done : booking[c].job = booking[b].job /\ s.booking[c].day # booking[c].day
        BY <2>1, <2>2, <3>1, <3>2, <3>4 DEF Settled, FollowsTheGuest
      <4>2. c = b
        BY <3>1, <3>4, <4>1 DEF Settled, TurnoverInv, OneLink
      <4> QED BY <2>1, <3>2, <3>4, <4>1, <4>2
    <3> QED BY <3>3, <3>4
  <2>6. ~\E f \in Feeds : TakeFeed(f) /\ ~UNCHANGED <<booking, turnover>>
    BY <2>5 DEF TakeFeed, FeedRaises
  <2> QED BY <2>3, <2>4, <2>6 DEF SyncStep, FetchFails, FeedUnchanged, Sweep
<1> QED BY <1>1, TurnoverInvariant, PTL DEF TurnoverSpec, OfficeDecisionStands
=============================================================================
