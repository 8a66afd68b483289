---------------------------- MODULE GoogleMirror ----------------------------
(***************************************************************************)
(* The Google Calendar events of upcoming jobs: created when a job is made *)
(* or edited, pushed and restored by the reconcile tick, deleted with the  *)
(* job (modules/scheduling/router.py, modules/recurring/router.py,         *)
(* integrations/gcal_sync.py, integrations/google_calendar.py).            *)
(*                                                                         *)
(* Google and the database share no transaction: an event exists before    *)
(* the row that cites it is committed, any call can fail, and an answer    *)
(* can be lost after the call took effect.                                 *)
(***************************************************************************)
EXTENDS Integers, FiniteSets, FiniteSetsExt

CONSTANTS
    Jobs,       \* ids of upcoming jobs, in the order pushes lock them
    CalendarEvents,     \* the event ids Google can hand out (a bound for TLC)
    Pushers,    \* runs of push_to_gcal: the tick, the two endpoints
    NoEvent,    \* gcal_event_id IS NULL
    NoJob,
    Crowded     \* office requests overlap with pushes and with the healing

ASSUME MirrorAssumption ==
    /\ Jobs \subseteq Nat /\ NoJob \notin Jobs \cup Pushers
    /\ NoEvent \notin CalendarEvents /\ Crowded \in BOOLEAN

VARIABLES
    task,     \* the jobs rows: status and gcal_event_id
    google,   \* Google: which job an event was made for, and whether it is there
    booked,   \* the office request between the job's commit and the event's
    pushing,  \* each push: jobs still to do, events made and not committed
    holder,   \* the push that locked a job's row
    healing,  \* the links reassert_deleted_gcal_events is about to clear
    strays    \* history: events nobody can find from a job any more

mirrorVars == <<task, google, booked, pushing, holder, healing, strays>>

Task == [status: {"none", "scheduled", "completed", "cancelled", "deleted"},
         event: CalendarEvents \cup {NoEvent}]
NoPush == [on |-> FALSE, todo |-> {}, made |-> [j \in Jobs |-> NoEvent]]
NotBooked == [job |-> NoJob, made |-> NoEvent]
NotHealing == [on |-> FALSE, missing |-> {}]

MirrorTypeOK ==
    /\ task \in [Jobs -> Task]
    /\ google \in [CalendarEvents -> [of: Jobs \cup {NoJob}, live: BOOLEAN]]
    /\ booked \in [job: Jobs \cup {NoJob}, made: CalendarEvents \cup {NoEvent}]
    /\ pushing \in [Pushers -> [on: BOOLEAN, todo: SUBSET Jobs,
                                made: [Jobs -> CalendarEvents \cup {NoEvent}]]]
    /\ holder \in [Jobs -> Pushers \cup {NoJob}]
    /\ healing \in [on: BOOLEAN, missing: SUBSET Jobs]
    /\ strays \subseteq CalendarEvents

MirrorInit ==
    /\ task = [j \in Jobs |-> [status |-> "none", event |-> NoEvent]]
    /\ google = [e \in CalendarEvents |-> [of |-> NoJob, live |-> FALSE]]
    /\ booked = NotBooked
    /\ pushing = [p \in Pushers |-> NoPush]
    /\ holder = [j \in Jobs |-> NoJob]
    /\ healing = NotHealing
    /\ strays = {}

-----------------------------------------------------------------------------
(* Google's side of a call *)

\* create_event: the id of a new event, or none; when the answer is lost the
\* event may be there all the same.
Create(j, e) ==
    \/ /\ e \in CalendarEvents /\ google[e].of = NoJob
       /\ google' = [google EXCEPT ![e] = [of |-> j, live |-> TRUE]]
       /\ UNCHANGED strays
    \/ /\ e = NoEvent
       /\ \/ UNCHANGED <<google, strays>>
          \/ \E lost \in CalendarEvents :
                /\ google[lost].of = NoJob
                /\ google' = [google EXCEPT ![lost] = [of |-> j, live |-> TRUE]]
                /\ strays' = strays \cup {lost}

\* delete_event: True only when Google said so; an event that is gone already
\* and a lost answer both read as False.
Delete(e, ok) ==
    \/ google[e].live /\ google' = [google EXCEPT ![e].live = FALSE]
    \/ ~ok /\ UNCHANGED google

\* Nothing but pushes overlaps, unless Crowded.
Calm == Crowded \/ (healing = NotHealing /\ \A p \in Pushers : ~pushing[p].on)
Idling == booked = NotBooked
Writable(j) == holder[j] = NoJob

-----------------------------------------------------------------------------
(* The office: one request at a time *)

\* create_job commits the row and goes on to Google; update_job does so for a
\* dated job without an event, one set back to scheduled included.
Commission(j) ==
    /\ Calm /\ Idling /\ Writable(j)
    /\ task[j].status \in {"none", "scheduled", "cancelled"} /\ task[j].event = NoEvent
    /\ task' = [task EXCEPT ![j].status = "scheduled"]
    /\ booked' = [NotBooked EXCEPT !.job = j]
    /\ UNCHANGED <<google, pushing, holder, healing, strays>>

CommissionCreate ==
    /\ Calm /\ booked.job # NoJob /\ booked.made = NoEvent
    /\ \E e \in CalendarEvents \cup {NoEvent} :
          /\ Create(booked.job, e)
          /\ booked' = IF e = NoEvent THEN NotBooked ELSE [booked EXCEPT !.made = e]
    /\ UNCHANGED <<task, pushing, holder, healing>>

CommissionCommit ==
    /\ Calm /\ booked.made # NoEvent /\ Writable(booked.job)
    /\ task' = [task EXCEPT ![booked.job].event = booked.made]
    /\ booked' = NotBooked
    /\ UNCHANGED <<google, pushing, holder, healing, strays>>

\* The process dies with the event made and its id nowhere.
CommissionDies ==
    /\ ~Idling
    /\ booked' = NotBooked
    /\ strays' = strays \cup ({booked.made} \ {NoEvent})
    /\ UNCHANGED <<task, google, pushing, holder, healing>>

OfficeMay(j, statuses) == Calm /\ Idling /\ Writable(j) /\ task[j].status \in statuses
Linked(j) == task[j].event # NoEvent

\* A job without an event, or with the event untouched: skip_job, complete_job,
\* update_job setting a cancelled job whose delete failed back to scheduled.
SetStatus(j, from, to) ==
    /\ OfficeMay(j, {from})
    /\ task' = [task EXCEPT ![j].status = to]
    /\ UNCHANGED <<google, booked, pushing, holder, healing, strays>>

\* update_job, a series edit or the iCal sweep cancels: the link goes only when
\* Google confirmed, so that the delete can be tried again.
CancelLinked(j) ==
    /\ OfficeMay(j, {"scheduled", "cancelled"}) /\ Linked(j)
    /\ \E ok \in BOOLEAN :
          /\ Delete(task[j].event, ok)
          /\ task' = [task EXCEPT ![j].status = "cancelled", ![j].event = IF ok THEN NoEvent ELSE @]
    /\ UNCHANGED <<booked, pushing, holder, healing, strays>>

\* The job's type changes: the event moves to another calendar, deleted there
\* and made here; if the delete did not apply the old one stays.
MoveCalendar(j) ==
    /\ OfficeMay(j, {"scheduled"}) /\ Linked(j)
    /\ \/ Delete(task[j].event, FALSE) /\ UNCHANGED <<task, strays>>
       \/ /\ google[task[j].event].live
          /\ \E e \in CalendarEvents \cup {NoEvent} :
                /\ e # NoEvent => google[e].of = NoJob
                /\ google' = [d \in CalendarEvents |-> IF d = task[j].event THEN [google[d] EXCEPT !.live = FALSE]
                                               ELSE IF d = e THEN [of |-> j, live |-> TRUE] ELSE google[d]]
                /\ \/ task' = [task EXCEPT ![j].event = e] /\ UNCHANGED strays
                   \/ UNCHANGED task /\ strays' = strays \cup ({e} \ {NoEvent})  \* answer lost
    /\ UNCHANGED <<booked, pushing, holder, healing>>

\* _reschedule_occurrence: the event is updated in place; when that fails the
\* link is dropped and the event deleted, or so it is hoped.
RescheduleLinked(j) ==
    /\ OfficeMay(j, {"scheduled"}) /\ Linked(j)
    /\ \E ok \in BOOLEAN : Delete(task[j].event, ok)
    /\ task' = [task EXCEPT ![j].event = NoEvent]
    /\ strays' = strays \cup {e \in {task[j].event} : google'[e].live}
    /\ UNCHANGED <<booked, pushing, holder, healing>>

\* delete_job tries the event, purge_cancelled_turnovers does not; the row goes
\* either way.
RemoveTask(j) ==
    /\ OfficeMay(j, {"scheduled", "completed", "cancelled"})
    /\ task' = [task EXCEPT ![j] = [status |-> "deleted", event |-> NoEvent]]
    /\ \/ Linked(j) /\ \E ok \in BOOLEAN : Delete(task[j].event, ok)
       \/ (Linked(j) => task[j].status = "cancelled") /\ UNCHANGED google
    /\ strays' = strays \cup {e \in CalendarEvents : task[j].event = e /\ google'[e].live}
    /\ UNCHANGED <<booked, pushing, holder, healing>>

-----------------------------------------------------------------------------
(* push_to_gcal *)

Unpushed == {j \in Jobs : task[j].status = "scheduled" /\ ~Linked(j)}

PushRead(p) ==
    /\ Idling \/ Crowded
    /\ ~pushing[p].on /\ Unpushed # {}
    /\ pushing' = [pushing EXCEPT ![p] = [NoPush EXCEPT !.on = TRUE, !.todo = Unpushed]]
    /\ UNCHANGED <<task, google, booked, holder, healing, strays>>

\* Mutation: the rows are taken as the query found them.
PushUnlocked(p) ==
    /\ pushing[p].todo # {}
    /\ LET j == Min(pushing[p].todo)
       IN \E e \in CalendarEvents \cup {NoEvent} :
             /\ Create(j, e)
             /\ pushing' = [pushing EXCEPT ![p].todo = @ \ {j}, ![p].made[j] = e]
    /\ UNCHANGED <<task, booked, holder, healing>>

\* The next job in id order: lock its row, look again, create its event.  The
\* status is not looked at again.
Push(p) ==
    /\ pushing[p].todo # {}
    /\ LET j == Min(pushing[p].todo)
       IN /\ holder[j] \in {NoJob, p}
          /\ holder' = [holder EXCEPT ![j] = p]
          /\ \E e \in CalendarEvents \cup {NoEvent} :
                /\ IF Linked(j) THEN e = NoEvent /\ UNCHANGED <<google, strays>> ELSE Create(j, e)
                /\ pushing' = [pushing EXCEPT ![p].todo = @ \ {j}, ![p].made[j] = e]
    /\ UNCHANGED <<task, booked, healing>>

\* One commit for all of them, which frees the rows.
PushCommit(p) ==
    /\ pushing[p].on /\ pushing[p].todo = {}
    /\ task' = [j \in Jobs |-> IF pushing[p].made[j] = NoEvent THEN task[j]
                               ELSE [task[j] EXCEPT !.event = pushing[p].made[j]]]
    /\ pushing' = [pushing EXCEPT ![p] = NoPush]
    /\ holder' = [j \in Jobs |-> IF holder[j] = p THEN NoJob ELSE holder[j]]
    /\ UNCHANGED <<google, booked, healing, strays>>

PushDies(p) ==
    /\ pushing[p].on
    /\ strays' = strays \cup ({pushing[p].made[j] : j \in Jobs} \ {NoEvent})
    /\ pushing' = [pushing EXCEPT ![p] = NoPush]
    /\ holder' = [j \in Jobs |-> IF holder[j] = p THEN NoJob ELSE holder[j]]
    /\ UNCHANGED <<task, google, booked, healing>>

-----------------------------------------------------------------------------
(* reassert_deleted_gcal_events, and the manual read-back *)

LinkedJobs == {j \in Jobs : task[j].status = "scheduled" /\ Linked(j)}

\* The list came back whole, and these events are not in it.
HealRead ==
    /\ Idling \/ Crowded
    /\ ~healing.on
    /\ LET missing == {j \in LinkedJobs : ~google[task[j].event].live}
       IN missing # {} /\ healing' = [on |-> TRUE, missing |-> missing]
    /\ UNCHANGED <<task, google, booked, pushing, holder, strays>>

HealCommit ==
    /\ healing.on /\ \A j \in healing.missing : Writable(j)
    /\ task' = [j \in Jobs |-> IF j \in healing.missing THEN [task[j] EXCEPT !.event = NoEvent] ELSE task[j]]
    /\ healing' = NotHealing
    /\ UNCHANGED <<google, booked, pushing, holder, strays>>

\* "Sync now" (POST /sync-gcal): a job whose event is gone is cancelled.
ReadBack(j) ==
    /\ OfficeMay(j, {"scheduled"}) /\ Linked(j) /\ ~google[task[j].event].live
    /\ task' = [task EXCEPT ![j].status = "cancelled"]
    /\ UNCHANGED <<google, booked, pushing, holder, healing, strays>>

\* Somebody deletes the event in Google.
DeletedInGoogle(e) ==
    /\ google[e].live
    /\ google' = [google EXCEPT ![e].live = FALSE]
    /\ UNCHANGED <<task, booked, pushing, holder, healing, strays>>

-----------------------------------------------------------------------------
MirrorOffice(j) ==
    \/ Commission(j) \/ CancelLinked(j) \/ MoveCalendar(j) \/ RescheduleLinked(j)
    \/ RemoveTask(j) \/ ReadBack(j)
    \/ SetStatus(j, "scheduled", "cancelled") \/ SetStatus(j, "scheduled", "completed")
    \/ Linked(j) /\ SetStatus(j, "cancelled", "scheduled")

MirrorNext ==
    \/ CommissionCreate \/ CommissionCommit \/ CommissionDies
    \/ \E j \in Jobs : MirrorOffice(j)
    \/ \E p \in Pushers : PushRead(p) \/ Push(p) \/ PushCommit(p) \/ PushDies(p)
    \/ HealRead \/ HealCommit
    \/ \E e \in CalendarEvents : DeletedInGoogle(e)

MirrorSpec == MirrorInit /\ [][MirrorNext]_mirrorVars

-----------------------------------------------------------------------------
(* Properties *)

InFlight == {booked.made} \cup {pushing[p].made[j] : p \in Pushers, j \in Jobs}

\* An event whose id the program learned is found from its job for as long as
\* it is in the calendar: no two pushes, no healing, move or cancellation makes
\* a second event for a job that has one, or forgets one that is still there
\* ("a false missing would make the push create a DUPLICATE",
\* reassert_deleted_gcal_events).  Strays are events whose answer was lost or
\* whose process died, and those of a job deleted or rescheduled while Google
\* refused to delete them.
KnownEventIsLinked ==
    \A e \in CalendarEvents \ (strays \cup InFlight) :
        google[e].live => task[google[e].of].event = e
=============================================================================
