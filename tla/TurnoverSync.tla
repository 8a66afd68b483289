---------------------------- MODULE TurnoverSync ----------------------------
(***************************************************************************)
(* One rental property: its booking feeds, the bookings stored from them   *)
(* (ical_events), the turnover cleanings made for those bookings, and the  *)
(* office working on the same turnovers (integrations/ical_sync.py,        *)
(* services/turnover_cleanup.py and delete_job of scheduling/router.py).   *)
(*                                                                         *)
(* A sync takes the feeds one after the other, one transaction each, and   *)
(* then sweeps for cancellations; the office acts between any two of those *)
(* transactions.  Google events of the turnovers are left to GoogleMirror. *)
(***************************************************************************)
EXTENDS Integers, FiniteSets, SequencesExt

CONSTANTS
    Bookings,    \* booking UIDs
    Feeds,       \* the property's active feeds
    FeedOf,      \* the feed a booking comes from
    LastDay,     \* dates are 1..LastDay (a bound for TLC)
    Turnovers,   \* ids a turnover job can get (a bound for TLC)
    NoTurnover,  \* job_id IS NULL
    SharedDays,  \* two bookings of the property may check out on one date
    Nothing      \* a feed never parsed by this process

Days == 1..LastDay
Gone == 0        \* the booking is not in its feed

ASSUME TurnoverAssumption ==
    /\ FeedOf \in [Bookings -> Feeds]
    /\ NoTurnover \notin Turnovers
    /\ LastDay \in Nat \ {0} /\ SharedDays \in BOOLEAN
    /\ IsFiniteSet(Bookings) /\ IsFiniteSet(Turnovers)
    /\ Nothing \notin [Bookings -> Days \cup {Gone}]

VARIABLES
    platform,   \* the platforms: each booking's checkout date, or Gone
    booking,    \* ical_events
    turnover,   \* the str_turnover rows of jobs
    memory,     \* _FEED_STATE and last_events_seen: each feed when last read in full
    syncing,    \* the sync in flight
    today       \* business_today()

turnoverVars == <<platform, booking, turnover, memory, syncing, today>>

Booking == [kind: {"unknown", "reservation", "cancelled"}, day: Days \cup {Gone},
            job: Turnovers \cup {NoTurnover}, dismissed: BOOLEAN]
Turnover == [status: {"none", "scheduled", "completed", "cancelled"}, day: Days \cup {Gone}]
Content == [Bookings -> Days \cup {Gone}]

\* `seen` is all_feed_uids: the bookings the feeds taken so far showed.
Sync == [todo: SUBSET Feeds, tick: BOOLEAN, all: BOOLEAN, seen: SUBSET Bookings,
         reliable: BOOLEAN, state: {"idle", "running"}]
NoSync == [todo |-> {}, tick |-> FALSE, all |-> TRUE, seen |-> {},
           reliable |-> TRUE, state |-> "idle"]

TurnoverTypeOK ==
    /\ platform \in Content
    /\ booking \in [Bookings -> Booking]
    /\ turnover \in [Turnovers -> Turnover]
    /\ memory \in [Feeds -> Content \cup {Nothing}]
    /\ syncing \in Sync
    /\ today \in Days

TurnoverInit ==
    /\ platform = [b \in Bookings |-> Gone]
    /\ booking = [b \in Bookings |-> [kind |-> "unknown", day |-> Gone,
                                      job |-> NoTurnover, dismissed |-> FALSE]]
    /\ turnover = [t \in Turnovers |-> [status |-> "none", day |-> Gone]]
    /\ memory = [f \in Feeds |-> Nothing]
    /\ syncing = NoSync
    /\ today = 1

-----------------------------------------------------------------------------
(* Taking the bookings of a feed.  s is the transaction so far: the session's *)
(* bookings and turnovers, the turnovers as flushed (sessions do not          *)
(* autoflush, so queries see those), and whether every flush went through.    *)
(* last and inOrder are facts about ids: the cancelled row updated last, and  *)
(* whether rows written by one flush come in the order that avoids clashes.   *)

Live(row) == row.status \in {"scheduled", "completed"}
LiveOn(rows, d) == {t \in DOMAIN rows : Live(rows[t]) /\ rows[t].day = d}

\* uq_jobs_turnover_property_date_live, checked after every row written.
OnePerDate(old, new, inOrder) ==
    \A t \in Turnovers : Live(new[t]) /\ new[t] # old[t] =>
        /\ LiveOn(new, new[t].day) = {t}
        /\ inOrder \/ LiveOn(old, new[t].day) \subseteq {t}

\* The same for the UNIQUE ical_events.job_id.
OneLinkEach(old, new, inOrder) ==
    \A b \in Bookings : new[b].job # NoTurnover /\ new[b].job # old[b].job =>
        \A c \in Bookings \ {b} : new[c].job # new[b].job /\ (inOrder \/ old[c].job # new[b].job)

Flushed(s, inOrder) ==
    [s EXCEPT !.ok = @ /\ OnePerDate(s.stored, s.turnover, inOrder), !.stored = s.turnover]

\* The checkout moved since the row was stored: the open turnover goes along.
Moved(s, b, d) ==
    LET t == s.booking[b].job
        moves == s.booking[b].kind # "unknown" /\ s.booking[b].day # d
    IN [s EXCEPT !.booking[b].kind = "reservation", !.booking[b].day = d,
                 !.turnover = IF moves /\ t # NoTurnover /\ @[t].status = "scheduled"
                              THEN [@ EXCEPT ![t].day = d] ELSE @]

\* A link to a turnover that is gone or cancelled is dropped.
Unlinked(s, b) ==
    LET t == s.booking[b].job
    IN IF t # NoTurnover /\ s.turnover[t].status \in {"none", "cancelled"}
       THEN [s EXCEPT !.booking[b].job = NoTurnover] ELSE s

\* Mutation: the sync does not look at dismissed_at.
WantsAnyway(s, b, d) == s.booking[b].job = NoTurnover /\ d >= today

\* No live turnover, not in the past, not dismissed by the office.
Wants(s, b, d) == s.booking[b].job = NoTurnover /\ d >= today /\ ~s.booking[b].dismissed

\* The savepoint: insert, or link the row the index says is there.
Inserted(s, b, d, inOrder) ==
    LET f == Flushed(s, inOrder)
        t == CHOOSE u \in Turnovers : f.turnover[u].status = "none"
        winner == LiveOn(f.stored, d)
        row == [status |-> "scheduled", day |-> d]
    IN IF winner # {} THEN [f EXCEPT !.booking[b].job = CHOOSE u \in winner : TRUE]
       ELSE [f EXCEPT !.booking[b].job = t, !.turnover[t] = row, !.stored[t] = row]

\* A live turnover of that date is linked, else a cancelled one is revived
\* (the one updated last), else one is made.
Covered(s, b, d, last, inOrder) ==
    LET live == LiveOn(s.stored, d)
        dead == {t \in Turnovers : s.stored[t] = [status |-> "cancelled", day |-> d]}
        pick == IF live # {} THEN live ELSE dead
        t == IF last \in pick THEN last ELSE CHOOSE u \in pick : TRUE
    IN IF pick = {} THEN Inserted(s, b, d, inOrder)
       ELSE [s EXCEPT !.booking[b].job = t,
                      !.turnover[t].status = IF @ = "cancelled" THEN "scheduled" ELSE @]

\* A row for a new booking is flushed at once, with whatever was pending.
Taken(s, b, d, last, inOrder) ==
    LET known == IF s.booking[b].kind = "unknown" THEN Flushed(s, inOrder) ELSE s
        u == Unlinked(Moved(known, b, d), b)
    IN IF Wants(u, b, d) THEN Covered(u, b, d, last, inOrder) ELSE u

\* All bookings of what was read, in the feed's order, up to the commit.
TakenAll(read, order, last, inOrder) ==
    LET start == [booking |-> booking, turnover |-> turnover, stored |-> turnover, ok |-> TRUE]
        done == Flushed(FoldLeft(LAMBDA s, b : IF read[b] = Gone THEN s
                                               ELSE Taken(s, b, read[b], last, inOrder),
                                 start, order), inOrder)
    IN [done EXCEPT !.ok = @ /\ OneLinkEach(booking, done.booking, inOrder)]

-----------------------------------------------------------------------------
(* The sync *)

\* The platforms move, add and drop bookings as they like.
GuestsChange(b, d) ==
    /\ d # platform[b]
    /\ d # Gone /\ ~SharedDays => \A c \in Bookings \ {b} : platform[c] # d
    /\ platform' = [platform EXCEPT ![b] = d]
    /\ UNCHANGED <<booking, turnover, memory, syncing, today>>

\* The 15 minute tick, "Sync now", or the retry of one feed.
StartSync(fs, tick) ==
    /\ syncing.state = "idle"
    /\ fs = Feeds \/ (~tick /\ Cardinality(fs) = 1)
    /\ syncing' = [NoSync EXCEPT !.todo = fs, !.tick = tick, !.all = fs = Feeds, !.state = "running"]
    /\ UNCHANGED <<platform, booking, turnover, memory, today>>

\* What a fetch can yield: the feed, or the part of it that got through.
Reads(f) ==
    LET own == {b \in Bookings : FeedOf[b] = f}
    IN {[b \in Bookings |-> IF b \in part THEN platform[b] ELSE Gone] : part \in SUBSET own}
Shown(read) == {b \in Bookings : read[b] # Gone}

\* Zero events, or fewer than half of a baseline of three or more.
Partial(f, read) ==
    LET n == Cardinality(Shown(read))
        prior == IF memory[f] = Nothing THEN 0 ELSE Cardinality(Shown(memory[f]))
    IN n = 0 \/ (prior >= 3 /\ 2 * n < prior)

\* The ids do not run out in the middle of a feed (a bound for TLC).
RowsLeft(f) == Cardinality({t \in Turnovers : turnover[t].status = "none"})
                 >= Cardinality({b \in Bookings : FeedOf[b] = f})

FetchFails(f) ==
    /\ f \in syncing.todo
    /\ syncing' = [syncing EXCEPT !.todo = @ \ {f}, !.reliable = FALSE]
    /\ UNCHANGED <<platform, booking, turnover, memory, today>>

\* Mutation: a skipped feed reports no UIDs.
FeedUnchangedIsEmpty(f) ==
    /\ f \in syncing.todo /\ syncing.tick
    /\ memory[f] # Nothing /\ memory[f] \in Reads(f)
    /\ syncing' = [syncing EXCEPT !.todo = @ \ {f}]
    /\ UNCHANGED <<platform, booking, turnover, memory, today>>

\* Only the tick skips a feed whose bytes it has seen; the UIDs still count.
FeedUnchanged(f) ==
    /\ f \in syncing.todo /\ syncing.tick
    /\ memory[f] # Nothing /\ memory[f] \in Reads(f)
    /\ syncing' = [syncing EXCEPT !.todo = @ \ {f}, !.seen = @ \cup Shown(memory[f])]
    /\ UNCHANGED <<platform, booking, turnover, memory, today>>

\* Every way the ids can fall, for every order of the feed's bookings.
TakeResults(f, read) ==
    {TakenAll(read, order, last, inOrder) :
        order \in SetToSeqs({b \in Bookings : FeedOf[b] = f}),
        last \in Turnovers, inOrder \in BOOLEAN}

FeedTaken(f, read, s) ==
    LET partial == Partial(f, read)
    IN /\ s.ok
       /\ booking' = s.booking
       /\ turnover' = s.turnover
       /\ memory' = IF partial THEN memory ELSE [memory EXCEPT ![f] = read]
       /\ syncing' = [syncing EXCEPT !.todo = @ \ {f}, !.seen = @ \cup Shown(read),
                                     !.reliable = @ /\ ~partial]
       /\ UNCHANGED <<platform, today>>

\* An index refuses a write outside the savepoint: sync_property raises, and
\* the run is over without a sweep.
FeedRaises(s) ==
    /\ ~s.ok
    /\ syncing' = NoSync
    /\ UNCHANGED <<platform, booking, turnover, memory, today>>

\* Future reservations that no feed of this run showed.
Missing == {b \in Bookings : booking[b].kind = "reservation" /\ booking[b].day >= today
                             /\ b \notin syncing.seen}
Sweepable == syncing.reliable /\ syncing.all

\* Once per run, when every active feed was read and none looked partial.
Sweep ==
    /\ syncing.state = "running" /\ syncing.todo = {}
    /\ syncing' = NoSync
    /\ IF Sweepable
       THEN /\ booking' = [b \in Bookings |-> IF b \in Missing
                              THEN [booking[b] EXCEPT !.kind = "cancelled", !.job = NoTurnover]
                              ELSE booking[b]]
            /\ turnover' = [t \in Turnovers |->
                  IF turnover[t].status = "scheduled" /\ \E b \in Missing : booking[b].job = t
                  THEN [turnover[t] EXCEPT !.status = "cancelled"] ELSE turnover[t]]
       ELSE UNCHANGED <<booking, turnover>>
    /\ UNCHANGED <<platform, memory, today>>

-----------------------------------------------------------------------------
(* The office and the calendar *)

\* Cancelled, or completed by the crew; the booking keeps its link.
StatusSet(t, status) ==
    /\ turnover[t].status = "scheduled"
    /\ turnover' = [turnover EXCEPT ![t].status = status]
    /\ UNCHANGED <<platform, booking, memory, syncing, today>>

\* A cancelled turnover is set back to scheduled.
Reopen(t) ==
    /\ turnover[t].status = "cancelled" /\ LiveOn(turnover, turnover[t].day) = {}
    /\ turnover' = [turnover EXCEPT ![t].status = "scheduled"]
    /\ UNCHANGED <<platform, booking, memory, syncing, today>>

MoveTurnover(t, d) ==
    /\ turnover[t].status = "scheduled" /\ turnover[t].day # d
    /\ LiveOn(turnover, d) = {}
    /\ turnover' = [turnover EXCEPT ![t].day = d]
    /\ UNCHANGED <<platform, booking, memory, syncing, today>>

\* dismiss_booking_for_job: the linked booking, else those of the same date.
Dismissable(t) ==
    LET linked == {b \in Bookings : booking[b].job = t}
    IN IF linked # {} THEN linked
       ELSE {b \in Bookings : booking[b].kind # "unknown" /\ booking[b].day = turnover[t].day}

DeleteTurnover(t) ==
    /\ turnover[t].status # "none"
    /\ booking' = [b \in Bookings |-> IF b \in Dismissable(t)
                      THEN [booking[b] EXCEPT !.dismissed = TRUE, !.job = NoTurnover] ELSE booking[b]]
    /\ turnover' = [turnover EXCEPT ![t] = [status |-> "none", day |-> Gone]]
    /\ UNCHANGED <<platform, memory, syncing, today>>

\* purge_cancelled_turnovers: the booking is unlinked and not dismissed.
PurgeCancelled(t) ==
    /\ turnover[t].status = "cancelled"
    /\ booking' = [b \in Bookings |-> IF booking[b].job = t
                      THEN [booking[b] EXCEPT !.job = NoTurnover] ELSE booking[b]]
    /\ turnover' = [turnover EXCEPT ![t] = [status |-> "none", day |-> Gone]]
    /\ UNCHANGED <<platform, memory, syncing, today>>

NightFalls ==
    /\ today < LastDay
    /\ today' = today + 1
    /\ UNCHANGED <<platform, booking, turnover, memory, syncing>>

TakeFeed(f) ==
    /\ f \in syncing.todo /\ RowsLeft(f)
    /\ \E read \in Reads(f) : \E s \in TakeResults(f, read) :
          FeedTaken(f, read, s) \/ FeedRaises(s)

SyncStep ==
    \/ \E f \in Feeds : FetchFails(f) \/ FeedUnchanged(f) \/ TakeFeed(f)
    \/ Sweep

OfficeStep ==
    \E t \in Turnovers :
        \/ StatusSet(t, "cancelled") \/ StatusSet(t, "completed")
        \/ Reopen(t) \/ DeleteTurnover(t) \/ PurgeCancelled(t)
        \/ \E d \in Days : MoveTurnover(t, d)

TurnoverNext ==
    \/ SyncStep
    \/ OfficeStep
    \/ \E b \in Bookings, d \in Days \cup {Gone} : GuestsChange(b, d)
    \/ \E fs \in SUBSET Feeds, tick \in BOOLEAN : StartSync(fs, tick)
    \/ NightFalls

TurnoverSpec == TurnoverInit /\ [][TurnoverNext]_turnoverVars

-----------------------------------------------------------------------------
(* Properties *)

CancelledNow == {t \in Turnovers : turnover[t].status = "scheduled" /\ turnover'[t].status = "cancelled"}

\* The sweep of sync_property cancels a turnover only when its booking was in
\* none of the feeds this run read, and every feed was read: one feed failing,
\* read in part, skipped as unchanged, or retried alone cancels nothing.
SweptOnlyWhenGone ==
    [][syncing.state = "running" /\ syncing' = NoSync =>
         \A t \in CancelledNow :
            /\ \A b \in Bookings : booking[b].job = t => b \notin syncing.seen
            /\ syncing.all /\ syncing.reliable
            /\ \A f \in Feeds : memory[f] # Nothing
                  /\ \A b \in Shown(memory[f]) : booking[b].job # t]_turnoverVars

\* A turnover leaves its date without its booking having moved, or a dismissed
\* booking gets a turnover back.
OfficeOverruled ==
    \E b \in Bookings :
        LET t == booking[b].job
        IN IF t = NoTurnover THEN booking[b].dismissed /\ booking'[b].job # NoTurnover
           ELSE /\ turnover[t].status = "scheduled" /\ turnover'[t].day # turnover[t].day
                /\ booking'[b].day = booking[b].day

\* What the office decided stands against the feed (Rule 0): the sync moves a
\* turnover only to follow a checkout that moved, so one the office moved stays
\* where it is, and what the office deleted is not made again.
OfficeDecisionStands == [][OfficeOverruled => ~SyncStep]_turnoverVars
=============================================================================
