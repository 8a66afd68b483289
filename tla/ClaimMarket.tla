----------------------------- MODULE ClaimMarket -----------------------------
(***************************************************************************)
(* One job on the subcontractor marketplace: the job row, the claim        *)
(* requests filed on it, and every handler that writes either.             *)
(*                                                                         *)
(* A handler loads rows into its session, may wait for a row lock, and     *)
(* commits.  SELECT ... FOR UPDATE on a row the session has already loaded *)
(* takes the lock and returns the object with the attributes it had, so a  *)
(* handler that read the job first decides on that snapshot; a row first   *)
(* read by the locking query is current.  A flush writes only the columns  *)
(* the handler changed.  update_job commits up to three times.             *)
(***************************************************************************)
EXTENDS Naturals, FiniteSets

CONSTANTS
    Cleaners,   \* the bench
    Staff,      \* office requests that can be in flight at once
    Ticker,     \* the background ticks
    NoOne,      \* NULL
    Instant,    \* claim_auto_approve_mode is "auto"
    Recurring,  \* the job is a visit of a recurring schedule
    HalfEdits,  \* update_job may die between two of its commits
    MaxBusy     \* how many handlers may be in flight at once (a bound for TLC)

ASSUME ActorAssumption ==
    /\ NoOne \notin Cleaners \cup Staff \cup {Ticker}
    /\ Ticker \notin Cleaners \cup Staff
    /\ Cleaners \cap Staff = {}
    /\ IsFiniteSet(Cleaners) /\ IsFiniteSet(Staff)
ASSUME SwitchAssumption ==
    /\ Instant \in BOOLEAN /\ Recurring \in BOOLEAN /\ HalfEdits \in BOOLEAN
    /\ MaxBusy \in Nat

VARIABLES
    job,      \* the jobs row: status, offer flag, assigned crew, who agreed the rate
    past,     \* its scheduled_date is before today
    request,  \* job_claim_requests: one row for each cleaner who asked
    lock,     \* the row locks held: on the job by a handler, and on one request
    handler   \* what each actor's request is doing

vars == <<job, past, request, lock, handler>>

Actors == Cleaners \cup Staff \cup {Ticker}
Job == [status: {"scheduled", "cancelled", "completed"}, open: BOOLEAN,
        crew: SUBSET Cleaners, agreed: Cleaners \cup {NoOne}]
RequestStatus == {"none", "pending", "approved", "declined", "withdrawn"}
Unlocked == [by |-> NoOne, request |-> NoOne]

Phase == {"idle", "asking", "filed", "deciding", "approving", "withdrawing",
          "loaded", "edited", "released", "sweeping", "posting"}
Handler == {h \in [pc: Phase, job: Job, seen: RequestStatus, who: Cleaners \cup {NoOne},
                   others: SUBSET Cleaners, wasOpen: BOOLEAN] :
              h.pc = "approving" => h.who \in Cleaners}

NoJob == [status |-> "scheduled", open |-> FALSE, crew |-> {}, agreed |-> NoOne]
Idle == [pc |-> "idle", job |-> NoJob, seen |-> "none", who |-> NoOne,
         others |-> {}, wasOpen |-> FALSE]

TypeOK ==
    /\ job \in Job
    /\ past \in BOOLEAN
    /\ request \in [Cleaners -> RequestStatus]
    /\ lock \in [by: Actors \cup {NoOne}, request: Cleaners \cup {NoOne}]
    /\ handler \in [Actors -> Handler]

Init ==
    /\ job = NoJob
    /\ past = FALSE
    /\ request = [c \in Cleaners |-> "none"]
    /\ lock = Unlocked
    /\ handler = [a \in Actors |-> Idle]

-----------------------------------------------------------------------------
Pending == {c \in Cleaners : request[c] = "pending"}
Live(j) == j.open /\ j.status = "scheduled"

JobFree == lock.by = NoOne
RequestFree(c) == lock.request # c

\* The unit of work writes a column only when the handler changed it.
Flush(current, loaded, new) ==
    [status |-> IF new.status = loaded.status THEN current.status ELSE new.status,
     open   |-> IF new.open = loaded.open THEN current.open ELSE new.open,
     crew   |-> IF new.crew = loaded.crew THEN current.crew ELSE new.crew,
     agreed |-> IF new.agreed = loaded.agreed THEN current.agreed ELSE new.agreed]

\* A new request enters: its actor is idle and the bound leaves room.
Room(a) == handler[a] = Idle /\ Cardinality({b \in Actors : handler[b] # Idle}) < MaxBusy

Begin(a, h) ==
    /\ Room(a)
    /\ handler' = [handler EXCEPT ![a] = h]

Finish(a) == handler' = [handler EXCEPT ![a] = Idle]

\* Everybody still waiting is answered with `status`.
Answer(W, status) == [c \in Cleaners |-> IF c \in W THEN status ELSE request[c]]

-----------------------------------------------------------------------------
(* The cleaner asks, and withdraws *)

\* Not on the job, the job open and scheduled; the row this cleaner may already
\* have is read.  Nothing is locked.
AskRead(c) ==
    /\ c \notin job.crew /\ Live(job)
    /\ Begin(c, [Idle EXCEPT !.pc = "asking", !.seen = request[c]])
    /\ UNCHANGED <<job, past, request, lock>>

\* The row is inserted, or reopened, or (still pending as read) its price changed.
AskCommit(c) ==
    /\ handler[c].pc = "asking"
    /\ handler[c].seen # "none" => RequestFree(c)
    /\ request' = [request EXCEPT ![c] = IF handler[c].seen = "pending" THEN @ ELSE "pending"]
    /\ handler' = [handler EXCEPT ![c] = IF Instant THEN [Idle EXCEPT !.pc = "filed"] ELSE Idle]
    /\ UNCHANGED <<job, past, lock>>

\* Instant claims: the request is refreshed and the expired job reloaded, before any lock.
InstantRead(c) ==
    /\ handler[c].pc = "filed"
    /\ handler' = [handler EXCEPT ![c] = [Idle EXCEPT !.pc = "deciding", !.job = job,
                                                      !.seen = request[c]]]
    /\ UNCHANGED <<job, past, request, lock>>

WithdrawRead(c) ==
    /\ request[c] = "pending"
    /\ Begin(c, [Idle EXCEPT !.pc = "withdrawing"])
    /\ UNCHANGED <<job, past, request, lock>>

WithdrawCommit(c) ==
    /\ handler[c].pc = "withdrawing" /\ RequestFree(c)
    /\ request' = [request EXCEPT ![c] = "withdrawn"]
    /\ Finish(c)
    /\ UNCHANGED <<job, past, lock>>

-----------------------------------------------------------------------------
(* approve(): the locks, the checks on what the session holds, one commit *)

\* What approve() demands of the job and the request as its session holds them.
Approvable(j, status, c) ==
    status = "pending" /\ j.open /\ j.status = "scheduled" /\ j.crew \subseteq {c}

\* Both rows locked, the checks passed, the rivals read.  (No rate agreed or a
\* double booking refuses as well: the handler may always be abandoned.)
TakeLocks(a, c, j, status) ==
    /\ JobFree
    /\ Approvable(j, status, c)
    /\ lock' = [by |-> a, request |-> c]
    /\ handler' = [handler EXCEPT ![a] =
                     [Idle EXCEPT !.pc = "approving", !.job = j, !.who = c,
                                  !.others = Pending \ {c}]]
    /\ UNCHANGED <<job, past, request>>

\* consider(): both rows were already in the session.
InstantLock(c) ==
    /\ handler[c].pc = "deciding"
    /\ TakeLocks(c, c, handler[c].job, handler[c].seen)

\* The office: the job was already in the session, the request was not.
OfficeLock(s, c) ==
    /\ handler[s].pc = "loaded"
    /\ TakeLocks(s, c, handler[s].job, request[c])

\* The winner is put on the job at the agreed rate, the offer closed, the rivals declined.
ApproveCommit(a) ==
    LET loaded == handler[a].job
        c == handler[a].who
    IN  /\ handler[a].pc = "approving"
        /\ job' = Flush(job, loaded, [loaded EXCEPT !.crew = @ \cup {c}, !.agreed = c,
                                                    !.open = FALSE])
        /\ request' = [Answer(handler[a].others, "declined") EXCEPT ![c] = "approved"]
        /\ lock' = Unlocked
        /\ Finish(a)
        /\ UNCHANGED past

\* Mutation: the row is not locked when its status is read.
DeclineUnlocked(s, c) ==
    /\ Room(s)
    /\ request[c] = "pending"
    /\ request' = [request EXCEPT ![c] = "declined"]
    /\ UNCHANGED <<job, past, lock, handler>>

\* The office turns one request down; the row is locked before its status is read.
Decline(s, c) ==
    /\ Room(s)
    /\ request[c] = "pending" /\ RequestFree(c)
    /\ request' = [request EXCEPT ![c] = "declined"]
    /\ UNCHANGED <<job, past, lock, handler>>

-----------------------------------------------------------------------------
(* The office edits the job *)

\* Every office handler on the job begins by loading it, unlocked.
OfficeLoad(s) ==
    /\ Begin(s, [Idle EXCEPT !.pc = "loaded", !.job = job])
    /\ UNCHANGED <<job, past, request, lock>>

\* Mutation: a job somebody is on may be posted.
EditCommitPostsAny(s) ==
    LET loaded == handler[s].job IN
    /\ handler[s].pc = "loaded" /\ JobFree
    /\ \E new \in {j \in Job : j.agreed = loaded.agreed} :
         /\ job' = Flush(job, loaded, new)
         /\ handler' = [handler EXCEPT ![s] = [Idle EXCEPT !.pc = "edited", !.job = job',
                                                         !.wasOpen = loaded.open]]
    /\ UNCHANGED <<past, request, lock>>

\* update_job, first commit: status, offer flag, crew and date as the office
\* typed them.  Posting a job somebody is on is refused.  The row is reloaded;
\* what is left depends on whether the edit named a crew.
EditCommit(s) ==
    LET loaded == handler[s].job IN
    /\ handler[s].pc = "loaded" /\ JobFree
    /\ \E new \in {j \in Job : j.agreed = loaded.agreed}, crewSent \in BOOLEAN, day \in BOOLEAN :
         /\ new.open /\ ~loaded.open => new.crew = {}
         /\ new.crew # loaded.crew => crewSent
         /\ job' = Flush(job, loaded, new)
         /\ past' = day
         /\ handler' = [handler EXCEPT ![s] =
                          [Idle EXCEPT !.pc = IF crewSent THEN "edited" ELSE "released",
                                       !.job = job', !.wasOpen = loaded.open]]
    /\ UNCHANGED <<request, lock>>

\* Mutation: the rate goes but the request stays approved.
EditReleaseKeepsRequest(s) ==
    LET loaded == handler[s].job
        displaced == {loaded.agreed} \ (loaded.crew \cup {NoOne})
    IN  /\ handler[s].pc = "edited" /\ JobFree
        /\ job' = IF displaced = {} THEN job ELSE [job EXCEPT !.agreed = NoOne]
        /\ handler' = [handler EXCEPT ![s].pc = "released",
                                      ![s].job = IF displaced = {} THEN @ ELSE job']
        /\ UNCHANGED <<past, request, lock>>

\* Mutation: a job left without a crew is taken for one nobody agreed to.
EditReleaseSkipsEmpty(s) ==
    LET loaded == handler[s].job
        displaced == IF loaded.crew = {} THEN {} ELSE {loaded.agreed} \ (loaded.crew \cup {NoOne})
    IN  /\ handler[s].pc = "edited" /\ JobFree
        /\ job' = IF displaced = {} THEN job ELSE [job EXCEPT !.agreed = NoOne]
        /\ request' = Answer({c \in displaced : request[c] = "approved"}, "declined")
        /\ handler' = [handler EXCEPT ![s].pc = "released",
                                      ![s].job = IF displaced = {} THEN @ ELSE job']
        /\ UNCHANGED <<past, lock>>

\* release_if_displaced: the sub who agreed the rate is off the job, so the
\* rate goes and the approved request is declined.
EditRelease(s) ==
    LET loaded == handler[s].job
        displaced == {loaded.agreed} \ (loaded.crew \cup {NoOne})
    IN  /\ handler[s].pc = "edited" /\ JobFree
        /\ job' = IF displaced = {} THEN job ELSE [job EXCEPT !.agreed = NoOne]
        /\ request' = Answer({c \in displaced : request[c] = "approved"}, "declined")
        /\ handler' = [handler EXCEPT ![s].pc = "released",
                                      ![s].job = IF displaced = {} THEN @ ELSE job']
        /\ UNCHANGED <<past, lock>>

\* Mutation: only a cancellation closes the offer.
EditCloseOnCancel(s) ==
    LET loaded == handler[s].job IN
    /\ handler[s].pc = "released" /\ JobFree
    /\ IF handler[s].wasOpen /\ loaded.status = "cancelled"
       THEN /\ job' = Flush(job, loaded, [loaded EXCEPT !.open = FALSE])
            /\ request' = Answer(Pending, "withdrawn")
       ELSE UNCHANGED <<job, request>>
    /\ Finish(s)
    /\ UNCHANGED <<past, lock>>

\* A job that was posted and no longer is live work: close_offer withdraws
\* everybody still waiting.
EditClose(s) ==
    LET loaded == handler[s].job IN
    /\ handler[s].pc = "released" /\ JobFree
    /\ IF handler[s].wasOpen /\ ~Live(loaded)
       THEN /\ job' = Flush(job, loaded, [loaded EXCEPT !.open = FALSE])
            /\ request' = Answer(Pending, "withdrawn")
       ELSE UNCHANGED <<job, request>>
    /\ Finish(s)
    /\ UNCHANGED <<past, lock>>

\* Mutation: the requests are closed with a status the column does not know.
SkipCommitCloses(s) ==
    LET loaded == handler[s].job IN
    /\ handler[s].pc = "loaded" /\ JobFree
    /\ job' = Flush(job, loaded, [loaded EXCEPT !.status = "cancelled", !.open = FALSE])
    /\ request' = Answer(Pending, "closed")
    /\ Finish(s)
    /\ UNCHANGED <<past, lock>>

\* Skipping the visit cancels it and closes the offer in one commit.
SkipCommit(s) ==
    LET loaded == handler[s].job IN
    /\ handler[s].pc = "loaded" /\ JobFree
    /\ job' = Flush(job, loaded, [loaded EXCEPT !.status = "cancelled", !.open = FALSE])
    /\ request' = Answer(Pending, "withdrawn")
    /\ Finish(s)
    /\ UNCHANGED <<past, lock>>

\* Completing it, by the office or the crew, leaves the offer to the sweep.
CompleteCommit(s) ==
    LET loaded == handler[s].job IN
    /\ handler[s].pc = "loaded" /\ JobFree
    /\ job' = Flush(job, loaded, [loaded EXCEPT !.status = "completed"])
    /\ Finish(s)
    /\ UNCHANGED <<past, request, lock>>

\* A visit of a series is retimed and given another crew, and revived if it was cancelled.
RescheduleCommit(s) ==
    LET loaded == handler[s].job IN
    /\ Recurring
    /\ handler[s].pc = "loaded" /\ JobFree
    /\ \E crew \in SUBSET Cleaners :
         job' = Flush(job, loaded,
                  [loaded EXCEPT !.crew = crew,
                                 !.status = IF @ = "cancelled" THEN "scheduled" ELSE @])
    /\ Finish(s)
    /\ UNCHANGED <<past, request, lock>>

-----------------------------------------------------------------------------
(* The ticks *)

Dead == job.open /\ (past \/ job.status # "scheduled")

\* Mutation: the sweep looks at the date alone.
SweepReadByDate ==
    /\ job.open /\ past
    /\ Begin(Ticker, [Idle EXCEPT !.pc = "sweeping"])
    /\ UNCHANGED <<job, past, request, lock>>

\* The sweep finds an offer that outlived its job ...
SweepRead ==
    /\ Dead
    /\ Begin(Ticker, [Idle EXCEPT !.pc = "sweeping"])
    /\ UNCHANGED <<job, past, request, lock>>

\* ... and closes it.
SweepCommit ==
    /\ handler[Ticker].pc = "sweeping" /\ JobFree
    /\ job' = [job EXCEPT !.open = FALSE]
    /\ request' = Answer(Pending, "withdrawn")
    /\ Finish(Ticker)
    /\ UNCHANGED <<past, lock>>

\* The turnover window finds the job untaken and posts it.
PostRead ==
    /\ ~job.open /\ job.status # "cancelled" /\ job.crew = {} /\ job.agreed = NoOne
    /\ Begin(Ticker, [Idle EXCEPT !.pc = "posting"])
    /\ UNCHANGED <<job, past, request, lock>>

PostCommit ==
    /\ handler[Ticker].pc = "posting" /\ JobFree
    /\ job' = [job EXCEPT !.open = TRUE]
    /\ Finish(Ticker)
    /\ UNCHANGED <<past, request, lock>>

DayPasses ==
    /\ ~past /\ past' = TRUE
    /\ UNCHANGED <<job, request, lock, handler>>

\* A handler ends early: refused by a check, by the database, or dead with its
\* process.  Its transaction is rolled back and its locks are gone; what an
\* earlier commit of it wrote stays.
Abandon(a) ==
    /\ handler[a] # Idle
    /\ handler[a].pc \in {"edited", "released"} => HalfEdits
    /\ lock' = IF lock.by = a THEN Unlocked ELSE lock
    /\ Finish(a)
    /\ UNCHANGED <<job, past, request>>

-----------------------------------------------------------------------------
Bench(c) ==
    \/ AskRead(c) \/ AskCommit(c) \/ InstantRead(c) \/ InstantLock(c)
    \/ WithdrawRead(c) \/ WithdrawCommit(c)

Office(s) ==
    \/ OfficeLoad(s) \/ EditCommit(s) \/ EditRelease(s) \/ EditClose(s)
    \/ SkipCommit(s) \/ CompleteCommit(s) \/ RescheduleCommit(s)
    \/ \E c \in Cleaners : OfficeLock(s, c) \/ Decline(s, c)

Next ==
    \/ \E c \in Cleaners : Bench(c)
    \/ \E s \in Staff : Office(s)
    \/ \E a \in Actors : ApproveCommit(a) \/ Abandon(a)
    \/ SweepRead \/ SweepCommit \/ PostRead \/ PostCommit \/ DayPasses

Spec == Init /\ [][Next]_vars

\* A handler that has begun ends; the scheduler runs the sweep again and again,
\* and one of its passes gets through, however often other requests are served
\* first (MaxBusy can keep the sweep out, nothing in the code does) or fail it.
FairSpec ==
    /\ Spec
    /\ \A s \in Staff : WF_vars(EditRelease(s) \/ EditClose(s))
    /\ \A a \in Actors : WF_vars(Abandon(a))
    /\ SF_vars(SweepRead) /\ SF_vars(SweepCommit)

-----------------------------------------------------------------------------
(* What the marketplace promises *)

\* update_job has written the edit and not yet everything that follows from it.
MidEdit == \E s \in Staff : handler[s].pc \in {"edited", "released"}

\* A job can only go to one winner (approve_claim_request).
OneWinner ==
    ~MidEdit => \A c, d \in Cleaners :
        request[c] = "approved" /\ request[d] = "approved" => c = d

\* Whoever was told they got the job is on it, at the rate they agreed, through
\* every reassignment, cancellation and reopening (release_if_displaced).
WinnerIsOnTheJob ==
    ~MidEdit => \A c \in Cleaners :
        request[c] = "approved" => c \in job.crew /\ job.agreed = c

\* A job somebody agreed to work is not an offer (the posting guard of update_job).
AwardedIsOffTheBoard == ~MidEdit => job.agreed = NoOne \/ ~job.open

\* The flat rate belongs to somebody who is still on the job
\* (release_if_displaced "runs at the cleaner_ids write sites").
AgreementFollowsCrew ==
    ~MidEdit => job.agreed \in job.crew \cup {NoOne}

\* The offer and its pending requests live and die together (close_offer).
OfferAndRequestsTogether ==
    ~MidEdit => (Pending # {} => job.open)

\* Only a request that is still pending is ever approved, whatever was
\* declined or withdrawn while the approval was on its way.
AwardNeedsPending ==
    [][\A c \in Cleaners : request'[c] = "approved" /\ request[c] # "approved"
          => request[c] = "pending"]_vars

\* An approved request is a commitment the office manages: it is never stamped
\* withdrawn (withdraw_claim, close_offer).
CommitmentStands ==
    [][\A c \in Cleaners : request[c] = "approved" => request'[c] # "withdrawn"]_vars

\* Nobody waits forever on work that is gone: a request pending on a job that was
\* completed, cancelled or whose day has passed is answered, unless the office
\* brings the job back.
StrandedIsAnswered ==
    \A c \in Cleaners :
        request[c] = "pending" /\ Dead ~> request[c] # "pending" \/ (Live(job) /\ ~past)
=============================================================================
