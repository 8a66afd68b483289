-------------------------- MODULE ClaimMarketProofs --------------------------
(***************************************************************************)
(* What holds of the marketplace for every bench, every number of office   *)
(* users and every overlap of their requests.                              *)
(***************************************************************************)
EXTENDS ClaimMarket, FiniteSetTheorems, TLAPS

-----------------------------------------------------------------------------
(* Typing *)

\* The columns a flush leaves in the job are columns.
LEMMA FlushType ==
    ASSUME NEW current \in Job, NEW loaded \in Job, NEW new \in Job
    PROVE  Flush(current, loaded, new) \in Job
BY DEF Flush, Job

\* The resting handler is well typed.
LEMMA IdleType == Idle \in Handler /\ Idle.pc = "idle" /\ NoJob \in Job
BY DEF Idle, Handler, Phase, NoJob, Job, RequestStatus

\* Answering is well typed.
LEMMA AnswerType ==
    ASSUME TypeOK, NEW W, NEW status \in RequestStatus
    PROVE  /\ Answer(W, status) \in [Cleaners -> RequestStatus]
           /\ \A c \in Cleaners :
                Answer(W, status)[c] = IF c \in W THEN status ELSE request[c]
BY DEF TypeOK, Answer

\* Everything a well typed state says about one handler.
LEMMA HandlerType ==
    ASSUME TypeOK, NEW a \in Actors
    PROVE  /\ handler[a] \in Handler /\ handler[a].job \in Job
           /\ handler[a].who \in Cleaners \cup {NoOne}
           /\ handler[a].others \in SUBSET Cleaners
           /\ handler[a].pc = "approving" => handler[a].who \in Cleaners
BY DEF TypeOK, Handler, Phase

\* The bench keeps every variable's type.
LEMMA BenchType ==
    ASSUME TypeOK, NEW c \in Cleaners, Bench(c)
    PROVE  TypeOK'
<1>0. c \in Actors /\ request[c] \in RequestStatus /\ job \in Job
  BY DEF TypeOK, Actors
<1>1. CASE AskRead(c)
  <2>1. [Idle EXCEPT !.pc = "asking", !.seen = request[c]] \in Handler
    BY <1>0 DEF Idle, Handler, Phase, NoJob, Job
  <2> QED BY <1>1, <2>1 DEF AskRead, Begin, TypeOK
<1>2. CASE AskCommit(c)
  <2>1. [Idle EXCEPT !.pc = "filed"] \in Handler
    BY DEF Idle, Handler, Phase, NoJob, Job, RequestStatus
  <2> QED BY <1>0, <1>2, <2>1, IdleType DEF AskCommit, TypeOK, RequestStatus
<1>3. CASE InstantRead(c)
  <2>1. [Idle EXCEPT !.pc = "deciding", !.job = job, !.seen = request[c]] \in Handler
    BY <1>0 DEF Idle, Handler, Phase
  <2> QED BY <1>3, <2>1 DEF InstantRead, TypeOK
<1>4. CASE InstantLock(c)
  <2>1. [Idle EXCEPT !.pc = "approving", !.job = handler[c].job, !.who = c,
                     !.others = Pending \ {c}] \in Handler
    BY <1>0, HandlerType DEF Idle, Handler, Phase, Pending, RequestStatus
  <2> QED BY <1>0, <1>4, <2>1 DEF InstantLock, TakeLocks, TypeOK
<1>5. CASE WithdrawRead(c)
  <2>1. [Idle EXCEPT !.pc = "withdrawing"] \in Handler
    BY DEF Idle, Handler, Phase, NoJob, Job, RequestStatus
  <2> QED BY <1>5, <2>1 DEF WithdrawRead, Begin, TypeOK
<1>6. CASE WithdrawCommit(c)
  BY <1>6, IdleType DEF WithdrawCommit, Finish, TypeOK, RequestStatus
<1> QED BY <1>1, <1>2, <1>3, <1>4, <1>5, <1>6 DEF Bench

\* So does the office.
LEMMA OfficeType ==
    ASSUME TypeOK, NEW s \in Staff, Office(s)
    PROVE  TypeOK'
<1>0. s \in Actors /\ job \in Job /\ handler[s].job \in Job
  BY HandlerType DEF TypeOK, Actors
<1>1. CASE OfficeLoad(s)
  <2>1. [Idle EXCEPT !.pc = "loaded", !.job = job] \in Handler
    BY <1>0 DEF Idle, Handler, Phase, RequestStatus
  <2> QED BY <1>1, <2>1 DEF OfficeLoad, Begin, TypeOK
<1>2. CASE EditCommit(s)
  <2>1. PICK new \in Job, crewSent \in BOOLEAN, day \in BOOLEAN :
          /\ job' = Flush(job, handler[s].job, new)
          /\ past' = day
          /\ handler' = [handler EXCEPT ![s] =
                [Idle EXCEPT !.pc = IF crewSent THEN "edited" ELSE "released",
                             !.job = job', !.wasOpen = handler[s].job.open]]
    BY <1>2 DEF EditCommit
  <2>2. job' \in Job
    BY <1>0, <2>1, FlushType
  <2>3. [Idle EXCEPT !.pc = IF crewSent THEN "edited" ELSE "released",
                     !.job = job', !.wasOpen = handler[s].job.open] \in Handler
    BY <1>0, <2>2 DEF Idle, Handler, Phase, RequestStatus, Job
  <2> QED BY <1>2, <2>1, <2>2, <2>3 DEF EditCommit, TypeOK
<1>3. CASE EditRelease(s)
  <2>1. job' \in Job
    BY <1>0, <1>3 DEF EditRelease, Job
  <2>2. request' \in [Cleaners -> RequestStatus]
    BY <1>3, AnswerType DEF EditRelease, RequestStatus
  <2>3. PICK j \in Job :
          handler' = [handler EXCEPT ![s] = [handler[s] EXCEPT !.pc = "released", !.job = j]]
    BY <1>0, <1>3, <2>1 DEF EditRelease, TypeOK
  <2>4. [handler[s] EXCEPT !.pc = "released", !.job = j] \in Handler
    BY <1>0, HandlerType DEF Handler, Phase
  <2> QED BY <1>3, <2>1, <2>2, <2>3, <2>4 DEF EditRelease, TypeOK
<1>4. CASE EditClose(s)
  <2>1. [handler[s].job EXCEPT !.open = FALSE] \in Job
    BY <1>0 DEF Job
  <2>2. job' \in Job
    BY <1>0, <1>4, <2>1, FlushType DEF EditClose
  <2>3. request' \in [Cleaners -> RequestStatus]
    BY <1>4, AnswerType DEF EditClose, RequestStatus, TypeOK
  <2> QED BY <1>4, <2>2, <2>3, IdleType DEF EditClose, Finish, TypeOK
<1>5. CASE SkipCommit(s)
  <2>1. [handler[s].job EXCEPT !.status = "cancelled", !.open = FALSE] \in Job
    BY <1>0 DEF Job
  <2>2. job' \in Job
    BY <1>0, <1>5, <2>1, FlushType DEF SkipCommit
  <2>3. request' \in [Cleaners -> RequestStatus]
    BY <1>5, AnswerType DEF SkipCommit, RequestStatus
  <2> QED BY <1>5, <2>2, <2>3, IdleType DEF SkipCommit, Finish, TypeOK
<1>6. CASE CompleteCommit(s)
  <2>1. [handler[s].job EXCEPT !.status = "completed"] \in Job
    BY <1>0 DEF Job
  <2>2. job' \in Job
    BY <1>0, <1>6, <2>1, FlushType DEF CompleteCommit
  <2> QED BY <1>6, <2>2, IdleType DEF CompleteCommit, Finish, TypeOK
<1>7. CASE RescheduleCommit(s)
  <2>1. PICK crew \in SUBSET Cleaners :
          job' = Flush(job, handler[s].job,
                   [handler[s].job EXCEPT !.crew = crew,
                      !.status = IF @ = "cancelled" THEN "scheduled" ELSE @])
    BY <1>7 DEF RescheduleCommit
  <2>2. [handler[s].job EXCEPT !.crew = crew,
           !.status = IF @ = "cancelled" THEN "scheduled" ELSE @] \in Job
    BY <1>0 DEF Job
  <2>3. job' \in Job
    BY <1>0, <2>1, <2>2, FlushType
  <2> QED BY <1>7, <2>3, IdleType DEF RescheduleCommit, Finish, TypeOK
<1>8. ASSUME NEW c \in Cleaners, OfficeLock(s, c)
      PROVE  TypeOK'
  <2>1. [Idle EXCEPT !.pc = "approving", !.job = handler[s].job, !.who = c,
                     !.others = Pending \ {c}] \in Handler
    BY <1>0 DEF Idle, Handler, Phase, Pending, RequestStatus
  <2> QED BY <1>0, <1>8, <2>1 DEF OfficeLock, TakeLocks, TypeOK
<1>9. ASSUME NEW c \in Cleaners, Decline(s, c)
      PROVE  TypeOK'
  BY <1>9 DEF Decline, TypeOK, RequestStatus
<1> QED BY <1>1, <1>2, <1>3, <1>4, <1>5, <1>6, <1>7, <1>8, <1>9 DEF Office

\* And so does every step.
LEMMA TypeStep ==
    ASSUME TypeOK, [Next]_vars
    PROVE  TypeOK'
<1>1. ASSUME NEW c \in Cleaners, Bench(c)
      PROVE  TypeOK'
  BY <1>1, BenchType
<1>2. ASSUME NEW s \in Staff, Office(s)
      PROVE  TypeOK'
  BY <1>2, OfficeType
<1>3. ASSUME NEW a \in Actors, ApproveCommit(a)
      PROVE  TypeOK'
  <2>1. [handler[a].job EXCEPT !.crew = @ \cup {handler[a].who}, !.agreed = handler[a].who,
                               !.open = FALSE] \in Job
    BY <1>3, HandlerType DEF ApproveCommit, Job
  <2>2. job' \in Job
    BY <1>3, <2>1, HandlerType, FlushType DEF ApproveCommit, TypeOK
  <2>3. request' = [Answer(handler[a].others, "declined")
                      EXCEPT ![handler[a].who] = "approved"]
    BY <1>3 DEF ApproveCommit
  <2>4. Answer(handler[a].others, "declined") \in [Cleaners -> RequestStatus]
    BY AnswerType DEF RequestStatus
  <2>5. request' \in [Cleaners -> RequestStatus]
    BY <2>3, <2>4 DEF RequestStatus
  <2> QED BY <1>3, <2>2, <2>5, IdleType DEF ApproveCommit, Finish, TypeOK, Unlocked
<1>4. ASSUME NEW a \in Actors, Abandon(a)
      PROVE  TypeOK'
  BY <1>4, IdleType DEF Abandon, Finish, TypeOK, Unlocked
<1>5. Ticker \in Actors
  BY DEF Actors
<1>6. CASE SweepRead
  <2>1. [Idle EXCEPT !.pc = "sweeping"] \in Handler
    BY DEF Idle, Handler, Phase, NoJob, Job, RequestStatus
  <2> QED BY <1>5, <1>6, <2>1 DEF SweepRead, Begin, TypeOK
<1>7. CASE SweepCommit
  <2>1. request' \in [Cleaners -> RequestStatus]
    BY <1>7, AnswerType DEF SweepCommit, RequestStatus
  <2> QED BY <1>5, <1>7, <2>1, IdleType DEF SweepCommit, Finish, TypeOK, Job
<1>8. CASE PostRead
  <2>1. [Idle EXCEPT !.pc = "posting"] \in Handler
    BY DEF Idle, Handler, Phase, NoJob, Job, RequestStatus
  <2> QED BY <1>5, <1>8, <2>1 DEF PostRead, Begin, TypeOK
<1>9. CASE PostCommit
  BY <1>5, <1>9, IdleType DEF PostCommit, Finish, TypeOK, Job
<1>10. CASE DayPasses
  BY <1>10 DEF DayPasses, TypeOK
<1>11. CASE UNCHANGED vars
  BY <1>11 DEF vars, TypeOK
<1> QED BY <1>1, <1>2, <1>3, <1>4, <1>6, <1>7, <1>8, <1>9, <1>10, <1>11 DEF Next

\* The first state is well typed.
LEMMA InitType == Init => TypeOK
<1> SUFFICES ASSUME Init PROVE TypeOK
  OBVIOUS
<1>1. job \in Job /\ past \in BOOLEAN
  BY IdleType DEF Init
<1>2. request \in [Cleaners -> RequestStatus]
  BY DEF Init, RequestStatus
<1>3. lock \in [by: Actors \cup {NoOne}, request: Cleaners \cup {NoOne}]
  BY DEF Init, Unlocked
<1>4. handler \in [Actors -> Handler]
  BY IdleType DEF Init
<1> QED BY <1>1, <1>2, <1>3, <1>4 DEF TypeOK

\* Every variable has its type in every reachable state.
THEOREM TypeCorrect == Spec => []TypeOK
<1>1. Init => TypeOK
  BY InitType
<1>2. TypeOK /\ [Next]_vars => TypeOK'
  BY TypeStep
<1> QED BY <1>1, <1>2, PTL DEF Spec

-----------------------------------------------------------------------------
(* Only a pending request is approved *)

\* consider() decides on the request as its session has held it since before the
\* lock: it may have been answered meanwhile.
OverlooksAnAnswer == \E c \in Cleaners : InstantLock(c) /\ request[c] # "pending"

\* A handler that is approving holds the job and the request, and the request
\* it read under that lock is still pending: everybody who answers requests
\* waits for the lock, and asking again leaves a pending row pending.
HolderDecides ==
    \A a \in Actors : handler[a].pc = "approving" =>
        /\ lock = [by |-> a, request |-> handler[a].who]
        /\ request[handler[a].who] = "pending"

AwardInv == TypeOK /\ HolderDecides

\* While the job is free nobody is approving, and while a request is free
\* nobody is approving it.
LEMMA FreeMeansUndecided ==
    ASSUME AwardInv
    PROVE  /\ JobFree => \A a \in Actors : handler[a].pc # "approving"
           /\ \A c \in Cleaners : RequestFree(c) =>
                \A a \in Actors : handler[a].pc = "approving" => handler[a].who # c
<1>1. NoOne \notin Actors
  BY ActorAssumption DEF Actors
<1> QED BY <1>1 DEF AwardInv, HolderDecides, JobFree, RequestFree

\* A step in which handler a moves to a phase other than approving, the lock stays, and no request being approved is answered keeps the invariant.
LEMMA QuietStep ==
    ASSUME AwardInv, TypeOK', NEW a \in Actors, NEW h,
           handler' = [handler EXCEPT ![a] = h],
           h.pc # "approving",
           lock' = lock,
           \A b \in Actors : handler[b].pc = "approving" =>
                request'[handler[b].who] = request[handler[b].who]
    PROVE  AwardInv'
<1>1. \A b \in Actors : handler'[b] = IF b = a THEN h ELSE handler[b]
  BY DEF AwardInv, TypeOK
<1> QED BY <1>1 DEF AwardInv, HolderDecides

\* Taking the locks on a request that is pending keeps the invariant.
LEMMA LocksKeepAward ==
    ASSUME AwardInv, TypeOK', NEW a \in Actors, NEW c \in Cleaners, NEW j, NEW status,
           TakeLocks(a, c, j, status), request[c] = "pending"
    PROVE  AwardInv'
<1>1. request' = request /\ JobFree /\ lock' = [by |-> a, request |-> c]
  BY DEF TakeLocks
<1>2. \A b \in Actors : /\ b # a => handler'[b] = handler[b]
                        /\ b = a => handler'[b].pc = "approving" /\ handler'[b].who = c
  BY DEF TakeLocks, AwardInv, TypeOK, Idle
<1> QED BY <1>1, <1>2, FreeMeansUndecided DEF AwardInv, HolderDecides

\* The bench keeps the invariant.
LEMMA BenchKeepsAward ==
    ASSUME AwardInv, TypeOK', ~OverlooksAnAnswer, NEW c \in Cleaners, Bench(c)
    PROVE  AwardInv'
<1>0. c \in Actors
  BY DEF Actors
<1>1. CASE AskRead(c)
  <2>1. [Idle EXCEPT !.pc = "asking", !.seen = request[c]].pc # "approving"
    BY DEF Idle
  <2> QED BY <1>0, <1>1, <2>1, QuietStep DEF AskRead, Begin
<1>2. CASE AskCommit(c)
  <2>1. \A d \in Cleaners : request[d] = "pending" => request'[d] = "pending"
    BY <1>2 DEF AskCommit, AwardInv, TypeOK
  <2>2. \A b \in Actors : handler[b].pc = "approving" =>
            request'[handler[b].who] = request[handler[b].who]
    BY <2>1, HandlerType DEF AwardInv, HolderDecides
  <2>3. PICK h : handler' = [handler EXCEPT ![c] = h] /\ h.pc \in {"filed", "idle"}
    BY <1>2, IdleType, ZenonT(40) DEF AskCommit, Idle
  <2>4. lock' = lock
    BY <1>2 DEF AskCommit
  <2> QED BY <1>0, <2>2, <2>3, <2>4, QuietStep
<1>3. CASE InstantRead(c)
  <2>1. [Idle EXCEPT !.pc = "deciding", !.job = job, !.seen = request[c]].pc # "approving"
    BY DEF Idle
  <2> QED BY <1>0, <1>3, <2>1, QuietStep DEF InstantRead
<1>4. CASE WithdrawRead(c)
  <2>1. [Idle EXCEPT !.pc = "withdrawing"].pc # "approving"
    BY DEF Idle
  <2> QED BY <1>0, <1>4, <2>1, QuietStep DEF WithdrawRead, Begin
<1>5. CASE WithdrawCommit(c)
  <2>1. \A b \in Actors : handler[b].pc = "approving" =>
            request'[handler[b].who] = request[handler[b].who]
    BY <1>5, FreeMeansUndecided DEF WithdrawCommit, AwardInv, TypeOK
  <2> QED BY <1>0, <1>5, <2>1, QuietStep, IdleType DEF WithdrawCommit, Finish
<1>6. CASE InstantLock(c)
  BY <1>0, <1>6, LocksKeepAward DEF InstantLock, OverlooksAnAnswer
<1> QED BY <1>1, <1>2, <1>3, <1>4, <1>5, <1>6 DEF Bench

\* The office keeps it: it writes the job only while nobody is approving.
LEMMA OfficeKeepsAward ==
    ASSUME AwardInv, TypeOK', NEW s \in Staff, Office(s)
    PROVE  AwardInv'
<1>0. s \in Actors
  BY DEF Actors
<1>1. CASE OfficeLoad(s)
  <2>1. [Idle EXCEPT !.pc = "loaded", !.job = job].pc # "approving"
    BY DEF Idle
  <2> QED BY <1>0, <1>1, <2>1, QuietStep DEF OfficeLoad, Begin
<1>2. CASE EditCommit(s)
  <2>1. PICK h : handler' = [handler EXCEPT ![s] = h] /\ h.pc \in {"edited", "released"}
    BY <1>2 DEF EditCommit, Idle
  <2> QED BY <1>0, <1>2, <2>1, QuietStep DEF EditCommit
<1>3. CASE EditRelease(s)
  <2>1. \A a \in Actors : handler[a].pc # "approving"
    BY <1>3, FreeMeansUndecided DEF EditRelease
  <2>2. \A b \in Actors \ {s} : handler'[b] = handler[b]
    BY <1>3 DEF EditRelease, AwardInv, TypeOK
  <2>3. DOMAIN handler = Actors /\ "pc" \in DOMAIN handler[s]
    BY <1>0, HandlerType DEF AwardInv, TypeOK, Handler
  <2>4. handler'[s].pc = "released"
    BY <1>0, <1>3, <2>3 DEF EditRelease
  <2> QED BY <2>1, <2>2, <2>4 DEF AwardInv, HolderDecides
<1>4. CASE EditClose(s) \/ SkipCommit(s) \/ CompleteCommit(s) \/ RescheduleCommit(s)
  <2>1. JobFree /\ Finish(s) /\ lock' = lock
    BY <1>4 DEF EditClose, SkipCommit, CompleteCommit, RescheduleCommit
  <2>2. \A a \in Actors : handler[a].pc # "approving"
    BY <2>1, FreeMeansUndecided
  <2> QED BY <1>0, <2>1, <2>2, QuietStep, IdleType DEF Finish
<1>5. ASSUME NEW c \in Cleaners, OfficeLock(s, c)
      PROVE  AwardInv'
  <2>1. request[c] = "pending"
    BY <1>5 DEF OfficeLock, TakeLocks, Approvable
  <2> QED BY <1>0, <1>5, <2>1, LocksKeepAward DEF OfficeLock
<1>6. ASSUME NEW c \in Cleaners, Decline(s, c)
      PROVE  AwardInv'
  <2>1. \A b \in Actors : handler[b].pc = "approving" =>
            request'[handler[b].who] = request[handler[b].who]
    BY <1>6, FreeMeansUndecided DEF Decline, AwardInv, TypeOK
  <2> QED BY <1>6, <2>1 DEF Decline, AwardInv, HolderDecides
<1> QED BY <1>1, <1>2, <1>3, <1>4, <1>5, <1>6 DEF Office

\* Every step keeps it.
LEMMA AwardStep ==
    ASSUME AwardInv, ~OverlooksAnAnswer, [Next]_vars
    PROVE  AwardInv'
<1>0. TypeOK' /\ Ticker \in Actors
  BY TypeStep DEF AwardInv, Actors
<1>1. ASSUME NEW c \in Cleaners, Bench(c)
      PROVE  AwardInv'
  BY <1>0, <1>1, BenchKeepsAward
<1>2. ASSUME NEW s \in Staff, Office(s)
      PROVE  AwardInv'
  BY <1>0, <1>2, OfficeKeepsAward
<1>3. ASSUME NEW a \in Actors, ApproveCommit(a)
      PROVE  AwardInv'
  <2>1. \A b \in Actors : handler[b].pc = "approving" => b = a
    BY <1>3 DEF ApproveCommit, AwardInv, HolderDecides
  <2>2. \A b \in Actors : handler'[b] = IF b = a THEN Idle ELSE handler[b]
    BY <1>3 DEF ApproveCommit, Finish, AwardInv, TypeOK
  <2> QED BY <1>0, <2>1, <2>2, IdleType DEF AwardInv, HolderDecides
<1>4. ASSUME NEW a \in Actors, Abandon(a)
      PROVE  AwardInv'
  <2>1. \A b \in Actors : handler'[b] = IF b = a THEN Idle ELSE handler[b]
    BY <1>4 DEF Abandon, Finish, AwardInv, TypeOK
  <2>2. \A b \in Actors : b # a /\ handler[b].pc = "approving" => lock' = lock
    BY <1>4 DEF Abandon, AwardInv, HolderDecides
  <2>3. request' = request
    BY <1>4 DEF Abandon
  <2> QED BY <1>0, <2>1, <2>2, <2>3, IdleType DEF AwardInv, HolderDecides
<1>5. CASE SweepRead \/ PostRead
  BY <1>0, <1>5, QuietStep DEF SweepRead, PostRead, Begin, Idle
<1>6. CASE SweepCommit \/ PostCommit
  <2>1. JobFree /\ Finish(Ticker) /\ lock' = lock
    BY <1>6 DEF SweepCommit, PostCommit
  <2>2. \A a \in Actors : handler[a].pc # "approving"
    BY <2>1, FreeMeansUndecided
  <2> QED BY <1>0, <2>1, <2>2, QuietStep, IdleType DEF Finish
<1>7. CASE DayPasses \/ UNCHANGED vars
  BY <1>0, <1>7 DEF DayPasses, vars, AwardInv, HolderDecides
<1> QED BY <1>1, <1>2, <1>3, <1>4, <1>5, <1>6, <1>7 DEF Next

\* Nothing but the approval's commit writes `approved`, and it writes it on the
\* request its handler holds.
LEMMA OnlyPendingApproved ==
    ASSUME AwardInv, [Next]_vars, NEW c \in Cleaners,
           request'[c] = "approved", request[c] # "approved"
    PROVE  request[c] = "pending"
<1> USE DEF AwardInv
<1>1. ASSUME NEW W, NEW status \in {"declined", "withdrawn"}, request' = Answer(W, status)
      PROVE  FALSE
  BY <1>1, AnswerType DEF RequestStatus
<1>2. ASSUME NEW d \in Cleaners, Bench(d)
      PROVE  FALSE
  BY <1>2 DEF Bench, AskRead, AskCommit, InstantRead, InstantLock, TakeLocks,
              WithdrawRead, WithdrawCommit, TypeOK
<1>3. ASSUME NEW s \in Staff, Office(s)
      PROVE  FALSE
  <2>1. CASE EditRelease(s) \/ EditClose(s) \/ SkipCommit(s)
    <3>1. request' = request \/ \E W : \/ request' = Answer(W, "declined")
                                     \/ request' = Answer(W, "withdrawn")
      BY <2>1 DEF EditRelease, EditClose, SkipCommit
    <3> QED BY <1>1, <3>1
  <2>2. CASE OfficeLoad(s) \/ EditCommit(s) \/ CompleteCommit(s) \/ RescheduleCommit(s)
    BY <2>2 DEF OfficeLoad, EditCommit, CompleteCommit, RescheduleCommit
  <2>3. CASE \E d \in Cleaners : OfficeLock(s, d) \/ Decline(s, d)
    BY <2>3 DEF OfficeLock, TakeLocks, Decline, TypeOK
  <2> QED BY <1>3, <2>1, <2>2, <2>3 DEF Office
<1>4. ASSUME NEW a \in Actors, ApproveCommit(a)
      PROVE  request[c] = "pending"
  <2>1. CASE c = handler[a].who
    BY <1>4, <2>1 DEF ApproveCommit, HolderDecides
  <2>2. CASE c # handler[a].who
    BY <1>4, <2>2, AnswerType DEF ApproveCommit, RequestStatus
  <2> QED BY <2>1, <2>2
<1>5. CASE SweepCommit
  <2>1. request' = Answer(Pending, "withdrawn")
    BY <1>5 DEF SweepCommit
  <2> QED BY <1>1, <2>1
<1>6. CASE \/ \E a \in Actors : Abandon(a)
           \/ SweepRead \/ PostRead \/ PostCommit \/ DayPasses \/ UNCHANGED vars
  BY <1>6 DEF Abandon, SweepRead, PostRead, PostCommit, DayPasses, vars
<1> QED BY <1>2, <1>3, <1>4, <1>5, <1>6 DEF Next

\* Only a request that is still pending is ever approved, instant claims on or off
\* and however many office users, cleaners and ticks overlap, unless consider()
\* goes by a request that was answered since it read it.
THEOREM AnsweredIsNotApproved == Spec /\ [][~OverlooksAnAnswer]_vars => AwardNeedsPending
<1>1. Init => AwardInv
  <2>1. Init => HolderDecides
    BY IdleType DEF Init, HolderDecides
  <2> QED BY <2>1, InitType DEF AwardInv
<1>2. AwardInv /\ [Next]_vars /\ [~OverlooksAnAnswer]_vars => AwardInv'
  <2>1. CASE UNCHANGED vars
    BY <2>1 DEF vars, AwardInv, HolderDecides, TypeOK
  <2> QED BY <2>1, AwardStep
<1>3. AwardInv /\ [Next]_vars =>
        [\A c \in Cleaners : request'[c] = "approved" /\ request[c] # "approved"
            => request[c] = "pending"]_vars
  BY OnlyPendingApproved
<1> QED BY <1>1, <1>2, <1>3, PTL DEF Spec, AwardNeedsPending

\* With instant claims off nobody decides on rows it had before the lock ...
NobodyDecides == \A a \in Actors : handler[a].pc \notin {"filed", "deciding"}

\* ... in the first state and after every step.
LEMMA NobodyDecidesStep ==
    ASSUME TypeOK, NobodyDecides, Instant = FALSE, [Next]_vars
    PROVE  NobodyDecides'
<1>0. Cleaners \subseteq Actors /\ Staff \subseteq Actors /\ Ticker \in Actors
      /\ handler \in [Actors -> Handler]
  BY DEF Actors, TypeOK
<1>1. ASSUME NEW a \in Actors, NEW h, handler' = [handler EXCEPT ![a] = h],
             h.pc \notin {"filed", "deciding"}
      PROVE  NobodyDecides'
  BY <1>0, <1>1 DEF NobodyDecides
<1>2. ASSUME NEW c \in Cleaners, Bench(c)
      PROVE  NobodyDecides'
  <2>1. CASE AskRead(c) \/ WithdrawRead(c) \/ WithdrawCommit(c)
    BY <1>0, <1>1, <2>1 DEF AskRead, WithdrawRead, WithdrawCommit, Begin, Finish, Idle
  <2>2. CASE AskCommit(c)
    BY <1>0, <1>1, <2>2, IdleType DEF AskCommit
  <2>3. ~InstantRead(c) /\ ~InstantLock(c)
    BY <1>0 DEF InstantRead, InstantLock, NobodyDecides
  <2> QED BY <1>2, <2>1, <2>2, <2>3 DEF Bench
<1>3. ASSUME NEW s \in Staff, Office(s)
      PROVE  NobodyDecides'
  <2>1. CASE OfficeLoad(s) \/ EditClose(s) \/ SkipCommit(s) \/ CompleteCommit(s)
             \/ RescheduleCommit(s)
    BY <1>0, <1>1, <2>1 DEF OfficeLoad, EditClose, SkipCommit, CompleteCommit,
                            RescheduleCommit, Begin, Finish, Idle
  <2>2. CASE EditCommit(s)
    <3>1. PICK h : handler' = [handler EXCEPT ![s] = h] /\ h.pc \in {"edited", "released"}
      BY <2>2 DEF EditCommit, Idle
    <3> QED BY <1>0, <1>1, <3>1
  <2>3. CASE EditRelease(s)
    <3>1. /\ \A b \in Actors \ {s} : handler'[b] = handler[b]
          /\ handler'[s].pc = "released"
      BY <1>0, <2>3 DEF EditRelease, Handler
    <3> QED BY <3>1 DEF NobodyDecides
  <2>4. CASE \E c \in Cleaners : OfficeLock(s, c) \/ Decline(s, c)
    BY <1>0, <1>1, <2>4 DEF OfficeLock, TakeLocks, Decline, Idle, NobodyDecides
  <2> QED BY <1>3, <2>1, <2>2, <2>3, <2>4 DEF Office
<1>4. ASSUME NEW a \in Actors, ApproveCommit(a) \/ Abandon(a)
      PROVE  NobodyDecides'
  BY <1>1, <1>4, IdleType DEF ApproveCommit, Abandon, Finish
<1>5. CASE SweepRead \/ SweepCommit \/ PostRead \/ PostCommit
  BY <1>0, <1>1, <1>5 DEF SweepRead, SweepCommit, PostRead, PostCommit, Begin, Finish, Idle
<1>6. CASE DayPasses \/ UNCHANGED vars
  BY <1>6 DEF DayPasses, vars, NobodyDecides
<1> QED BY <1>2, <1>3, <1>4, <1>5, <1>6 DEF Next

\* So with instant claims off nothing has to be overlooked: only a request that is
\* still pending is ever approved.
THEOREM PendingIsApproved ==
    ASSUME Instant = FALSE
    PROVE  Spec => AwardNeedsPending
<1>1. Init => TypeOK /\ NobodyDecides
  BY InitType, IdleType DEF Init, NobodyDecides
<1>2. TypeOK /\ NobodyDecides /\ [Next]_vars => TypeOK' /\ NobodyDecides'
  BY TypeStep, NobodyDecidesStep
<1>3. NobodyDecides => ~OverlooksAnAnswer
  BY DEF NobodyDecides, OverlooksAnAnswer, InstantLock, Actors
<1> QED BY <1>1, <1>2, <1>3, AnsweredIsNotApproved, PTL DEF Spec

-----------------------------------------------------------------------------
(* A commitment stands *)

\* withdraw_claim stamps a request that was answered since it read it pending.
WithdrawsTooLate == \E c \in Cleaners : WithdrawCommit(c) /\ request[c] # "pending"

\* Nothing else stamps an approved request withdrawn: closing an offer stamps the
\* pending ones, and everybody else writes another status.
LEMMA OnlyLateWithdrawals ==
    ASSUME TypeOK, [Next]_vars, NEW c \in Cleaners, request[c] = "approved",
           ~WithdrawsTooLate
    PROVE  request'[c] # "withdrawn"
<1>1. ASSUME NEW W, NEW status, request' = Answer(W, status),
             status = "withdrawn" => W = Pending
      PROVE  request'[c] # "withdrawn"
  BY <1>1 DEF Answer, Pending
<1>2. ASSUME NEW d \in Cleaners, Bench(d)
      PROVE  request'[c] # "withdrawn"
  <2>1. CASE WithdrawCommit(d)
    BY <2>1 DEF WithdrawsTooLate, WithdrawCommit, TypeOK
  <2>2. CASE ~WithdrawCommit(d)
    BY <1>2, <2>2 DEF Bench, AskRead, AskCommit, InstantRead, InstantLock, TakeLocks,
                      WithdrawRead, TypeOK
  <2> QED BY <2>1, <2>2
<1>3. ASSUME NEW s \in Staff, Office(s)
      PROVE  request'[c] # "withdrawn"
  <2>1. CASE EditRelease(s)
    BY <1>1, <2>1 DEF EditRelease
  <2>2. CASE EditClose(s) \/ SkipCommit(s)
    BY <1>1, <2>2 DEF EditClose, SkipCommit
  <2>3. CASE OfficeLoad(s) \/ EditCommit(s) \/ CompleteCommit(s) \/ RescheduleCommit(s)
    BY <2>3 DEF OfficeLoad, EditCommit, CompleteCommit, RescheduleCommit
  <2>4. CASE \E d \in Cleaners : OfficeLock(s, d) \/ Decline(s, d)
    BY <2>4 DEF OfficeLock, TakeLocks, Decline, TypeOK
  <2> QED BY <1>3, <2>1, <2>2, <2>3, <2>4 DEF Office
<1>4. ASSUME NEW a \in Actors, ApproveCommit(a)
      PROVE  request'[c] # "withdrawn"
  <2>1. Answer(handler[a].others, "declined")[c] \in {"approved", "declined"}
    BY DEF Answer
  <2> QED BY <1>4, <2>1, AnswerType DEF ApproveCommit, RequestStatus
<1>5. CASE SweepCommit
  BY <1>1, <1>5 DEF SweepCommit
<1>6. CASE \/ \E a \in Actors : Abandon(a)
           \/ SweepRead \/ PostRead \/ PostCommit \/ DayPasses \/ UNCHANGED vars
  BY <1>6 DEF Abandon, SweepRead, PostRead, PostCommit, DayPasses, vars
<1> QED BY <1>2, <1>3, <1>4, <1>5, <1>6 DEF Next

\* Whatever overlaps, a cleaner who was told the job is hers is never stamped
\* withdrawn, unless she withdraws a request that was approved since she read it.
THEOREM CommitmentIsKept == Spec /\ [][~WithdrawsTooLate]_vars => CommitmentStands
<1>1. TypeOK /\ [Next]_vars /\ [~WithdrawsTooLate]_vars =>
        [\A c \in Cleaners : request[c] = "approved" => request'[c] # "withdrawn"]_vars
  BY OnlyLateWithdrawals
<1> QED BY <1>1, TypeCorrect, PTL DEF Spec, CommitmentStands

-----------------------------------------------------------------------------
(* Who moves *)

\* A step moves one handler at most, and only one that was busy or found room.
LEMMA OneMoves ==
    ASSUME TypeOK, [Next]_vars
    PROVE  \/ handler' = handler
           \/ \E a \in Actors : /\ handler[a] # Idle \/ Room(a)
                                /\ \A b \in Actors \ {a} : handler'[b] = handler[b]
<1> USE IdleType
<1>0. Cleaners \subseteq Actors /\ Staff \subseteq Actors /\ Ticker \in Actors
      /\ DOMAIN handler = Actors
  BY DEF Actors, TypeOK
<1>1. ASSUME NEW c \in Cleaners, Bench(c)
      PROVE  /\ handler[c] # Idle \/ Room(c)
             /\ \A b \in Actors \ {c} : handler'[b] = handler[b]
  BY <1>0, <1>1 DEF Bench, AskRead, AskCommit, InstantRead, InstantLock, TakeLocks,
                    WithdrawRead, WithdrawCommit, Begin, Finish
<1>2. ASSUME NEW s \in Staff, Office(s)
      PROVE  \/ handler' = handler
             \/ /\ handler[s] # Idle \/ Room(s)
                /\ \A b \in Actors \ {s} : handler'[b] = handler[b]
  <2>1. CASE OfficeLoad(s) \/ EditRelease(s) \/ EditClose(s) \/ SkipCommit(s)
             \/ CompleteCommit(s) \/ RescheduleCommit(s)
    BY <1>0, <2>1 DEF OfficeLoad, EditRelease, EditClose, SkipCommit, CompleteCommit,
                      RescheduleCommit, Begin, Finish
  <2>2. CASE EditCommit(s)
    <3>1. handler[s].pc = "loaded" /\ \E h : handler' = [handler EXCEPT ![s] = h]
      BY <2>2 DEF EditCommit
    <3> QED BY <1>0, <3>1
  <2>3. CASE \E c \in Cleaners : OfficeLock(s, c) \/ Decline(s, c)
    BY <1>0, <2>3 DEF OfficeLock, TakeLocks, Decline
  <2> QED BY <1>2, <2>1, <2>2, <2>3 DEF Office
<1>3. ASSUME NEW a \in Actors, ApproveCommit(a) \/ Abandon(a)
      PROVE  /\ handler[a] # Idle
             /\ \A b \in Actors \ {a} : handler'[b] = handler[b]
  BY <1>0, <1>3 DEF ApproveCommit, Abandon, Finish
<1>4. CASE SweepRead \/ SweepCommit \/ PostRead \/ PostCommit
  BY <1>0, <1>4 DEF SweepRead, SweepCommit, PostRead, PostCommit, Begin, Finish
<1>5. CASE DayPasses \/ UNCHANGED vars
  BY <1>5 DEF DayPasses, vars
<1> QED BY <1>0, <1>1, <1>2, <1>3, <1>4, <1>5 DEF Next

\* When one request is served at a time, whoever finds room finds everybody idle.
LEMMA RoomMeansIdle ==
    ASSUME MaxBusy = 1, NEW a \in Actors, Room(a)
    PROVE  \A b \in Actors : handler[b] = Idle
<1> DEFINE B == {b \in Actors : handler[b] # Idle}
<1>1. IsFiniteSet(Cleaners \cup Staff) /\ IsFiniteSet({Ticker})
  BY ActorAssumption, FS_Union, FS_Singleton
<1>2. IsFiniteSet(Actors)
  BY <1>1, FS_Union DEF Actors
<1>3. IsFiniteSet(B)
  BY <1>2, FS_Subset
<1>4. Cardinality(B) < 1 /\ Cardinality(B) \in Nat
  BY <1>3, FS_CardinalityType DEF Room
<1>5. B = {}
  BY <1>3, <1>4, FS_EmptySet
<1> QED BY <1>5

-----------------------------------------------------------------------------
(* The crew, the agreed rate and the approved request *)

\* Phases in which a handler goes by the copy of the job in its session.
HoldsCopy == {"loaded", "edited", "released", "deciding", "approving"}

\* At most one handler at a time goes by a copy it loaded.
SoleCopy ==
    \A a, b \in Actors :
        handler[a].pc \in HoldsCopy /\ handler[b].pc \in HoldsCopy => a = b

\* An edit's first commit is out and release_if_displaced has not run yet.
Unreleased == \E a \in Actors : handler[a].pc = "edited"

\* The copy is right about the crew and the agreement; whoever is approved is
\* the one who agreed the rate, even while an edit is unreleased; and otherwise
\* that one is on the job.
CrewInv ==
    /\ \A a \in Actors : handler[a].pc \in HoldsCopy =>
         /\ handler[a].job.crew = job.crew
         /\ handler[a].job.agreed = job.agreed
         /\ handler[a].pc = "approving" => job.crew \subseteq {handler[a].who}
    /\ \A c \in Cleaners : request[c] = "approved" => job.agreed = c
    /\ Unreleased \/ job.agreed \in job.crew \cup {NoOne}

\* A step that writes neither the crew nor the agreement and approves nobody
\* keeps all that, when what its handler goes on with is right.
LEMMA CrewUntouched ==
    ASSUME TypeOK, CrewInv, NEW a \in Actors, NEW h,
           handler' = [handler EXCEPT ![a] = h],
           job'.crew = job.crew, job'.agreed = job.agreed,
           \A c \in Cleaners : request'[c] = "approved" => request[c] = "approved",
           handler[a].pc # "edited",
           h.pc \in HoldsCopy =>
             /\ h.job.crew = job.crew /\ h.job.agreed = job.agreed
             /\ h.pc = "approving" => job.crew \subseteq {h.who}
    PROVE  CrewInv'
<1>1. \A b \in Actors : handler'[b] = IF b = a THEN h ELSE handler[b]
  BY DEF TypeOK
<1>2. Unreleased => Unreleased'
  BY <1>1 DEF Unreleased
<1> QED BY <1>1, <1>2 DEF CrewInv

\* The bench neither writes the job nor approves anybody.
LEMMA BenchKeepsCrew ==
    ASSUME TypeOK, CrewInv, NEW c \in Cleaners, Bench(c)
    PROVE  CrewInv'
<1>0. c \in Actors /\ job' = job
  BY DEF Actors, Bench, AskRead, AskCommit, InstantRead, InstantLock, TakeLocks,
         WithdrawRead, WithdrawCommit
<1>1. \A d \in Cleaners : request'[d] = "approved" => request[d] = "approved"
  BY DEF Bench, AskRead, AskCommit, InstantRead, InstantLock, TakeLocks,
         WithdrawRead, WithdrawCommit, TypeOK
<1>2. CASE AskRead(c)
  <2>1. [Idle EXCEPT !.pc = "asking", !.seen = request[c]].pc = "asking"
    BY DEF Idle
  <2> QED BY <1>0, <1>1, <1>2, <2>1, IdleType, CrewUntouched DEF AskRead, Begin, Room, HoldsCopy
<1>3. CASE AskCommit(c)
  BY <1>0, <1>1, <1>3, CrewUntouched DEF AskCommit, Idle, HoldsCopy
<1>4. CASE InstantRead(c)
  BY <1>0, <1>1, <1>4, CrewUntouched DEF InstantRead, Idle, HoldsCopy
<1>5. CASE InstantLock(c)
  <2>1. handler[c].job.crew = job.crew /\ handler[c].job.agreed = job.agreed
        /\ handler[c].job.crew \subseteq {c}
    BY <1>0, <1>5 DEF InstantLock, TakeLocks, Approvable, CrewInv, HoldsCopy
  <2> DEFINE h == [Idle EXCEPT !.pc = "approving", !.job = handler[c].job, !.who = c,
                              !.others = Pending \ {c}]
  <2>2. handler' = [handler EXCEPT ![c] = h] /\ handler[c].pc # "edited"
    BY <1>5 DEF InstantLock, TakeLocks
  <2>3. h.pc = "approving" /\ h.job = handler[c].job /\ h.who = c
    BY DEF Idle
  <2> HIDE DEF h
  <2> QED BY <1>0, <1>1, <2>1, <2>2, <2>3, CrewUntouched
<1>6. CASE WithdrawRead(c)
  <2>1. [Idle EXCEPT !.pc = "withdrawing"].pc = "withdrawing"
    BY DEF Idle
  <2> QED BY <1>0, <1>1, <1>6, <2>1, IdleType, CrewUntouched
          DEF WithdrawRead, Begin, Room, HoldsCopy
<1>7. CASE WithdrawCommit(c)
  BY <1>0, <1>1, <1>7, CrewUntouched DEF WithdrawCommit, Finish, Idle, HoldsCopy
<1> QED BY <1>2, <1>3, <1>4, <1>5, <1>6, <1>7 DEF Bench

\* The first commit of an edit takes the crew the office typed and leaves the
\* agreement; when no crew was typed the crew stays as well.
LEMMA EditKeepsCrew ==
    ASSUME TypeOK, TypeOK', CrewInv, SoleCopy, NEW s \in Staff, EditCommit(s)
    PROVE  CrewInv'
<1>0. s \in Actors /\ handler[s].pc = "loaded" /\ request' = request
      /\ handler[s].job \in Job /\ job \in Job
  BY HandlerType DEF EditCommit, Actors, TypeOK
<1>1. PICK new \in Job, crewSent \in BOOLEAN :
        /\ new.agreed = handler[s].job.agreed
        /\ new.crew # handler[s].job.crew => crewSent
        /\ job' = Flush(job, handler[s].job, new)
        /\ handler' = [handler EXCEPT ![s] =
              [Idle EXCEPT !.pc = IF crewSent THEN "edited" ELSE "released",
                           !.job = job', !.wasOpen = handler[s].job.open]]
  BY DEF EditCommit
<1>2. handler[s].job.crew = job.crew /\ handler[s].job.agreed = job.agreed
  BY <1>0 DEF CrewInv, HoldsCopy
<1>3. job'.agreed = job.agreed /\ (~crewSent => job'.crew = job.crew)
  BY <1>1, <1>2 DEF Flush
<1>4. /\ \A b \in Actors \ {s} : handler'[b] = handler[b] /\ handler[b].pc \notin HoldsCopy
      /\ handler'[s].job = job'
      /\ handler'[s].pc = IF crewSent THEN "edited" ELSE "released"
  BY <1>0, <1>1 DEF TypeOK, SoleCopy, HoldsCopy, Idle
<1>5. ~Unreleased
  BY <1>0, <1>4 DEF Unreleased, HoldsCopy
<1>6. crewSent => Unreleased'
  BY <1>0, <1>4 DEF Unreleased
<1> QED BY <1>0, <1>3, <1>4, <1>5, <1>6 DEF CrewInv

\* The second commit lets go of an agreement whose cleaner is off the job, and
\* of that cleaner's approved request, together.
LEMMA ReleaseKeepsCrew ==
    ASSUME TypeOK, TypeOK', CrewInv, SoleCopy, NEW s \in Staff, EditRelease(s)
    PROVE  CrewInv'
<1> DEFINE displaced == {handler[s].job.agreed} \ (handler[s].job.crew \cup {NoOne})
<1>0. s \in Actors /\ handler[s].pc = "edited" /\ NoOne \notin Cleaners
      /\ job \in Job /\ handler[s] \in Handler /\ handler \in [Actors -> Handler]
  BY HandlerType, ActorAssumption DEF EditRelease, Actors, TypeOK
<1>1. handler[s].job.crew = job.crew /\ handler[s].job.agreed = job.agreed
  BY <1>0 DEF CrewInv, HoldsCopy
<1>2. displaced = {job.agreed} \ (job.crew \cup {NoOne})
  BY <1>1
<1>3. /\ job' = IF displaced = {} THEN job ELSE [job EXCEPT !.agreed = NoOne]
      /\ request' = Answer({c \in displaced : request[c] = "approved"}, "declined")
      /\ handler' = [handler EXCEPT ![s].pc = "released",
                       ![s].job = IF displaced = {} THEN @ ELSE job']
  BY DEF EditRelease
<1> HIDE DEF displaced
<1>4. job'.crew = job.crew /\ job'.agreed = IF displaced = {} THEN job.agreed ELSE NoOne
  BY <1>0, <1>3 DEF Job
<1>5. job'.agreed \in job'.crew \cup {NoOne}
  BY <1>2, <1>4
<1>6. handler'[s].pc = "released" /\ handler'[s].job.crew = job'.crew
      /\ handler'[s].job.agreed = job'.agreed
  BY <1>0, <1>1, <1>3, <1>4 DEF Handler
<1>7. \A b \in Actors \ {s} : handler'[b] = handler[b] /\ handler[b].pc \notin HoldsCopy
  BY <1>0, <1>3 DEF SoleCopy, HoldsCopy
<1>8. ASSUME NEW c \in Cleaners, request'[c] = "approved"
      PROVE  job'.agreed = c
  <2>1. request[c] = "approved" /\ c \notin displaced
    BY <1>3, <1>8, AnswerType DEF RequestStatus
  <2>2. job.agreed = c /\ displaced = {}
    BY <1>2, <2>1 DEF CrewInv
  <2> QED BY <1>4, <2>2
<1> QED BY <1>5, <1>6, <1>7, <1>8 DEF CrewInv

\* The winner was the only one who could be on the job, and is on it afterwards.
LEMMA ApprovalKeepsCrew ==
    ASSUME TypeOK, TypeOK', CrewInv, SoleCopy, NEW a \in Actors, ApproveCommit(a)
    PROVE  CrewInv'
<1> DEFINE loaded == handler[a].job
           w == handler[a].who
<1>0. handler[a].pc = "approving" /\ w \in Cleaners /\ NoOne \notin Cleaners
      /\ job \in Job /\ loaded \in Job
  BY HandlerType, ActorAssumption DEF ApproveCommit, TypeOK
<1>1. loaded.crew = job.crew /\ loaded.agreed = job.agreed /\ job.crew \subseteq {w}
  BY <1>0 DEF CrewInv, HoldsCopy
<1>2. /\ job' = Flush(job, loaded, [loaded EXCEPT !.crew = @ \cup {w}, !.agreed = w,
                                                  !.open = FALSE])
      /\ request' = [Answer(handler[a].others, "declined") EXCEPT ![w] = "approved"]
      /\ handler' = [handler EXCEPT ![a] = Idle]
  BY DEF ApproveCommit, Finish
<1>3. \A b \in Actors : handler'[b].pc \notin HoldsCopy
  <2>1. \A b \in Actors : handler'[b] = IF b = a THEN Idle ELSE handler[b]
    BY <1>2 DEF TypeOK
  <2> QED BY <1>0, <2>1, IdleType DEF SoleCopy, HoldsCopy
<1>4. ~Unreleased
  BY <1>0 DEF Unreleased, SoleCopy, HoldsCopy
<1>5. job'.agreed = w /\ job'.crew = {w}
  <2>1. [loaded EXCEPT !.crew = @ \cup {w}, !.agreed = w, !.open = FALSE].crew = {w}
        /\ [loaded EXCEPT !.crew = @ \cup {w}, !.agreed = w, !.open = FALSE].agreed = w
    BY <1>0, <1>1 DEF Job
  <2> HIDE DEF loaded, w
  <2> QED BY <1>1, <1>2, <2>1 DEF Flush
<1>6. ASSUME NEW d \in Cleaners, request'[d] = "approved"
      PROVE  d = w
  <2>1. d # w => request[d] = "approved"
    BY <1>0, <1>2, <1>6, AnswerType DEF RequestStatus
  <2> QED BY <1>0, <1>1, <1>4, <2>1 DEF CrewInv
<1> HIDE DEF loaded, w
<1> QED BY <1>3, <1>5, <1>6 DEF CrewInv

\* So the office keeps it: the other commits write neither column.
LEMMA OfficeKeepsCrew ==
    ASSUME TypeOK, TypeOK', CrewInv, SoleCopy, Recurring = FALSE,
           NEW s \in Staff, Office(s)
    PROVE  CrewInv'
<1>0. s \in Actors /\ job \in Job /\ handler[s].job \in Job
  BY HandlerType DEF Actors, TypeOK
<1>1. CASE OfficeLoad(s)
  <2>1. [Idle EXCEPT !.pc = "loaded", !.job = job].pc = "loaded"
        /\ [Idle EXCEPT !.pc = "loaded", !.job = job].job = job
    BY DEF Idle
  <2> QED BY <1>0, <1>1, <2>1, IdleType, CrewUntouched DEF OfficeLoad, Begin, Room, HoldsCopy
<1>2. CASE EditCommit(s)
  BY <1>2, EditKeepsCrew
<1>3. CASE EditRelease(s)
  BY <1>3, ReleaseKeepsCrew
<1>4. CASE EditClose(s) \/ SkipCommit(s) \/ CompleteCommit(s)
  <2>1. job'.crew = job.crew /\ job'.agreed = job.agreed
    <3>1. CASE EditClose(s)
      <4>1. \/ job' = job
            \/ job' = Flush(job, handler[s].job, [handler[s].job EXCEPT !.open = FALSE])
        BY <3>1 DEF EditClose
      <4>2. CASE job' = Flush(job, handler[s].job, [handler[s].job EXCEPT !.open = FALSE])
        BY <1>0, <4>2 DEF Flush, Job
      <4> QED BY <4>1, <4>2
    <3>2. CASE SkipCommit(s)
      BY <1>0, <3>2 DEF SkipCommit, Flush, Job
    <3>3. CASE CompleteCommit(s)
      BY <1>0, <3>3 DEF CompleteCommit, Flush, Job
    <3> QED BY <1>4, <3>1, <3>2, <3>3
  <2>2. handler[s].pc # "edited" /\ Finish(s)
    BY <1>4 DEF EditClose, SkipCommit, CompleteCommit
  <2>3. request' = request \/ request' = Answer(Pending, "withdrawn")
    BY <1>4 DEF EditClose, SkipCommit, CompleteCommit
  <2>4. \A c \in Cleaners : request'[c] = "approved" => request[c] = "approved"
    BY <2>3, AnswerType DEF RequestStatus
  <2> QED BY <1>0, <2>1, <2>2, <2>4, IdleType, CrewUntouched DEF Finish, HoldsCopy
<1>5. CASE RescheduleCommit(s)
  BY <1>5 DEF RescheduleCommit
<1>6. ASSUME NEW c \in Cleaners, OfficeLock(s, c)
      PROVE  CrewInv'
  <2> DEFINE h == [Idle EXCEPT !.pc = "approving", !.job = handler[s].job, !.who = c,
                              !.others = Pending \ {c}]
  <2>1. handler' = [handler EXCEPT ![s] = h] /\ handler[s].pc = "loaded"
        /\ job' = job /\ request' = request /\ handler[s].job.crew \subseteq {c}
    BY <1>6 DEF OfficeLock, TakeLocks, Approvable
  <2>2. h.pc = "approving" /\ h.job = handler[s].job /\ h.who = c
    BY DEF Idle
  <2>3. h.job.crew = job.crew /\ h.job.agreed = job.agreed
    BY <1>0, <2>1, <2>2 DEF CrewInv, HoldsCopy
  <2> HIDE DEF h
  <2> QED BY <1>0, <2>1, <2>2, <2>3, CrewUntouched
<1>7. ASSUME NEW c \in Cleaners, Decline(s, c)
      PROVE  CrewInv'
  <2>1. job' = job /\ handler' = handler
        /\ \A d \in Cleaners : request'[d] = "approved" => request[d] = "approved"
    BY <1>7 DEF Decline, TypeOK
  <2> QED BY <2>1 DEF CrewInv, Unreleased
<1> QED BY <1>1, <1>2, <1>3, <1>4, <1>5, <1>6, <1>7 DEF Office

\* While one handler at a time goes by its copy, an edit is not cut in half and
\* the visit is not one that can be rescheduled in a series, every step keeps it.
LEMMA CrewStep ==
    ASSUME TypeOK, CrewInv, SoleCopy, Recurring = FALSE, HalfEdits = FALSE, [Next]_vars
    PROVE  CrewInv'
<1>0. TypeOK' /\ Ticker \in Actors /\ job \in Job
  BY TypeStep DEF Actors, TypeOK
<1>1. ASSUME NEW c \in Cleaners, Bench(c)
      PROVE  CrewInv'
  BY <1>1, BenchKeepsCrew
<1>2. ASSUME NEW s \in Staff, Office(s)
      PROVE  CrewInv'
  BY <1>0, <1>2, OfficeKeepsCrew
<1>3. ASSUME NEW a \in Actors, ApproveCommit(a)
      PROVE  CrewInv'
  BY <1>0, <1>3, ApprovalKeepsCrew
<1>4. ASSUME NEW a \in Actors, Abandon(a)
      PROVE  CrewInv'
  <2>1. handler[a].pc # "edited" /\ job' = job /\ request' = request /\ Finish(a)
    BY <1>4 DEF Abandon
  <2> QED BY <2>1, IdleType, CrewUntouched DEF Finish, HoldsCopy
<1>5. CASE SweepRead \/ PostRead
  <2>1. PICK h : /\ Begin(Ticker, h) /\ h.pc \in {"sweeping", "posting"}
                 /\ job' = job /\ request' = request
    BY <1>5 DEF SweepRead, PostRead, Idle
  <2> QED BY <1>0, <2>1, IdleType, CrewUntouched DEF Begin, Room, HoldsCopy
<1>6. CASE SweepCommit \/ PostCommit
  <2>1. job'.crew = job.crew /\ job'.agreed = job.agreed
    BY <1>0, <1>6 DEF SweepCommit, PostCommit, Job
  <2>2. handler[Ticker].pc # "edited" /\ Finish(Ticker)
    BY <1>6 DEF SweepCommit, PostCommit
  <2>3. request' = request \/ request' = Answer(Pending, "withdrawn")
    BY <1>6 DEF SweepCommit, PostCommit
  <2>4. \A c \in Cleaners : request'[c] = "approved" => request[c] = "approved"
    BY <2>3, AnswerType DEF RequestStatus
  <2> QED BY <1>0, <2>1, <2>2, <2>4, IdleType, CrewUntouched DEF Finish, HoldsCopy
<1>7. CASE DayPasses \/ UNCHANGED vars
  BY <1>7 DEF DayPasses, vars, CrewInv, Unreleased
<1> QED BY <1>1, <1>2, <1>3, <1>4, <1>5, <1>6, <1>7 DEF Next

-----------------------------------------------------------------------------
(* One office user, the whole bench and the ticks at once *)

\* The cleaners and the ticks never go by a copy of the job.
OfficeHoldsCopies ==
    \A a \in Actors : handler[a].pc \in HoldsCopy \cup {"filed"} => a \in Staff

\* With instant claims off every step keeps that.
LEMMA CopiesStep ==
    ASSUME TypeOK, OfficeHoldsCopies, Instant = FALSE, [Next]_vars
    PROVE  OfficeHoldsCopies'
<1>0. Cleaners \subseteq Actors /\ Ticker \in Actors /\ handler \in [Actors -> Handler]
  BY DEF Actors, TypeOK
<1>1. ASSUME NEW a \in Actors, \A b \in Actors \ {a} : handler'[b] = handler[b],
             a \in Staff \/ handler'[a].pc \notin HoldsCopy \cup {"filed"}
      PROVE  OfficeHoldsCopies'
  BY <1>1 DEF OfficeHoldsCopies
<1>2. ASSUME NEW c \in Cleaners, Bench(c)
      PROVE  OfficeHoldsCopies'
  <2>1. c \notin Staff /\ c \in Actors
    BY <1>0, ActorAssumption
  <2>2. handler[c].pc \notin {"filed", "deciding"}
    BY <2>1 DEF OfficeHoldsCopies, HoldsCopy
  <2>3. /\ \A b \in Actors \ {c} : handler'[b] = handler[b]
        /\ handler'[c].pc \in {"asking", "withdrawing", "idle"}
    <3>1. CASE AskRead(c)
      BY <1>0, <2>1, <3>1 DEF AskRead, Begin, Idle
    <3>2. CASE AskCommit(c)
      BY <1>0, <2>1, <3>2, IdleType DEF AskCommit
    <3>3. CASE WithdrawRead(c)
      BY <1>0, <2>1, <3>3 DEF WithdrawRead, Begin, Idle
    <3>4. CASE WithdrawCommit(c)
      BY <1>0, <2>1, <3>4, IdleType DEF WithdrawCommit, Finish
    <3> QED BY <1>2, <2>2, <3>1, <3>2, <3>3, <3>4 DEF Bench, InstantRead, InstantLock
  <2> QED BY <1>0, <1>1, <2>1, <2>3 DEF HoldsCopy
<1>3. ASSUME NEW s \in Staff, Office(s)
      PROVE  OfficeHoldsCopies'
  <2>1. CASE OfficeLoad(s) \/ EditRelease(s) \/ EditClose(s) \/ SkipCommit(s)
             \/ CompleteCommit(s) \/ RescheduleCommit(s)
    BY <1>0, <2>1 DEF OfficeLoad, EditRelease, EditClose, SkipCommit, CompleteCommit,
                      RescheduleCommit, Begin, Finish, OfficeHoldsCopies
  <2>2. CASE EditCommit(s)
    <3>1. \E h : handler' = [handler EXCEPT ![s] = h]
      BY <2>2 DEF EditCommit
    <3> QED BY <1>0, <3>1 DEF OfficeHoldsCopies
  <2>3. CASE \E c \in Cleaners : OfficeLock(s, c) \/ Decline(s, c)
    BY <1>0, <2>3 DEF OfficeLock, TakeLocks, Decline, OfficeHoldsCopies
  <2> QED BY <1>3, <2>1, <2>2, <2>3 DEF Office
<1>4. ASSUME NEW a \in Actors, ApproveCommit(a) \/ Abandon(a)
      PROVE  OfficeHoldsCopies'
  BY <1>0, <1>1, <1>4, IdleType DEF ApproveCommit, Abandon, Finish, HoldsCopy
<1>5. CASE SweepRead \/ SweepCommit \/ PostRead \/ PostCommit
  <2>1. PICK h : /\ handler' = [handler EXCEPT ![Ticker] = h]
                 /\ h.pc \in {"sweeping", "posting", "idle"}
    BY <1>5 DEF SweepRead, SweepCommit, PostRead, PostCommit, Begin, Finish, Idle
  <2> QED BY <1>0, <1>1, <2>1 DEF HoldsCopy
<1>6. CASE DayPasses \/ UNCHANGED vars
  BY <1>6 DEF DayPasses, vars, OfficeHoldsCopies
<1> QED BY <1>2, <1>3, <1>4, <1>5, <1>6 DEF Next

\* With one office user there is then one copy at a time, whatever else is in flight.
AloneInv == TypeOK /\ OfficeHoldsCopies /\ CrewInv

\* The first state, and every step.
LEMMA AloneInvariant ==
    ASSUME Instant = FALSE, Recurring = FALSE, HalfEdits = FALSE,
           \A s, t \in Staff : s = t
    PROVE  Spec => []AloneInv
<1>1. Init => AloneInv
  <2>1. Init => OfficeHoldsCopies /\ CrewInv
    BY IdleType DEF Init, OfficeHoldsCopies, HoldsCopy, CrewInv, NoJob
  <2> QED BY <2>1, InitType DEF AloneInv
<1>2. AloneInv /\ [Next]_vars => AloneInv'
  <2>1. OfficeHoldsCopies => SoleCopy
    BY DEF OfficeHoldsCopies, SoleCopy
  <2> QED BY <2>1, TypeStep, CopiesStep, CrewStep DEF AloneInv
<1> QED BY <1>1, <1>2, PTL DEF Spec

\* What the invariant says once no edit is underway.
LEMMA CrewInvGives ==
    ASSUME CrewInv, TypeOK, \A a \in Actors : handler[a].pc = "edited" => a \in Staff
    PROVE  OneWinner /\ WinnerIsOnTheJob /\ AgreementFollowsCrew
<1>1. NoOne \notin Cleaners
  BY ActorAssumption
<1>2. ~MidEdit => ~Unreleased
  BY DEF MidEdit, Unreleased
<1>3. ~MidEdit => job.agreed \in job.crew \cup {NoOne}
        /\ \A c \in Cleaners : request[c] = "approved" => c \in job.crew /\ job.agreed = c
  BY <1>1, <1>2 DEF CrewInv
<1>4. WinnerIsOnTheJob /\ AgreementFollowsCrew
  BY <1>3 DEF WinnerIsOnTheJob, AgreementFollowsCrew
<1>5. OneWinner
  BY <1>3 DEF OneWinner
<1> QED BY <1>4, <1>5

\* With one office user and instant claims off, and any number of cleaners asking
\* and withdrawing while the ticks post and sweep, the job goes to one winner ...
THEOREM OneWinnerAlone ==
    ASSUME Instant = FALSE, Recurring = FALSE, HalfEdits = FALSE,
           \A s, t \in Staff : s = t
    PROVE  Spec => []OneWinner
<1>1. AloneInv => OneWinner
  BY CrewInvGives DEF AloneInv, OfficeHoldsCopies, HoldsCopy
<1>2. Spec => []AloneInv
  BY AloneInvariant
<1> QED BY <1>1, <1>2, PTL

\* ... the winner is on the job at the agreed rate ...
THEOREM WinnerOnTheJobAlone ==
    ASSUME Instant = FALSE, Recurring = FALSE, HalfEdits = FALSE,
           \A s, t \in Staff : s = t
    PROVE  Spec => []WinnerIsOnTheJob
<1>1. AloneInv => WinnerIsOnTheJob
  BY CrewInvGives DEF AloneInv, OfficeHoldsCopies, HoldsCopy
<1>2. Spec => []AloneInv
  BY AloneInvariant
<1> QED BY <1>1, <1>2, PTL

\* ... and the agreed rate belongs to somebody on the job.
THEOREM AgreementFollowsCrewAlone ==
    ASSUME Instant = FALSE, Recurring = FALSE, HalfEdits = FALSE,
           \A s, t \in Staff : s = t
    PROVE  Spec => []AgreementFollowsCrew
<1>1. AloneInv => AgreementFollowsCrew
  BY CrewInvGives DEF AloneInv, OfficeHoldsCopies, HoldsCopy
<1>2. Spec => []AloneInv
  BY AloneInvariant
<1> QED BY <1>1, <1>2, PTL

-----------------------------------------------------------------------------
(* One request at a time, instant claims or not *)

OneBusy == \A a, b \in Actors : handler[a] # Idle /\ handler[b] # Idle => a = b

\* Served one at a time, a handler goes by the job and the request as they are, an
\* asking cleaner by an open offer, the approval by a pending request and everybody
\* who waits, and the tick by an unagreed job; somebody waits only while the offer is open or an edit has yet to close
\* it; and the job of somebody who agreed is not on offer.
OfferInv ==
    /\ \A a \in Actors :
         /\ handler[a].pc \in HoldsCopy => handler[a].job = job
         /\ handler[a].pc \in {"asking", "filed", "deciding"} => job.open
         /\ handler[a].pc = "withdrawing" => request[a] = "pending"
         /\ handler[a].pc = "deciding" => handler[a].seen = request[a]
         /\ handler[a].pc = "approving" =>
              /\ request[handler[a].who] = "pending"
              /\ handler[a].others = Pending \ {handler[a].who}
         /\ handler[a].pc = "posting" => job.agreed = NoOne
         /\ handler[a].pc \in {"edited", "released"} =>
              a \in Staff /\ (handler[a].wasOpen \/ Pending = {})
    /\ job.open => job.agreed \notin job.crew
    /\ MidEdit \/ job.open \/ Pending = {}

SerialInv == TypeOK /\ OneBusy /\ CrewInv /\ OfferInv

\* Nobody joins a handler that is busy.
LEMMA BusyStep ==
    ASSUME TypeOK, OneBusy, MaxBusy = 1, [Next]_vars
    PROVE  OneBusy'
<1>1. CASE handler' = handler
  BY <1>1 DEF OneBusy
<1>2. ASSUME NEW a \in Actors, handler[a] # Idle \/ Room(a),
             \A b \in Actors \ {a} : handler'[b] = handler[b]
      PROVE  OneBusy'
  <2>1. \A b \in Actors \ {a} : handler[b] = Idle
    BY <1>2, RoomMeansIdle DEF OneBusy
  <2> QED BY <1>2, <2>1 DEF OneBusy
<1> QED BY <1>1, <1>2, OneMoves

\* When everybody else is idle, what a step leaves to show is about its own
\* handler, the offer and who waits.
LEMMA OfferFrame ==
    ASSUME TypeOK, OneBusy, MaxBusy = 1, NEW a \in Actors, NEW h,
           handler[a] # Idle \/ Room(a),
           handler' = [handler EXCEPT ![a] = h],
           /\ h.pc \in HoldsCopy => h.job = job'
           /\ h.pc \in {"asking", "filed", "deciding"} => job'.open
           /\ h.pc = "withdrawing" => request'[a] = "pending"
           /\ h.pc = "deciding" => h.seen = request'[a]
           /\ h.pc = "approving" => request'[h.who] = "pending" /\ h.others = Pending' \ {h.who}
           /\ h.pc = "posting" => job'.agreed = NoOne
           /\ h.pc \in {"edited", "released"} => a \in Staff /\ (h.wasOpen \/ Pending' = {}),
           job'.open => job'.agreed \notin job'.crew,
           h.pc \in {"edited", "released"} \/ job'.open \/ Pending' = {}
    PROVE  OfferInv'
<1>1. \A b \in Actors : handler'[b] = IF b = a THEN h ELSE Idle
  <2>1. \A b \in Actors \ {a} : handler[b] = Idle
    BY RoomMeansIdle DEF OneBusy
  <2> QED BY <2>1 DEF TypeOK
<1>2. h.pc \in {"edited", "released"} => MidEdit'
  BY <1>1 DEF MidEdit, Actors
<1>3. \A b \in Actors :
         /\ handler'[b].pc \in HoldsCopy => handler'[b].job = job'
         /\ handler'[b].pc \in {"asking", "filed", "deciding"} => job'.open
         /\ handler'[b].pc = "withdrawing" => request'[b] = "pending"
         /\ handler'[b].pc = "deciding" => handler'[b].seen = request'[b]
         /\ handler'[b].pc = "approving" =>
              /\ request'[handler'[b].who] = "pending"
              /\ handler'[b].others = Pending' \ {handler'[b].who}
         /\ handler'[b].pc = "posting" => job'.agreed = NoOne
         /\ handler'[b].pc \in {"edited", "released"} =>
              b \in Staff /\ (handler'[b].wasOpen \/ Pending' = {})
  BY <1>1, IdleType DEF HoldsCopy
<1> QED BY <1>2, <1>3 DEF OfferInv

\* The bench keeps the offer and the requests together.
LEMMA BenchKeepsOffer ==
    ASSUME SerialInv, MaxBusy = 1, NEW c \in Cleaners, Bench(c)
    PROVE  OfferInv'
<1> USE DEF SerialInv
<1>0. c \in Actors /\ job' = job /\ c \notin Staff
      /\ (handler[c] # Idle => ~MidEdit)
  <2>1. c \in Actors /\ c \notin Staff /\ Staff \subseteq Actors
    BY ActorAssumption DEF Actors
  <2>2. handler[c] # Idle => ~MidEdit
    BY <2>1, IdleType DEF OneBusy, MidEdit
  <2> QED BY <2>1, <2>2 DEF Bench, AskRead, AskCommit, InstantRead, InstantLock, TakeLocks,
                           WithdrawRead, WithdrawCommit
<1>1. Room(c) => ~MidEdit
  BY <1>0, RoomMeansIdle, IdleType DEF MidEdit, Actors
<1>2. job.open => job.agreed \notin job.crew
  BY DEF OfferInv
<1>3. CASE AskRead(c)
  <2>1. job.open /\ handler' = [handler EXCEPT ![c] = [Idle EXCEPT !.pc = "asking", !.seen = request[c]]]
        /\ Room(c)
    BY <1>3 DEF AskRead, Live, Begin
  <2>2. [Idle EXCEPT !.pc = "asking", !.seen = request[c]].pc = "asking"
    BY DEF Idle
  <2> QED BY <1>0, <1>2, <2>1, <2>2, OfferFrame DEF HoldsCopy
<1>4. CASE AskCommit(c)
  <2>1. PICK h : handler' = [handler EXCEPT ![c] = h] /\ h.pc \in {"filed", "idle"}
    BY <1>4, IdleType, ZenonT(40) DEF AskCommit, Idle
  <2>2. job.open /\ handler[c] # Idle
    BY <1>0, <1>4, IdleType DEF AskCommit, OfferInv
  <2> QED BY <1>0, <1>2, <2>1, <2>2, OfferFrame DEF HoldsCopy
<1>5. CASE InstantRead(c)
  <2> DEFINE h == [Idle EXCEPT !.pc = "deciding", !.job = job, !.seen = request[c]]
  <2>1. job.open /\ handler[c] # Idle
    BY <1>0, <1>5, IdleType DEF InstantRead, OfferInv
  <2>2. h.pc = "deciding" /\ h.job = job /\ h.seen = request[c]
    BY DEF Idle
  <2>3. handler' = [handler EXCEPT ![c] = h] /\ request' = request
    BY <1>5 DEF InstantRead
  <2> HIDE DEF h
  <2> QED BY <1>0, <1>2, <2>1, <2>2, <2>3, OfferFrame DEF HoldsCopy
<1>6. CASE InstantLock(c)
  <2> DEFINE h == [Idle EXCEPT !.pc = "approving", !.job = handler[c].job, !.who = c,
                              !.others = Pending \ {c}]
  <2>1. job.open /\ handler[c] # Idle /\ handler[c].job = job
        /\ request'[c] = "pending"
    BY <1>0, <1>6, IdleType DEF InstantLock, TakeLocks, Approvable, OfferInv, HoldsCopy
  <2>2. h.pc = "approving" /\ h.job = handler[c].job /\ h.who = c /\ h.others = Pending \ {c}
    BY DEF Idle
  <2>3. handler' = [handler EXCEPT ![c] = h] /\ Pending' = Pending
    BY <1>6 DEF InstantLock, TakeLocks, Pending
  <2> HIDE DEF h
  <2> QED BY <1>0, <1>2, <2>1, <2>2, <2>3, OfferFrame DEF HoldsCopy
<1>7. CASE WithdrawRead(c)
  <2>1. handler' = [handler EXCEPT ![c] = [Idle EXCEPT !.pc = "withdrawing"]] /\ Room(c)
        /\ Pending' = Pending /\ request'[c] = "pending"
    BY <1>7 DEF WithdrawRead, Begin, Pending
  <2>2. [Idle EXCEPT !.pc = "withdrawing"].pc = "withdrawing"
    BY DEF Idle
  <2>3. job.open \/ Pending = {}
    BY <1>1, <2>1 DEF OfferInv
  <2> QED BY <1>0, <1>2, <2>1, <2>2, <2>3, OfferFrame DEF HoldsCopy
<1>8. CASE WithdrawCommit(c)
  <2>1. handler' = [handler EXCEPT ![c] = Idle] /\ handler[c] # Idle
    BY <1>8, IdleType DEF WithdrawCommit, Finish
  <2>2. Pending' \subseteq Pending
    BY <1>8 DEF WithdrawCommit, Pending, TypeOK
  <2>3. job.open \/ Pending' = {}
    BY <1>0, <2>1, <2>2 DEF OfferInv
  <2> QED BY <1>0, <1>2, <2>1, <2>3, IdleType, OfferFrame DEF HoldsCopy
<1> QED BY <1>3, <1>4, <1>5, <1>6, <1>7, <1>8 DEF Bench

\* So do the commits of update_job.
LEMMA EditKeepsOffer ==
    ASSUME SerialInv, TypeOK', MaxBusy = 1, NEW s \in Staff,
           EditCommit(s) \/ EditRelease(s) \/ EditClose(s)
    PROVE  OfferInv'
<1> USE DEF SerialInv
<1>0. s \in Actors /\ handler[s] # Idle /\ handler[s].job = job
      /\ job \in Job /\ job' \in Job /\ NoOne \notin Cleaners
      /\ handler[s] \in Handler /\ handler \in [Actors -> Handler]
  <2>1. s \in Actors /\ handler[s].pc \in HoldsCopy
    BY DEF Actors, EditCommit, EditRelease, EditClose, HoldsCopy
  <2>2. handler[s].job = job
    BY <2>1 DEF OfferInv
  <2> QED BY <2>1, <2>2, HandlerType, IdleType, ActorAssumption DEF HoldsCopy, TypeOK
<1>1. \A b \in Actors \ {s} : handler[b] = Idle
  BY <1>0 DEF OneBusy
<1>2. CASE EditCommit(s)
  <2>1. PICK new \in Job, crewSent \in BOOLEAN :
          /\ new.agreed = job.agreed
          /\ new.open /\ ~job.open => new.crew = {}
          /\ job' = Flush(job, job, new)
          /\ handler' = [handler EXCEPT ![s] =
                [Idle EXCEPT !.pc = IF crewSent THEN "edited" ELSE "released",
                             !.job = job', !.wasOpen = job.open]]
    BY <1>0, <1>2 DEF EditCommit
  <2>2. job'.open = new.open /\ job'.crew = new.crew /\ job'.agreed = job.agreed
    BY <2>1 DEF Flush
  <2>3. handler[s].pc = "loaded" /\ request' = request
    BY <1>2 DEF EditCommit
  <2>4. ~MidEdit /\ ~Unreleased
    BY <1>1, <2>3, IdleType DEF MidEdit, Unreleased, Actors
  <2>5. Pending' = Pending /\ (job.open \/ Pending = {})
    BY <2>3, <2>4 DEF Pending, OfferInv
  <2>6. job'.open => job'.agreed \notin job'.crew
    <3>1. job.open => job.agreed = NoOne
      BY <2>4 DEF OfferInv, CrewInv
    <3> QED BY <1>0, <2>1, <2>2, <3>1 DEF Job
  <2> DEFINE h == [Idle EXCEPT !.pc = IF crewSent THEN "edited" ELSE "released",
                               !.job = job', !.wasOpen = job.open]
  <2>7. h.pc \in {"edited", "released"} /\ h.job = job' /\ h.wasOpen = job.open
    BY DEF Idle
  <2>8. handler' = [handler EXCEPT ![s] = h]
    BY <2>1
  <2> HIDE DEF h
  <2> QED BY <1>0, <2>5, <2>6, <2>7, <2>8, OfferFrame
<1>3. CASE EditRelease(s)
  <2> DEFINE displaced == {job.agreed} \ (job.crew \cup {NoOne})
  <2>1. /\ job' = IF displaced = {} THEN job ELSE [job EXCEPT !.agreed = NoOne]
        /\ request' = Answer({c \in displaced : request[c] = "approved"}, "declined")
        /\ handler' = [handler EXCEPT ![s].pc = "released",
                         ![s].job = IF displaced = {} THEN @ ELSE job']
        /\ handler[s].pc = "edited"
    BY <1>0, <1>3 DEF EditRelease
  <2> HIDE DEF displaced
  <2>2. job'.open = job.open /\ job'.crew = job.crew /\ job'.agreed \in {job.agreed, NoOne}
    BY <1>0, <2>1 DEF Job
  <2>3. job'.open => job'.agreed \notin job'.crew
    BY <1>0, <2>2 DEF OfferInv, Job
  <2>4. Pending' \subseteq Pending
    BY <2>1, AnswerType DEF Pending, RequestStatus
  <2>5. handler[s].wasOpen \/ Pending' = {}
    BY <1>0, <2>1, <2>4 DEF OfferInv
  <2> DEFINE h == [handler[s] EXCEPT !.pc = "released", !.job = job']
  <2>6. h.pc = "released" /\ h.job = job' /\ h.wasOpen = handler[s].wasOpen
    BY <1>0 DEF Handler
  <2>7. handler' = [handler EXCEPT ![s] = h]
    BY <1>0, <2>1 DEF Handler
  <2> HIDE DEF h
  <2> QED BY <1>0, <2>3, <2>5, <2>6, <2>7, OfferFrame
<1>4. CASE EditClose(s)
  <2>1. handler' = [handler EXCEPT ![s] = Idle] /\ handler[s].pc = "released"
    BY <1>4 DEF EditClose, Finish
  <2>2. (job'.open => job'.agreed \notin job'.crew) /\ (job'.open \/ Pending' = {})
    <3>1. CASE handler[s].wasOpen /\ ~Live(job)
      <4>1. job' = Flush(job, job, [job EXCEPT !.open = FALSE])
            /\ request' = Answer(Pending, "withdrawn")
        BY <1>0, <1>4, <3>1 DEF EditClose
      <4>2. job'.open = FALSE
        BY <1>0, <4>1 DEF Flush, Job
      <4>3. Pending' = {}
        BY <4>1, AnswerType DEF Pending, RequestStatus
      <4> QED BY <4>2, <4>3
    <3>2. CASE ~(handler[s].wasOpen /\ ~Live(job))
      <4>1. job' = job /\ Pending' = Pending
        BY <1>0, <1>4, <3>2 DEF EditClose, Pending
      <4>2. job.open \/ Pending = {}
        BY <1>0, <2>1, <3>2 DEF OfferInv, Live
      <4> QED BY <4>1, <4>2 DEF OfferInv
    <3> QED BY <3>1, <3>2
  <2> QED BY <1>0, <2>1, <2>2, IdleType, OfferFrame DEF HoldsCopy
<1> QED BY <1>2, <1>3, <1>4

\* And the rest of what the office does.
LEMMA OfficeKeepsOffer ==
    ASSUME SerialInv, TypeOK', MaxBusy = 1, Recurring = FALSE, NEW s \in Staff, Office(s)
    PROVE  OfferInv'
<1> USE DEF SerialInv
<1>0. s \in Actors /\ job \in Job
  BY DEF Actors, TypeOK
<1>1. Room(s) => \A a \in Actors : handler[a] = Idle
  BY <1>0, RoomMeansIdle
<1>2. handler[s].pc = "loaded" =>
        /\ handler[s] # Idle /\ handler[s].job = job
        /\ \A b \in Actors \ {s} : handler[b] = Idle
  BY <1>0, IdleType DEF OfferInv, HoldsCopy, OneBusy
<1>3. handler[s].pc = "loaded" \/ Room(s) => ~MidEdit /\ (job.open \/ Pending = {})
  BY <1>1, <1>2, IdleType DEF MidEdit, Actors, OfferInv
<1>4. CASE OfficeLoad(s)
  <2>1. [Idle EXCEPT !.pc = "loaded", !.job = job].pc = "loaded"
        /\ [Idle EXCEPT !.pc = "loaded", !.job = job].job = job
    BY DEF Idle
  <2>2. handler' = [handler EXCEPT ![s] = [Idle EXCEPT !.pc = "loaded", !.job = job]]
        /\ Room(s) /\ job' = job /\ Pending' = Pending
    BY <1>4 DEF OfficeLoad, Begin, Pending
  <2> QED BY <1>0, <1>3, <2>1, <2>2, OfferFrame DEF HoldsCopy, OfferInv
<1>5. CASE EditCommit(s) \/ EditRelease(s) \/ EditClose(s)
  BY <1>5, EditKeepsOffer
<1>6. CASE SkipCommit(s)
  <2>1. handler' = [handler EXCEPT ![s] = Idle] /\ handler[s].pc = "loaded"
        /\ request' = Answer(Pending, "withdrawn")
        /\ job' = Flush(job, job, [job EXCEPT !.status = "cancelled", !.open = FALSE])
    BY <1>2, <1>6 DEF SkipCommit, Finish
  <2>2. job'.open = FALSE
    BY <1>0, <2>1 DEF Flush, Job
  <2>3. Pending' = {}
    BY <2>1, AnswerType DEF Pending, RequestStatus
  <2> QED BY <1>0, <1>2, <2>1, <2>2, <2>3, IdleType, OfferFrame DEF HoldsCopy
<1>7. CASE CompleteCommit(s)
  <2>1. handler' = [handler EXCEPT ![s] = Idle] /\ handler[s].pc = "loaded"
        /\ Pending' = Pending
        /\ job' = Flush(job, job, [job EXCEPT !.status = "completed"])
    BY <1>2, <1>7 DEF CompleteCommit, Finish, Pending
  <2>2. job'.open = job.open /\ job'.crew = job.crew /\ job'.agreed = job.agreed
    BY <1>0, <2>1 DEF Flush, Job
  <2> QED BY <1>0, <1>2, <1>3, <2>1, <2>2, IdleType, OfferFrame DEF HoldsCopy, OfferInv
<1>8. CASE RescheduleCommit(s)
  BY <1>8 DEF RescheduleCommit
<1>9. ASSUME NEW c \in Cleaners, OfficeLock(s, c)
      PROVE  OfferInv'
  <2> DEFINE h == [Idle EXCEPT !.pc = "approving", !.job = handler[s].job, !.who = c,
                              !.others = Pending \ {c}]
  <2>1. handler' = [handler EXCEPT ![s] = h] /\ handler[s].pc = "loaded"
        /\ job' = job /\ Pending' = Pending /\ request'[c] = "pending"
    BY <1>9 DEF OfficeLock, TakeLocks, Approvable, Pending
  <2>2. h.pc = "approving" /\ h.job = handler[s].job /\ h.who = c /\ h.others = Pending \ {c}
    BY DEF Idle
  <2>3. job'.open => job'.agreed \notin job'.crew
    BY <2>1 DEF OfferInv
  <2> HIDE DEF h
  <2> QED BY <1>0, <1>2, <1>3, <2>1, <2>2, <2>3, OfferFrame DEF HoldsCopy
<1>10. ASSUME NEW c \in Cleaners, Decline(s, c)
       PROVE  OfferInv'
  <2>1. handler' = handler /\ job' = job /\ Room(s) /\ Pending' \subseteq Pending
    BY <1>10 DEF Decline, Pending, TypeOK
  <2>2. handler' = [handler EXCEPT ![s] = Idle]
    BY <1>0, <1>1, <2>1 DEF TypeOK
  <2>3. job'.open => job'.agreed \notin job'.crew
    BY <2>1 DEF OfferInv
  <2> QED BY <1>0, <1>3, <2>1, <2>2, <2>3, IdleType, OfferFrame DEF HoldsCopy
<1> QED BY <1>4, <1>5, <1>6, <1>7, <1>8, <1>9, <1>10 DEF Office

\* Every step keeps the offer and the requests together.
LEMMA OfferStep ==
    ASSUME SerialInv, MaxBusy = 1, Recurring = FALSE, HalfEdits = FALSE, [Next]_vars
    PROVE  OfferInv'
<1> USE DEF SerialInv
<1>0. TypeOK' /\ Ticker \in Actors /\ Ticker \notin Staff /\ job \in Job
  BY TypeStep, ActorAssumption DEF Actors, TypeOK
<1>1. ASSUME NEW a \in Actors, handler[a] # Idle,
             handler[a].pc \notin {"edited", "released"}
      PROVE  ~MidEdit /\ (job.open \/ Pending = {})
  BY <1>1, IdleType DEF OneBusy, MidEdit, Actors, OfferInv
<1>2. ASSUME NEW c \in Cleaners, Bench(c)
      PROVE  OfferInv'
  BY <1>2, BenchKeepsOffer
<1>3. ASSUME NEW s \in Staff, Office(s)
      PROVE  OfferInv'
  BY <1>0, <1>3, OfficeKeepsOffer
<1>4. ASSUME NEW a \in Actors, ApproveCommit(a)
      PROVE  OfferInv'
  <2> DEFINE w == handler[a].who
  <2>1. /\ handler[a] # Idle /\ handler[a].job = job /\ w \in Cleaners
        /\ handler[a].others = Pending \ {w}
    BY <1>4, HandlerType, IdleType DEF ApproveCommit, OfferInv, HoldsCopy
  <2>2. handler' = [handler EXCEPT ![a] = Idle]
        /\ request' = [Answer(Pending \ {w}, "declined") EXCEPT ![w] = "approved"]
        /\ job' = Flush(job, job, [job EXCEPT !.crew = @ \cup {w}, !.agreed = w,
                                              !.open = FALSE])
    BY <1>4, <2>1 DEF ApproveCommit, Finish
  <2> HIDE DEF w
  <2>3. job'.open = FALSE
    BY <1>0, <2>2 DEF Flush, Job
  <2>4. Pending' = {}
    BY <2>1, <2>2, AnswerType DEF Pending, RequestStatus
  <2> QED BY <2>1, <2>2, <2>3, <2>4, IdleType, OfferFrame DEF HoldsCopy
<1>5. ASSUME NEW a \in Actors, Abandon(a)
      PROVE  OfferInv'
  <2>1. handler' = [handler EXCEPT ![a] = Idle] /\ handler[a] # Idle
        /\ handler[a].pc \notin {"edited", "released"}
        /\ job' = job /\ Pending' = Pending
    BY <1>5 DEF Abandon, Finish, Pending
  <2> QED BY <1>1, <2>1, IdleType, OfferFrame DEF HoldsCopy, OfferInv
<1>6. CASE SweepRead \/ PostRead
  <2>1. PICK h : /\ handler' = [handler EXCEPT ![Ticker] = h] /\ Room(Ticker)
                 /\ h.pc \in {"sweeping", "posting"}
                 /\ h.pc = "posting" => job.agreed = NoOne
                 /\ job' = job /\ Pending' = Pending
    <3>1. CASE SweepRead
      BY <3>1 DEF SweepRead, Begin, Idle, Pending
    <3>2. CASE PostRead
      BY <3>2 DEF PostRead, Begin, Idle, Pending
    <3> QED BY <1>6, <3>1, <3>2
  <2>2. ~MidEdit
    BY <1>0, <2>1, RoomMeansIdle, IdleType DEF MidEdit, Actors
  <2> QED BY <1>0, <2>1, <2>2, OfferFrame DEF HoldsCopy, OfferInv
<1>7. CASE SweepCommit
  <2>1. handler' = [handler EXCEPT ![Ticker] = Idle] /\ handler[Ticker] # Idle
        /\ job' = [job EXCEPT !.open = FALSE] /\ request' = Answer(Pending, "withdrawn")
    BY <1>7, IdleType DEF SweepCommit, Finish
  <2>2. job'.open = FALSE
    BY <1>0, <2>1 DEF Job
  <2>3. Pending' = {}
    BY <2>1, AnswerType DEF Pending, RequestStatus
  <2> QED BY <1>0, <2>1, <2>2, <2>3, IdleType, OfferFrame DEF HoldsCopy
<1>8. CASE PostCommit
  <2>1. handler' = [handler EXCEPT ![Ticker] = Idle] /\ handler[Ticker] # Idle
        /\ job' = [job EXCEPT !.open = TRUE] /\ job.agreed = NoOne
    BY <1>0, <1>8, IdleType DEF PostCommit, Finish, OfferInv
  <2>2. job'.open = TRUE /\ job'.agreed = NoOne /\ NoOne \notin job'.crew
    BY <1>0, <2>1, ActorAssumption DEF Job
  <2> QED BY <1>0, <2>1, <2>2, IdleType, OfferFrame DEF HoldsCopy
<1>9. CASE DayPasses \/ UNCHANGED vars
  BY <1>9 DEF DayPasses, vars, OfferInv, MidEdit, Pending, HoldsCopy
<1> QED BY <1>2, <1>3, <1>4, <1>5, <1>6, <1>7, <1>8, <1>9 DEF Next

\* The whole invariant of a marketplace served one request at a time.
LEMMA SerialInvariant ==
    ASSUME MaxBusy = 1, Recurring = FALSE, HalfEdits = FALSE
    PROVE  Spec => []SerialInv
<1>1. Init => SerialInv
  <2> SUFFICES ASSUME Init PROVE SerialInv
    OBVIOUS
  <2>1. TypeOK
    BY InitType
  <2>2. OneBusy
    BY DEF Init, OneBusy
  <2>3. CrewInv
    BY IdleType DEF Init, HoldsCopy, CrewInv, NoJob
  <2>4. OfferInv
    BY IdleType DEF Init, HoldsCopy, OfferInv, NoJob, Pending
  <2> QED BY <2>1, <2>2, <2>3, <2>4 DEF SerialInv
<1>2. SerialInv /\ [Next]_vars => SerialInv'
  <2>1. OneBusy => SoleCopy
    BY IdleType DEF OneBusy, SoleCopy, HoldsCopy
  <2> QED BY <2>1, TypeStep, BusyStep, CrewStep, OfferStep DEF SerialInv
<1> QED BY <1>1, <1>2, PTL DEF Spec

\* Served one request at a time, instant claims on or off, the office may
\* approve, reassign, cancel and repost in any order: a job somebody agreed to
\* work is never on offer ...
THEOREM AwardedOffTheBoardSerial ==
    ASSUME MaxBusy = 1, Recurring = FALSE, HalfEdits = FALSE
    PROVE  Spec => []AwardedIsOffTheBoard
<1>1. SerialInv => AwardedIsOffTheBoard
  <2>1. SerialInv => (~MidEdit => ~Unreleased)
    BY DEF SerialInv, OfferInv, MidEdit, Unreleased
  <2> QED BY <2>1 DEF SerialInv, CrewInv, OfferInv, AwardedIsOffTheBoard
<1>2. Spec => []SerialInv
  BY SerialInvariant
<1> QED BY <1>1, <1>2, PTL

\* ... and nobody waits on an offer that is closed.
THEOREM OfferAndRequestsSerial ==
    ASSUME MaxBusy = 1, Recurring = FALSE, HalfEdits = FALSE
    PROVE  Spec => []OfferAndRequestsTogether
<1>1. SerialInv => OfferAndRequestsTogether
  BY DEF SerialInv, OfferInv, OfferAndRequestsTogether
<1>2. Spec => []SerialInv
  BY SerialInvariant
<1> QED BY <1>1, <1>2, PTL

\* One request at a time, the winner is one, on the job, at the agreed rate,
\* whoever claims at once with the office.
THEOREM WinnerSerial ==
    ASSUME MaxBusy = 1, Recurring = FALSE, HalfEdits = FALSE
    PROVE  Spec => [](OneWinner /\ WinnerIsOnTheJob /\ AgreementFollowsCrew)
<1>1. SerialInv => OneWinner /\ WinnerIsOnTheJob /\ AgreementFollowsCrew
  BY CrewInvGives DEF SerialInv, OfferInv
<1>2. Spec => []SerialInv
  BY SerialInvariant
<1> QED BY <1>1, <1>2, PTL

\* Served one request at a time, the marketplace keeps every commitment it made:
\* it takes a second request in flight to break one.
THEOREM CommitmentStandsSerial ==
    ASSUME MaxBusy = 1, Recurring = FALSE, HalfEdits = FALSE
    PROVE  Spec => CommitmentStands
<1>1. SerialInv => ~WithdrawsTooLate
  BY DEF SerialInv, OfferInv, WithdrawsTooLate, WithdrawCommit, Actors
<1> QED BY <1>1, SerialInvariant, CommitmentIsKept, PTL

-----------------------------------------------------------------------------
(* Nobody waits on a closed offer, whatever overlaps *)

\* A request is filed on an offer that closed since its cleaner read it open.
AsksTooLate == \E c \in Cleaners : AskCommit(c) /\ ~job.open

\* An approval leaves somebody waiting who asked since it took its locks.
OverlooksARival ==
    \E a \in Actors :
        /\ ApproveCommit(a)
        /\ ~(Pending \subseteq handler[a].others \cup {handler[a].who})

\* An edit took the offer down and has yet to answer those who wait.
Closing ==
    \E s \in Staff :
        /\ handler[s].pc \in {"edited", "released"}
        /\ handler[s].wasOpen /\ ~handler[s].job.open

\* Whoever waits has an open offer to wait on, or an edit that will answer.
WaitInv == Pending # {} => job.open \/ Closing

\* A step of a handler that is not editing, which neither closes the offer nor
\* lets anybody wait, keeps that.
LEMMA WaitUntouched ==
    ASSUME TypeOK, WaitInv, NEW a \in Actors, NEW h,
           handler' = [handler EXCEPT ![a] = h],
           handler[a].pc \notin {"edited", "released"},
           job'.open = job.open, Pending' \subseteq Pending
    PROVE  WaitInv'
<1>1. \A b \in Actors \ {a} : handler'[b] = handler[b]
  BY DEF TypeOK
<1>2. Closing => Closing'
  BY <1>1 DEF Closing, Actors
<1> QED BY <1>2 DEF WaitInv

\* The bench keeps it, unless it asks too late.
LEMMA BenchKeepsWait ==
    ASSUME TypeOK, WaitInv, ~AsksTooLate, NEW c \in Cleaners, Bench(c)
    PROVE  WaitInv'
<1>0. c \in Actors
  BY DEF Actors
<1>1. CASE AskRead(c) \/ InstantRead(c) \/ InstantLock(c) \/ WithdrawRead(c)
  <2>1. /\ job' = job /\ Pending' = Pending
        /\ handler[c].pc \notin {"edited", "released"}
    BY <1>1, IdleType DEF AskRead, InstantRead, InstantLock, TakeLocks, WithdrawRead,
                          Begin, Room, Pending
  <2>2. \E h : handler' = [handler EXCEPT ![c] = h]
    BY <1>1 DEF AskRead, InstantRead, InstantLock, TakeLocks, WithdrawRead, Begin
  <2> QED BY <1>0, <2>1, <2>2, WaitUntouched
<1>2. CASE AskCommit(c)
  BY <1>2 DEF AskCommit, AsksTooLate, WaitInv
<1>3. CASE WithdrawCommit(c)
  <2>1. job' = job /\ Pending' \subseteq Pending
    BY <1>3 DEF WithdrawCommit, Pending, TypeOK
  <2>2. handler' = [handler EXCEPT ![c] = Idle] /\ handler[c].pc \notin {"edited", "released"}
    BY <1>3 DEF WithdrawCommit, Finish
  <2> QED BY <1>0, <2>1, <2>2, WaitUntouched
<1> QED BY <1>1, <1>2, <1>3 DEF Bench

\* The commits of update_job keep it: the one that takes the offer down remembers
\* that it was open, and the last one answers everybody.
LEMMA EditKeepsWait ==
    ASSUME TypeOK, WaitInv, NEW s \in Staff,
           EditCommit(s) \/ EditRelease(s) \/ EditClose(s)
    PROVE  WaitInv'
<1>0. /\ s \in Actors /\ job \in Job /\ handler[s].job \in Job
      /\ handler[s] \in Handler /\ handler \in [Actors -> Handler] /\ Staff \subseteq Actors
  BY HandlerType DEF Actors, TypeOK
<1>1. CASE EditCommit(s)
  <2>1. PICK new \in Job, crewSent \in BOOLEAN :
          /\ job' = Flush(job, handler[s].job, new)
          /\ handler' = [handler EXCEPT ![s] =
                [Idle EXCEPT !.pc = IF crewSent THEN "edited" ELSE "released",
                             !.job = job', !.wasOpen = handler[s].job.open]]
    BY <1>1 DEF EditCommit
  <2>2. /\ handler'[s].pc \in {"edited", "released"}
        /\ handler'[s].job = job' /\ handler'[s].wasOpen = handler[s].job.open
        /\ \A b \in Actors \ {s} : handler'[b] = handler[b]
    BY <1>0, <2>1 DEF Idle
  <2>3. handler[s].pc = "loaded" /\ Pending' = Pending
    BY <1>1 DEF EditCommit, Pending
  <2>4. job.open /\ ~job'.open => handler[s].job.open
    BY <1>0, <2>1 DEF Flush, Job
  <2>5. job.open => job'.open \/ Closing'
    BY <2>2, <2>4 DEF Closing
  <2>6. Closing => Closing'
    BY <1>0, <2>2, <2>3 DEF Closing
  <2> QED BY <2>3, <2>5, <2>6 DEF WaitInv
<1>2. CASE EditRelease(s)
  <2> DEFINE displaced == {handler[s].job.agreed} \ (handler[s].job.crew \cup {NoOne})
  <2>1. /\ job' = IF displaced = {} THEN job ELSE [job EXCEPT !.agreed = NoOne]
        /\ request' = Answer({c \in displaced : request[c] = "approved"}, "declined")
        /\ handler' = [handler EXCEPT ![s].pc = "released",
                         ![s].job = IF displaced = {} THEN @ ELSE job']
    BY <1>2 DEF EditRelease
  <2> HIDE DEF displaced
  <2>2. job'.open = job.open
    BY <1>0, <2>1 DEF Job
  <2>3. Pending' \subseteq Pending
    BY <2>1, AnswerType DEF Pending, RequestStatus
  <2>4. /\ handler'[s].pc = "released" /\ handler'[s].wasOpen = handler[s].wasOpen
        /\ handler'[s].job \in {handler[s].job, job'}
        /\ \A b \in Actors \ {s} : handler'[b] = handler[b]
    BY <1>0, <2>1 DEF Handler
  <2>5. Closing /\ ~job.open => Closing'
    BY <1>0, <2>2, <2>4 DEF Closing
  <2> QED BY <2>2, <2>3, <2>5 DEF WaitInv
<1>3. CASE EditClose(s)
  <2>1. CASE handler[s].wasOpen /\ ~Live(handler[s].job)
    <3>1. Pending' = {}
      BY <1>3, <2>1, AnswerType DEF EditClose, Pending, RequestStatus
    <3> QED BY <3>1 DEF WaitInv
  <2>2. CASE ~(handler[s].wasOpen /\ ~Live(handler[s].job))
    <3>1. job' = job /\ Pending' = Pending
      BY <1>3, <2>2 DEF EditClose, Pending
    <3>2. \A b \in Actors \ {s} : handler'[b] = handler[b]
      BY <1>0, <1>3 DEF EditClose, Finish
    <3>3. Closing => Closing'
      BY <1>0, <2>2, <3>2 DEF Closing, Live
    <3> QED BY <3>1, <3>3 DEF WaitInv
  <2> QED BY <2>1, <2>2
<1> QED BY <1>1, <1>2, <1>3

\* So does the rest of what the office does.
LEMMA OfficeKeepsWait ==
    ASSUME TypeOK, WaitInv, NEW s \in Staff, Office(s)
    PROVE  WaitInv'
<1>0. s \in Actors /\ job \in Job /\ handler[s].job \in Job
  BY HandlerType DEF Actors, TypeOK
<1>1. CASE OfficeLoad(s)
  <2>1. /\ job' = job /\ Pending' = Pending /\ handler[s].pc \notin {"edited", "released"}
        /\ \E h : handler' = [handler EXCEPT ![s] = h]
    BY <1>1, IdleType DEF OfficeLoad, Begin, Room, Pending
  <2> QED BY <1>0, <2>1, WaitUntouched
<1>2. CASE EditCommit(s) \/ EditRelease(s) \/ EditClose(s)
  BY <1>2, EditKeepsWait
<1>3. CASE SkipCommit(s)
  <2>1. Pending' = {}
    BY <1>3, AnswerType DEF SkipCommit, Pending, RequestStatus
  <2> QED BY <2>1 DEF WaitInv
<1>4. CASE CompleteCommit(s) \/ RescheduleCommit(s)
  <2>1. job'.open = job.open
    <3>1. CASE CompleteCommit(s)
      BY <1>0, <3>1 DEF CompleteCommit, Flush, Job
    <3>2. CASE RescheduleCommit(s)
      <4>1. PICK crew \in SUBSET Cleaners :
              job' = Flush(job, handler[s].job,
                       [handler[s].job EXCEPT !.crew = crew,
                          !.status = IF @ = "cancelled" THEN "scheduled" ELSE @])
        BY <3>2 DEF RescheduleCommit
      <4> QED BY <1>0, <4>1 DEF Flush, Job
    <3> QED BY <1>4, <3>1, <3>2
  <2>2. /\ Pending' = Pending /\ handler[s].pc \notin {"edited", "released"}
        /\ handler' = [handler EXCEPT ![s] = Idle]
    BY <1>4 DEF CompleteCommit, RescheduleCommit, Finish, Pending
  <2> QED BY <1>0, <2>1, <2>2, WaitUntouched
<1>5. ASSUME NEW c \in Cleaners, OfficeLock(s, c)
      PROVE  WaitInv'
  <2>1. /\ job' = job /\ Pending' = Pending /\ handler[s].pc \notin {"edited", "released"}
        /\ \E h : handler' = [handler EXCEPT ![s] = h]
    BY <1>5 DEF OfficeLock, TakeLocks, Pending
  <2> QED BY <1>0, <2>1, WaitUntouched
<1>6. ASSUME NEW c \in Cleaners, Decline(s, c)
      PROVE  WaitInv'
  <2>1. job' = job /\ handler' = handler /\ Pending' \subseteq Pending
    BY <1>6 DEF Decline, Pending, TypeOK
  <2> QED BY <2>1 DEF WaitInv, Closing
<1> QED BY <1>1, <1>2, <1>3, <1>4, <1>5, <1>6 DEF Office

\* And every step, when no edit is cut in half and nobody is overlooked.
LEMMA WaitStep ==
    ASSUME TypeOK, WaitInv, HalfEdits = FALSE, ~AsksTooLate, ~OverlooksARival, Next
    PROVE  WaitInv'
<1>0. Ticker \in Actors /\ job \in Job
  BY DEF Actors, TypeOK
<1>1. ASSUME NEW c \in Cleaners, Bench(c)
      PROVE  WaitInv'
  BY <1>1, BenchKeepsWait
<1>2. ASSUME NEW s \in Staff, Office(s)
      PROVE  WaitInv'
  BY <1>2, OfficeKeepsWait
<1>3. ASSUME NEW a \in Actors, ApproveCommit(a)
      PROVE  WaitInv'
  <2>1. Pending \subseteq handler[a].others \cup {handler[a].who}
    BY <1>3 DEF OverlooksARival
  <2>2. request' = [Answer(handler[a].others, "declined")
                      EXCEPT ![handler[a].who] = "approved"]
    BY <1>3 DEF ApproveCommit
  <2>3. Pending' = {}
    BY <2>1, <2>2, AnswerType DEF Pending, RequestStatus
  <2> QED BY <2>3 DEF WaitInv
<1>4. ASSUME NEW a \in Actors, Abandon(a)
      PROVE  WaitInv'
  <2>1. /\ job' = job /\ Pending' = Pending /\ handler[a].pc \notin {"edited", "released"}
        /\ handler' = [handler EXCEPT ![a] = Idle]
    BY <1>4 DEF Abandon, Finish, Pending
  <2> QED BY <2>1, WaitUntouched
<1>5. CASE SweepRead \/ PostRead
  <2>1. /\ job' = job /\ Pending' = Pending
        /\ handler[Ticker].pc \notin {"edited", "released"}
        /\ \E h : handler' = [handler EXCEPT ![Ticker] = h]
    BY <1>5, IdleType DEF SweepRead, PostRead, Begin, Room, Pending
  <2> QED BY <1>0, <2>1, WaitUntouched
<1>6. CASE SweepCommit
  <2>1. Pending' = {}
    BY <1>6, AnswerType DEF SweepCommit, Pending, RequestStatus
  <2> QED BY <2>1 DEF WaitInv
<1>7. CASE PostCommit
  BY <1>0, <1>7 DEF PostCommit, Job, WaitInv
<1>8. CASE DayPasses
  BY <1>8 DEF DayPasses, WaitInv, Pending, Closing
<1> QED BY <1>1, <1>2, <1>3, <1>4, <1>5, <1>6, <1>7, <1>8 DEF Next

\* Requests wait only on an open offer (close_offer), for any bench, number of
\* office users and overlap, instant claims on or off, a visit of a series or not:
\* only a request filed on an offer that has closed since, or an approval that does
\* not see the last request, leaves somebody waiting for nothing.
THEOREM NobodyWaitsOnAClosedOffer ==
    ASSUME HalfEdits = FALSE
    PROVE  Spec /\ [][~AsksTooLate /\ ~OverlooksARival]_vars => []OfferAndRequestsTogether
<1>1. Init => TypeOK /\ WaitInv
  BY InitType DEF Init, WaitInv, Pending
<1>2. TypeOK /\ WaitInv /\ [Next]_vars /\ [~AsksTooLate /\ ~OverlooksARival]_vars =>
        TypeOK' /\ WaitInv'
  <2>1. UNCHANGED vars /\ WaitInv => WaitInv'
    BY DEF vars, WaitInv, Pending, Closing
  <2> QED BY <2>1, TypeStep, WaitStep
<1>3. WaitInv => OfferAndRequestsTogether
  BY DEF WaitInv, OfferAndRequestsTogether, Closing, MidEdit
<1> QED BY <1>1, <1>2, <1>3, PTL DEF Spec

-----------------------------------------------------------------------------
(* The winner, the crew and the rate, whatever overlaps *)

\* The copy of the job in a handler's session is right about the crew and the rate.
Current(a) == handler[a].job.crew = job.crew /\ handler[a].job.agreed = job.agreed

TakesLocks(a) == handler[a].pc # "approving" /\ handler'[a].pc = "approving"

\* An edit's first commit is out and release_if_displaced has not run yet.
Unsettled == \E s \in Staff : handler[s].pc = "edited"

\* approve() checks a crew and a rate its session has held since before the lock.
OverlooksTheCrew == \E a \in Actors : TakesLocks(a) /\ ~Current(a)

\* approve() starts between the commits of update_job.
OverlooksAnEdit == \E a \in Actors : TakesLocks(a) /\ Unsettled

\* An approval goes by the crew and the rate as they are; and the rate is that of
\* somebody on the job, or an edit that has the job as it is is about to take it off.
RateInv ==
    /\ \A a \in Actors : handler[a].pc = "approving" =>
         /\ lock.by = a /\ Current(a)
         /\ handler[a].job.open /\ job.crew \subseteq {handler[a].who}
    /\ \/ job.agreed \in job.crew \cup {NoOne}
       \/ \E s \in Staff : handler[s].pc = "edited" /\ Current(s)

\* Whoever is approved is the one whose rate the job has; a rate that an edit is about
\* to take off the job is the one it knows of; and meanwhile nobody is approving.
WinnerInv ==
    /\ \A a \in Actors : handler[a].pc = "approving" => ~Unsettled
    /\ \A c \in Cleaners : request[c] = "approved" => job.agreed = c
    /\ \A s \in Staff : handler[s].pc = "edited" => job.agreed \in {handler[s].job.agreed, NoOne}

\* A step keeps the rate in order; and the winner, if no approval overlooks an edit.
KeepsOrder == RateInv' /\ (WinnerInv /\ ~OverlooksAnEdit => WinnerInv')

\* While the job is free nobody is approving.
LEMMA FreeMeansNobody ==
    ASSUME RateInv, JobFree
    PROVE  \A a \in Actors : handler[a].pc # "approving"
BY ActorAssumption DEF RateInv, JobFree, Actors

\* A handler that neither edits nor approves and writes neither the crew nor the
\* rate keeps all that, when it approves nobody and leaves the others' locks.
LEMMA OrderUntouched ==
    ASSUME TypeOK, RateInv, NEW a \in Actors, NEW h,
           handler' = [handler EXCEPT ![a] = h],
           handler[a].pc # "edited", h.pc \notin {"edited", "approving"},
           job'.crew = job.crew, job'.agreed = job.agreed,
           \A c \in Cleaners : request'[c] = "approved" => request[c] = "approved",
           \A b \in Actors \ {a} : handler[b].pc = "approving" => lock'.by = lock.by
    PROVE  KeepsOrder
<1>1. \A b \in Actors : handler'[b] = IF b = a THEN h ELSE handler[b]
  BY DEF TypeOK
<1>2. \A s \in Staff : handler'[s].pc = "edited" <=> handler[s].pc = "edited"
  BY <1>1 DEF Actors
<1>3. \A b \in Actors : handler'[b].pc \in {"edited", "approving"} =>
          handler'[b] = handler[b] /\ (Current(b) => Current(b)')
  BY <1>1 DEF Current
<1>4. \A b \in Actors : handler'[b].pc = "approving" =>
         /\ lock'.by = b /\ Current(b)'
         /\ handler'[b].job.open /\ job'.crew \subseteq {handler'[b].who}
  BY <1>1, <1>3 DEF RateInv
<1>5. \/ job'.agreed \in job'.crew \cup {NoOne}
      \/ \E s \in Staff : handler'[s].pc = "edited" /\ Current(s)'
  BY <1>2, <1>3 DEF RateInv, Actors
<1>6. ASSUME WinnerInv
      PROVE  WinnerInv'
  <2>1. \A b \in Actors : handler'[b].pc = "approving" => ~Unsettled'
    BY <1>1, <1>2, <1>6 DEF WinnerInv, Unsettled
  <2>2. \A s \in Staff : handler'[s].pc = "edited" =>
            job'.agreed \in {handler'[s].job.agreed, NoOne}
    BY <1>2, <1>3, <1>6 DEF WinnerInv, Actors
  <2> QED BY <1>6, <2>1, <2>2 DEF WinnerInv
<1> QED BY <1>4, <1>5, <1>6 DEF RateInv, KeepsOrder

\* The locks are taken on a job that is as the session has it.
LEMMA LocksKeepWinner ==
    ASSUME TypeOK, RateInv, ~OverlooksTheCrew,
           NEW a \in Actors, NEW c \in Cleaners, NEW status,
           handler[a].pc \in {"loaded", "deciding"},
           TakeLocks(a, c, handler[a].job, status)
    PROVE  KeepsOrder
<1> DEFINE h == [Idle EXCEPT !.pc = "approving", !.job = handler[a].job, !.who = c,
                            !.others = Pending \ {c}]
<1>1. /\ JobFree /\ lock' = [by |-> a, request |-> c] /\ job' = job /\ request' = request
      /\ handler[a].job.open /\ handler[a].job.crew \subseteq {c}
      /\ handler' = [handler EXCEPT ![a] = h]
  BY DEF TakeLocks, Approvable
<1>2. h.pc = "approving" /\ h.job = handler[a].job /\ h.who = c
  BY DEF Idle
<1> HIDE DEF h
<1>3. \A b \in Actors : handler'[b] = IF b = a THEN h ELSE handler[b]
  BY <1>1 DEF TypeOK
<1>4. Current(a) /\ Current(a)'
  BY <1>1, <1>2, <1>3 DEF OverlooksTheCrew, TakesLocks, Current
<1>5. \A b \in Actors : handler'[b].pc = "approving" => b = a
  BY <1>1, <1>3, FreeMeansNobody
<1>6. \A s \in Staff : s # a => (Current(s) => Current(s)') /\ handler'[s] = handler[s]
  BY <1>1, <1>3 DEF Current, Actors
<1>7. RateInv'
  BY <1>1, <1>2, <1>3, <1>4, <1>5, <1>6 DEF RateInv, Current
<1>8. ASSUME WinnerInv, ~OverlooksAnEdit
      PROVE  WinnerInv'
  <2>1. ~Unsettled
    BY <1>2, <1>3, <1>8 DEF OverlooksAnEdit, TakesLocks
  <2>2. ~Unsettled'
    BY <1>2, <1>3, <2>1 DEF Unsettled, Actors
  <2> QED BY <1>1, <1>8, <2>2 DEF WinnerInv, Unsettled
<1> QED BY <1>7, <1>8 DEF KeepsOrder

\* The bench.
LEMMA BenchKeepsOrder ==
    ASSUME TypeOK, RateInv, ~OverlooksTheCrew,
           NEW c \in Cleaners, Bench(c)
    PROVE  KeepsOrder
<1>0. c \in Actors
  BY DEF Actors
<1>1. CASE InstantLock(c)
  BY <1>0, <1>1, LocksKeepWinner DEF InstantLock
<1>2. CASE AskRead(c) \/ AskCommit(c) \/ InstantRead(c) \/ WithdrawRead(c) \/ WithdrawCommit(c)
  <2>1. /\ job' = job /\ lock' = lock /\ handler[c].pc # "edited"
        /\ \A d \in Cleaners : request'[d] = "approved" => request[d] = "approved"
    BY <1>2, IdleType DEF AskRead, AskCommit, InstantRead, WithdrawRead, WithdrawCommit,
                          Begin, Room, TypeOK
  <2>2. PICK h :
          /\ handler' = [handler EXCEPT ![c] = h]
          /\ h.pc \in {"asking", "filed", "deciding", "withdrawing", "idle"}
    <3>1. CASE AskRead(c)
      <4>1. [Idle EXCEPT !.pc = "asking", !.seen = request[c]].pc = "asking"
        BY DEF Idle
      <4> QED BY <3>1, <4>1, Zenon DEF AskRead, Begin
    <3>2. CASE AskCommit(c)
      <4>1. [Idle EXCEPT !.pc = "filed"].pc = "filed"
        BY DEF Idle
      <4> QED BY <3>2, <4>1, IdleType, Zenon DEF AskCommit
    <3>3. CASE InstantRead(c)
      <4>1. [Idle EXCEPT !.pc = "deciding", !.job = job, !.seen = request[c]].pc = "deciding"
        BY DEF Idle
      <4> QED BY <3>3, <4>1, Zenon DEF InstantRead
    <3>4. CASE WithdrawRead(c)
      <4>1. [Idle EXCEPT !.pc = "withdrawing"].pc = "withdrawing"
        BY DEF Idle
      <4> QED BY <3>4, <4>1, Zenon DEF WithdrawRead, Begin
    <3>5. CASE WithdrawCommit(c)
      BY <3>5, IdleType, Zenon DEF WithdrawCommit, Finish
    <3> QED BY <1>2, <3>1, <3>2, <3>3, <3>4, <3>5
  <2> QED BY <1>0, <2>1, <2>2, OrderUntouched
<1> QED BY <1>1, <1>2 DEF Bench

\* The first commit of update_job writes a crew; the handler that wrote it has the
\* job as it left it, and has yet to let go of whoever is off it.
LEMMA EditKeepsOrder ==
    ASSUME TypeOK, RateInv, NEW s \in Staff, EditCommit(s)
    PROVE  KeepsOrder
<1>0. s \in Actors /\ handler[s].pc = "loaded" /\ request' = request /\ JobFree
      /\ handler[s].job \in Job /\ job \in Job
  BY HandlerType DEF EditCommit, Actors, TypeOK
<1>1. PICK new \in Job, crewSent \in BOOLEAN :
        /\ new.agreed = handler[s].job.agreed
        /\ new.crew # handler[s].job.crew => crewSent
        /\ job' = Flush(job, handler[s].job, new)
        /\ handler' = [handler EXCEPT ![s] =
              [Idle EXCEPT !.pc = IF crewSent THEN "edited" ELSE "released",
                           !.job = job', !.wasOpen = handler[s].job.open]]
  BY DEF EditCommit
<1>2. job'.agreed = job.agreed /\ (~crewSent => job'.crew = job.crew)
  BY <1>1 DEF Flush
<1>3. /\ \A b \in Actors \ {s} : handler'[b] = handler[b]
      /\ handler'[s].job = job'
      /\ handler'[s].pc = IF crewSent THEN "edited" ELSE "released"
  BY <1>0, <1>1 DEF TypeOK, Idle
<1>4. \A b \in Actors : handler'[b].pc # "approving"
  BY <1>0, <1>3, FreeMeansNobody
<1>5. ASSUME WinnerInv
      PROVE  WinnerInv'
  <2>1. \A t \in Staff : handler'[t].pc = "edited" =>
            job'.agreed \in {handler'[t].job.agreed, NoOne}
    BY <1>2, <1>3, <1>5 DEF WinnerInv, Actors
  <2> QED BY <1>0, <1>2, <1>4, <1>5, <2>1 DEF WinnerInv
<1>6. \/ job'.agreed \in job'.crew \cup {NoOne}
      \/ \E t \in Staff : handler'[t].pc = "edited" /\ Current(t)'
  <2>1. CASE crewSent
    BY <1>3, <2>1 DEF Current
  <2>2. CASE ~crewSent
    BY <1>0, <1>2, <1>3, <2>2 DEF RateInv, Current, Actors
  <2> QED BY <2>1, <2>2
<1> QED BY <1>4, <1>5, <1>6 DEF RateInv, KeepsOrder

\* The second lets go of the agreement and of the approved request together.
LEMMA ReleaseKeepsOrder ==
    ASSUME TypeOK, RateInv, NEW s \in Staff, EditRelease(s)
    PROVE  KeepsOrder
<1> DEFINE displaced == {handler[s].job.agreed} \ (handler[s].job.crew \cup {NoOne})
<1>0. s \in Actors /\ handler[s].pc = "edited" /\ NoOne \notin Cleaners /\ JobFree
      /\ job \in Job /\ handler[s] \in Handler /\ handler \in [Actors -> Handler]
  BY HandlerType, ActorAssumption DEF EditRelease, Actors, TypeOK
<1>1. /\ job' = IF displaced = {} THEN job ELSE [job EXCEPT !.agreed = NoOne]
      /\ request' = Answer({c \in displaced : request[c] = "approved"}, "declined")
      /\ handler' = [handler EXCEPT ![s].pc = "released",
                       ![s].job = IF displaced = {} THEN @ ELSE job']
  BY DEF EditRelease
<1>2. displaced # {} => displaced = {handler[s].job.agreed}
  OBVIOUS
<1>3. Current(s) => displaced = {job.agreed} \ (job.crew \cup {NoOne})
  BY DEF Current
<1> HIDE DEF displaced
<1>4. job'.crew = job.crew /\ job'.agreed = IF displaced = {} THEN job.agreed ELSE NoOne
  BY <1>0, <1>1 DEF Job
<1>5. handler'[s].pc = "released" /\ \A b \in Actors \ {s} : handler'[b] = handler[b]
  BY <1>0, <1>1 DEF Handler
<1>6. \A b \in Actors : handler'[b].pc # "approving"
  BY <1>0, <1>5, FreeMeansNobody
<1>7. ASSUME WinnerInv
      PROVE  WinnerInv'
  <2>1. ASSUME NEW c \in Cleaners, request'[c] = "approved"
        PROVE  job'.agreed = c
    <3>1. request[c] = "approved" /\ c \notin displaced
      BY <1>1, <2>1, AnswerType DEF RequestStatus
    <3>2. job.agreed = c /\ handler[s].job.agreed = c
      BY <1>0, <1>7, <3>1 DEF WinnerInv
    <3> QED BY <1>2, <1>4, <3>1, <3>2
  <2>2. \A t \in Staff : handler'[t].pc = "edited" =>
            job'.agreed \in {handler'[t].job.agreed, NoOne}
    BY <1>4, <1>5, <1>7 DEF WinnerInv, Actors
  <2> QED BY <1>6, <2>1, <2>2 DEF WinnerInv
<1>8. \/ job'.agreed \in job'.crew \cup {NoOne}
      \/ \E t \in Staff : handler'[t].pc = "edited" /\ Current(t)'
  <2>1. CASE displaced = {}
    <3>1. job' = job
      BY <1>1, <2>1
    <3>2. ASSUME NEW t \in Staff, handler[t].pc = "edited", Current(t),
                 job.agreed \notin job.crew \cup {NoOne}
          PROVE  handler'[t].pc = "edited" /\ Current(t)'
      <4>1. t # s
        BY <1>3, <2>1, <3>2
      <4> QED BY <1>5, <3>1, <3>2, <4>1 DEF Current, Actors
    <3> QED BY <3>1, <3>2 DEF RateInv
  <2>2. CASE displaced # {}
    BY <1>4, <2>2
  <2> QED BY <2>1, <2>2
<1> QED BY <1>6, <1>7, <1>8 DEF RateInv, KeepsOrder

\* The winner was the only one who could be on the job, and is on it afterwards.
LEMMA ApprovalKeepsOrder ==
    ASSUME TypeOK, RateInv, NEW a \in Actors, ApproveCommit(a)
    PROVE  KeepsOrder /\ job'.open = FALSE
<1> DEFINE loaded == handler[a].job
           w == handler[a].who
           new == [loaded EXCEPT !.crew = @ \cup {w}, !.agreed = w, !.open = FALSE]
<1>0. handler[a].pc = "approving" /\ w \in Cleaners /\ NoOne \notin Cleaners
      /\ job \in Job /\ loaded \in Job
  BY HandlerType, ActorAssumption DEF ApproveCommit, TypeOK
<1>1. /\ loaded.crew = job.crew /\ loaded.agreed = job.agreed /\ loaded.open
      /\ job.crew \subseteq {w}
      /\ \A b \in Actors : handler[b].pc = "approving" => b = a
  BY <1>0 DEF RateInv, Current
<1>2. /\ job' = Flush(job, loaded, new)
      /\ request' = [Answer(handler[a].others, "declined") EXCEPT ![w] = "approved"]
      /\ handler' = [handler EXCEPT ![a] = Idle]
  BY DEF ApproveCommit, Finish
<1>3. \A b \in Actors : handler'[b] = IF b = a THEN Idle ELSE handler[b]
  BY <1>2 DEF TypeOK
<1>4. new.crew = {w} /\ new.agreed = w /\ new.open = FALSE
  BY <1>0, <1>1 DEF Job
<1> HIDE DEF new, loaded
<1>5. job'.agreed = w /\ job'.crew = {w} /\ job'.open = FALSE
  BY <1>1, <1>2, <1>4 DEF Flush
<1>6. \A b \in Actors : handler'[b].pc # "approving"
  BY <1>1, <1>3, IdleType
<1>7. ASSUME WinnerInv
      PROVE  WinnerInv'
  <2>1. \A t \in Staff : handler[t].pc # "edited"
    BY <1>0, <1>7 DEF WinnerInv, Unsettled
  <2>2. \A t \in Staff : handler'[t].pc # "edited"
    BY <1>3, <2>1, IdleType DEF Actors
  <2>3. job.agreed \in {w, NoOne}
    BY <1>1, <2>1 DEF RateInv
  <2>4. ASSUME NEW d \in Cleaners, request'[d] = "approved"
        PROVE  d = w
    <3>1. d # w => request[d] = "approved"
      BY <1>0, <1>2, <2>4, AnswerType DEF RequestStatus
    <3> QED BY <1>0, <1>7, <2>3, <3>1 DEF WinnerInv
  <2> HIDE DEF w
  <2> QED BY <1>5, <1>6, <2>2, <2>4 DEF WinnerInv
<1> HIDE DEF w
<1> QED BY <1>5, <1>6, <1>7 DEF RateInv, KeepsOrder

\* The office.
LEMMA OfficeKeepsOrder ==
    ASSUME TypeOK, RateInv, Recurring = FALSE, ~OverlooksTheCrew,
           NEW s \in Staff, Office(s)
    PROVE  KeepsOrder
<1>0. s \in Actors /\ job \in Job /\ handler[s].job \in Job
  BY HandlerType DEF Actors, TypeOK
<1>1. CASE OfficeLoad(s)
  <2>1. /\ job' = job /\ lock' = lock /\ request' = request /\ handler[s].pc # "edited"
    BY <1>1, IdleType DEF OfficeLoad, Begin, Room
  <2>2. [Idle EXCEPT !.pc = "loaded", !.job = job].pc = "loaded"
    BY DEF Idle
  <2>3. handler' = [handler EXCEPT ![s] = [Idle EXCEPT !.pc = "loaded", !.job = job]]
    BY <1>1 DEF OfficeLoad, Begin
  <2> QED BY <1>0, <2>1, <2>2, <2>3, OrderUntouched
<1>2. CASE EditCommit(s)
  BY <1>2, EditKeepsOrder
<1>3. CASE EditRelease(s)
  BY <1>3, ReleaseKeepsOrder
<1>4. CASE EditClose(s) \/ SkipCommit(s) \/ CompleteCommit(s)
  <2>1. job'.crew = job.crew /\ job'.agreed = job.agreed
    <3>1. CASE EditClose(s)
      <4>1. \/ job' = job
            \/ job' = Flush(job, handler[s].job, [handler[s].job EXCEPT !.open = FALSE])
        BY <3>1 DEF EditClose
      <4>2. CASE job' = Flush(job, handler[s].job, [handler[s].job EXCEPT !.open = FALSE])
        BY <1>0, <4>2 DEF Flush, Job
      <4> QED BY <4>1, <4>2
    <3>2. CASE SkipCommit(s)
      BY <1>0, <3>2 DEF SkipCommit, Flush, Job
    <3>3. CASE CompleteCommit(s)
      BY <1>0, <3>3 DEF CompleteCommit, Flush, Job
    <3> QED BY <1>4, <3>1, <3>2, <3>3
  <2>2. handler[s].pc # "edited" /\ handler' = [handler EXCEPT ![s] = Idle] /\ lock' = lock
    BY <1>4 DEF EditClose, SkipCommit, CompleteCommit, Finish
  <2>3. request' = request \/ request' = Answer(Pending, "withdrawn")
    BY <1>4 DEF EditClose, SkipCommit, CompleteCommit
  <2>4. \A c \in Cleaners : request'[c] = "approved" => request[c] = "approved"
    BY <2>3, AnswerType DEF RequestStatus
  <2> QED BY <1>0, <2>1, <2>2, <2>4, IdleType, OrderUntouched
<1>5. CASE RescheduleCommit(s)
  BY <1>5 DEF RescheduleCommit
<1>6. ASSUME NEW c \in Cleaners, OfficeLock(s, c)
      PROVE  KeepsOrder
  BY <1>0, <1>6, LocksKeepWinner DEF OfficeLock
<1>7. ASSUME NEW c \in Cleaners, Decline(s, c)
      PROVE  KeepsOrder
  <2>1. job' = job /\ handler' = handler /\ lock' = lock
        /\ \A d \in Cleaners : request'[d] = "approved" => request[d] = "approved"
    BY <1>7 DEF Decline, TypeOK
  <2> QED BY <2>1 DEF RateInv, WinnerInv, KeepsOrder, Current, Unsettled
<1> QED BY <1>1, <1>2, <1>3, <1>4, <1>5, <1>6, <1>7 DEF Office

\* Every step that does not overlook the crew.
LEMMA OrderStep ==
    ASSUME TypeOK, RateInv, Recurring = FALSE, HalfEdits = FALSE,
           ~OverlooksTheCrew, Next
    PROVE  KeepsOrder
<1>0. Ticker \in Actors /\ job \in Job
  BY DEF Actors, TypeOK
<1>1. ASSUME NEW c \in Cleaners, Bench(c)
      PROVE  KeepsOrder
  BY <1>1, BenchKeepsOrder
<1>2. ASSUME NEW s \in Staff, Office(s)
      PROVE  KeepsOrder
  BY <1>2, OfficeKeepsOrder
<1>3. ASSUME NEW a \in Actors, ApproveCommit(a)
      PROVE  KeepsOrder
  BY <1>3, ApprovalKeepsOrder
<1>4. ASSUME NEW a \in Actors, Abandon(a)
      PROVE  KeepsOrder
  <2>1. handler[a].pc # "edited" /\ job' = job /\ request' = request
        /\ handler' = [handler EXCEPT ![a] = Idle]
        /\ lock' = IF lock.by = a THEN Unlocked ELSE lock
    BY <1>4 DEF Abandon, Finish
  <2>2. \A b \in Actors \ {a} : handler[b].pc = "approving" => lock'.by = lock.by
    BY <2>1 DEF RateInv
  <2> QED BY <2>1, <2>2, IdleType, OrderUntouched
<1>5. CASE SweepRead \/ PostRead
  <2>1. PICK h : /\ handler' = [handler EXCEPT ![Ticker] = h]
                 /\ h.pc \in {"sweeping", "posting"}
    <3>1. /\ [Idle EXCEPT !.pc = "sweeping"].pc = "sweeping"
          /\ [Idle EXCEPT !.pc = "posting"].pc = "posting"
      BY DEF Idle
    <3> QED BY <1>5, <3>1, Zenon DEF SweepRead, PostRead, Begin
  <2>2. job' = job /\ request' = request /\ lock' = lock /\ handler[Ticker].pc # "edited"
    BY <1>5, IdleType DEF SweepRead, PostRead, Begin, Room
  <2> QED BY <1>0, <2>1, <2>2, OrderUntouched
<1>6. CASE SweepCommit \/ PostCommit
  <2>1. job'.crew = job.crew /\ job'.agreed = job.agreed
    BY <1>0, <1>6 DEF SweepCommit, PostCommit, Job
  <2>2. handler[Ticker].pc # "edited" /\ lock' = lock
        /\ handler' = [handler EXCEPT ![Ticker] = Idle]
    BY <1>6 DEF SweepCommit, PostCommit, Finish
  <2>3. request' = request \/ request' = Answer(Pending, "withdrawn")
    BY <1>6 DEF SweepCommit, PostCommit
  <2>4. \A c \in Cleaners : request'[c] = "approved" => request[c] = "approved"
    BY <2>3, AnswerType DEF RequestStatus
  <2> QED BY <1>0, <2>1, <2>2, <2>4, IdleType, OrderUntouched
<1>7. CASE DayPasses
  BY <1>7 DEF DayPasses, RateInv, WinnerInv, KeepsOrder, Current, Unsettled
<1> QED BY <1>1, <1>2, <1>3, <1>4, <1>5, <1>6, <1>7 DEF Next

\* Both hold in the first state.
LEMMA OrderInit == Init => RateInv /\ WinnerInv
<1> SUFFICES ASSUME Init PROVE RateInv /\ WinnerInv
  OBVIOUS
<1>1. \A a \in Actors : handler[a].pc = "idle"
  BY IdleType DEF Init
<1>2. \A s \in Staff : handler[s].pc = "idle"
  BY <1>1 DEF Actors
<1>3. job.agreed = NoOne /\ \A c \in Cleaners : request[c] = "none"
  BY DEF Init, NoJob
<1> QED BY <1>1, <1>2, <1>3 DEF RateInv, WinnerInv

\* The first always holds, of a job outside a series whose edits run to their end,
\* while approve() does not overlook the crew.
LEMMA RateInvariant ==
    ASSUME Recurring = FALSE, HalfEdits = FALSE
    PROVE  Spec /\ [][~OverlooksTheCrew]_vars => [](TypeOK /\ RateInv)
<1>1. TypeOK /\ RateInv /\ [Next]_vars /\ [~OverlooksTheCrew]_vars => TypeOK' /\ RateInv'
  <2>1. UNCHANGED vars /\ RateInv => RateInv'
    BY DEF vars, RateInv, Current
  <2> QED BY <2>1, TypeStep, OrderStep DEF KeepsOrder
<1> QED BY <1>1, InitType, OrderInit, PTL DEF Spec

\* The agreed rate belongs to somebody on the job (release_if_displaced "runs at the
\* cleaner_ids write sites"), for any bench, number of office users and overlap,
\* instant claims on or off: only an approval that goes by a crew or a rate that
\* changed since it read them can break that.
THEOREM AgreementKeepsToTheCrew ==
    ASSUME Recurring = FALSE, HalfEdits = FALSE
    PROVE  Spec /\ [][~OverlooksTheCrew]_vars => []AgreementFollowsCrew
<1>1. RateInv => AgreementFollowsCrew
  BY DEF RateInv, AgreementFollowsCrew, MidEdit
<1> QED BY <1>1, RateInvariant, PTL

\* The job goes to one winner, who is on it at the rate agreed
\* (approve_claim_request, release_if_displaced): that takes in addition that no
\* approval starts between the commits of an edit.
THEOREM WinnerKeepsTheJob ==
    ASSUME Recurring = FALSE, HalfEdits = FALSE
    PROVE  Spec /\ [][~OverlooksTheCrew]_vars /\ [][~OverlooksAnEdit]_vars =>
             [](OneWinner /\ WinnerIsOnTheJob)
<1>1. TypeOK /\ RateInv /\ WinnerInv /\ [Next]_vars /\ [~OverlooksTheCrew]_vars
        /\ [~OverlooksAnEdit]_vars => WinnerInv'
  <2>1. UNCHANGED vars /\ WinnerInv => WinnerInv'
    BY DEF vars, WinnerInv, Unsettled
  <2> QED BY <2>1, OrderStep DEF KeepsOrder
<1>2. RateInv /\ WinnerInv => OneWinner /\ WinnerIsOnTheJob
  <2> SUFFICES ASSUME RateInv, WinnerInv PROVE OneWinner /\ WinnerIsOnTheJob
    OBVIOUS
  <2>1. NoOne \notin Cleaners
    BY ActorAssumption
  <2>2. ~MidEdit => job.agreed \in job.crew \cup {NoOne}
          /\ \A c \in Cleaners : request[c] = "approved" => c \in job.crew /\ job.agreed = c
    BY <2>1 DEF RateInv, WinnerInv, MidEdit
  <2> QED BY <2>2 DEF OneWinner, WinnerIsOnTheJob
<1> QED BY <1>1, <1>2, RateInvariant, OrderInit, PTL DEF Spec

-----------------------------------------------------------------------------
(* An awarded job is off the board, whatever overlaps *)

\* An edit posts a job whose crew or rate changed since it read them.
PostsUnseenEdit ==
    \E s \in Staff : EditCommit(s) /\ ~job.open /\ job'.open /\ ~Current(s)

\* The tick posts a job somebody agreed to since it read it.
PostsUnseenTick == PostCommit /\ job.agreed # NoOne

\* Some edit is about to take the agreed rate off the job.
Displacing ==
    \E s \in Staff :
        /\ handler[s].pc = "edited"
        /\ handler[s].job.agreed \notin handler[s].job.crew \cup {NoOne}

\* A job that is posted has no rate agreed, or is about to have none.
BoardInv == job.open => job.agreed = NoOne \/ Displacing

\* A handler that is not editing and neither posts the job nor writes the rate.
LEMMA BoardUntouched ==
    ASSUME TypeOK, BoardInv, NEW a \in Actors,
           \A b \in Actors \ {a} : handler'[b] = handler[b],
           handler[a].pc # "edited",
           job'.open => job.open, job'.agreed = job.agreed
    PROVE  BoardInv'
<1>1. Displacing => Displacing'
  BY DEF Displacing, Actors
<1> QED BY <1>1 DEF BoardInv

\* The first commit of an edit: what it posts it has just seen without a crew.
LEMMA EditKeepsBoard ==
    ASSUME TypeOK, RateInv, BoardInv, ~PostsUnseenEdit, NEW s \in Staff, EditCommit(s)
    PROVE  BoardInv'
<1>0. s \in Actors /\ handler[s].pc = "loaded"
      /\ handler[s].job \in Job /\ job \in Job
  BY HandlerType DEF EditCommit, Actors, TypeOK
<1>1. PICK new \in Job, crewSent \in BOOLEAN :
        /\ new.agreed = handler[s].job.agreed
        /\ new.open /\ ~handler[s].job.open => new.crew = {}
        /\ new.crew # handler[s].job.crew => crewSent
        /\ job' = Flush(job, handler[s].job, new)
        /\ handler' = [handler EXCEPT ![s] =
              [Idle EXCEPT !.pc = IF crewSent THEN "edited" ELSE "released",
                           !.job = job', !.wasOpen = handler[s].job.open]]
  BY DEF EditCommit
<1>2. job'.agreed = job.agreed /\ (~crewSent => job'.crew = job.crew)
  BY <1>1 DEF Flush
<1>3. /\ \A b \in Actors \ {s} : handler'[b] = handler[b]
      /\ handler'[s].job = job'
      /\ handler'[s].pc = IF crewSent THEN "edited" ELSE "released"
  BY <1>0, <1>1 DEF TypeOK, Idle
<1>4. CASE job'.open => job.open
  BY <1>0, <1>2, <1>3, <1>4, BoardUntouched
<1>5. CASE job'.open /\ ~job.open
  <2>1. Current(s)
    BY <1>5 DEF PostsUnseenEdit
  <2>2. new.open /\ ~handler[s].job.open
    BY <1>0, <1>1, <1>5 DEF Flush, Job
  <2>3. job'.crew = {}
    BY <1>1, <2>1, <2>2 DEF Flush, Current
  <2>4. CASE crewSent
    BY <1>3, <2>3, <2>4 DEF BoardInv, Displacing
  <2>5. CASE ~crewSent
    <3>1. job.crew = {}
      BY <1>2, <2>3, <2>5
    <3>2. job.agreed = NoOne \/ \E t \in Staff : handler[t].pc = "edited" /\ Current(t)
      BY <3>1 DEF RateInv
    <3>3. ASSUME NEW t \in Staff, handler[t].pc = "edited", Current(t), job.agreed # NoOne
          PROVE  Displacing'
      <4>1. handler'[t] = handler[t]
        BY <1>0, <1>3, <3>3 DEF Actors
      <4>2. handler'[t].job.crew = {} /\ handler'[t].job.agreed # NoOne
        BY <3>1, <3>3, <4>1 DEF Current
      <4> QED BY <3>3, <4>1, <4>2 DEF Displacing
    <3> QED BY <1>2, <3>2, <3>3 DEF BoardInv
  <2> QED BY <2>4, <2>5
<1> QED BY <1>4, <1>5

\* The second takes the rate off.
LEMMA ReleaseKeepsBoard ==
    ASSUME TypeOK, BoardInv, NEW s \in Staff, EditRelease(s)
    PROVE  BoardInv'
<1> DEFINE displaced == {handler[s].job.agreed} \ (handler[s].job.crew \cup {NoOne})
<1>0. s \in Actors /\ job \in Job /\ handler \in [Actors -> Handler] /\ Staff \subseteq Actors
  BY DEF Actors, TypeOK
<1>1. /\ job' = IF displaced = {} THEN job ELSE [job EXCEPT !.agreed = NoOne]
      /\ handler' = [handler EXCEPT ![s].pc = "released",
                       ![s].job = IF displaced = {} THEN @ ELSE job']
  BY DEF EditRelease
<1>2. \A b \in Actors \ {s} : handler'[b] = handler[b]
  BY <1>0, <1>1
<1>3. CASE displaced = {}
  <2>1. job' = job
    BY <1>1, <1>3
  <2>2. Displacing => Displacing'
    BY <1>0, <1>2, <1>3 DEF Displacing
  <2> QED BY <2>1, <2>2 DEF BoardInv
<1>4. CASE displaced # {}
  <2>1. job'.agreed = NoOne
    BY <1>0, <1>1, <1>4 DEF Job
  <2> QED BY <2>1 DEF BoardInv
<1> QED BY <1>3, <1>4

\* Every step that overlooks and posts nothing unseen.
LEMMA BoardStep ==
    ASSUME TypeOK, RateInv, BoardInv, Recurring = FALSE, HalfEdits = FALSE,
           ~PostsUnseenEdit, ~PostsUnseenTick, Next
    PROVE  BoardInv'
<1>0. /\ Cleaners \subseteq Actors /\ Staff \subseteq Actors /\ Ticker \in Actors
      /\ job \in Job /\ DOMAIN handler = Actors
      /\ \A a \in Actors : handler[a].job \in Job
  BY HandlerType DEF Actors, TypeOK
<1>1. ASSUME NEW c \in Cleaners, Bench(c)
      PROVE  BoardInv'
  <2>1. /\ job' = job /\ handler[c].pc # "edited"
        /\ \A b \in Actors \ {c} : handler'[b] = handler[b]
    BY <1>0, <1>1, IdleType
       DEF Bench, AskRead, AskCommit, InstantRead, InstantLock, TakeLocks,
           WithdrawRead, WithdrawCommit, Begin, Room, Finish
  <2> QED BY <1>0, <2>1, BoardUntouched
<1>2. ASSUME NEW s \in Staff, Office(s)
      PROVE  BoardInv'
  <2>0. s \in Actors /\ handler[s].job \in Job
    BY <1>0
  <2>1. CASE OfficeLoad(s) \/ \E c \in Cleaners : OfficeLock(s, c)
    <3>1. /\ job' = job /\ handler[s].pc # "edited"
          /\ \A b \in Actors \ {s} : handler'[b] = handler[b]
      BY <1>0, <2>0, <2>1, IdleType DEF OfficeLoad, OfficeLock, TakeLocks, Begin, Room
    <3> QED BY <2>0, <3>1, BoardUntouched
  <2>2. CASE EditCommit(s)
    BY <2>2, EditKeepsBoard
  <2>3. CASE EditRelease(s)
    BY <2>3, ReleaseKeepsBoard
  <2>4. CASE EditClose(s) \/ SkipCommit(s) \/ CompleteCommit(s)
    <3>1. /\ handler[s].pc # "edited"
          /\ \A b \in Actors \ {s} : handler'[b] = handler[b]
      BY <1>0, <2>0, <2>4 DEF EditClose, SkipCommit, CompleteCommit, Finish
    <3>2. (job'.open => job.open) /\ job'.agreed = job.agreed
      <4>1. CASE EditClose(s)
        <5>1. \/ job' = job
              \/ job' = Flush(job, handler[s].job, [handler[s].job EXCEPT !.open = FALSE])
          BY <4>1 DEF EditClose
        <5>2. CASE job' = Flush(job, handler[s].job, [handler[s].job EXCEPT !.open = FALSE])
          BY <1>0, <2>0, <5>2 DEF Flush, Job
        <5> QED BY <5>1, <5>2
      <4>2. CASE SkipCommit(s)
        BY <1>0, <2>0, <4>2 DEF SkipCommit, Flush, Job
      <4>3. CASE CompleteCommit(s)
        BY <1>0, <2>0, <4>3 DEF CompleteCommit, Flush, Job
      <4> QED BY <2>4, <4>1, <4>2, <4>3
    <3> QED BY <2>0, <3>1, <3>2, BoardUntouched
  <2>5. CASE RescheduleCommit(s)
    BY <2>5 DEF RescheduleCommit
  <2>6. CASE \E c \in Cleaners : Decline(s, c)
    BY <2>6 DEF Decline, BoardInv, Displacing
  <2> QED BY <1>2, <2>1, <2>2, <2>3, <2>4, <2>5, <2>6 DEF Office
<1>3. ASSUME NEW a \in Actors, ApproveCommit(a)
      PROVE  BoardInv'
  BY <1>3, ApprovalKeepsOrder DEF BoardInv
<1>4. ASSUME NEW a \in Actors, Abandon(a)
      PROVE  BoardInv'
  <2>1. /\ job' = job /\ handler[a].pc # "edited"
        /\ \A b \in Actors \ {a} : handler'[b] = handler[b]
    BY <1>0, <1>4 DEF Abandon, Finish
  <2> QED BY <2>1, BoardUntouched
<1>5. CASE SweepRead \/ PostRead
  <2>1. /\ job' = job /\ handler[Ticker].pc # "edited"
        /\ \A b \in Actors \ {Ticker} : handler'[b] = handler[b]
    BY <1>0, <1>5, IdleType DEF SweepRead, PostRead, Begin, Room
  <2> QED BY <1>0, <2>1, BoardUntouched
<1>6. CASE SweepCommit
  BY <1>0, <1>6 DEF SweepCommit, Job, BoardInv
<1>7. CASE PostCommit
  BY <1>0, <1>7 DEF PostCommit, PostsUnseenTick, Job, BoardInv
<1>8. CASE DayPasses
  BY <1>8 DEF DayPasses, BoardInv, Displacing
<1> QED BY <1>1, <1>2, <1>3, <1>4, <1>5, <1>6, <1>7, <1>8 DEF Next

\* A job somebody agreed to work is never an offer (the posting guard of
\* update_job), for any bench, number of office users and overlap, instant claims on
\* or off, unless besides an approval with a crew out of date an edit or the turnover tick posts
\* a job that was awarded since it read it.
THEOREM AwardedStaysOffTheBoard ==
    ASSUME Recurring = FALSE, HalfEdits = FALSE
    PROVE  Spec /\ [][~OverlooksTheCrew]_vars
                /\ [][~PostsUnseenEdit /\ ~PostsUnseenTick]_vars => []AwardedIsOffTheBoard
<1>1. Init => BoardInv
  BY DEF Init, NoJob, BoardInv
<1>2. TypeOK /\ RateInv /\ BoardInv /\ [Next]_vars
        /\ [~PostsUnseenEdit /\ ~PostsUnseenTick]_vars => BoardInv'
  <2>1. UNCHANGED vars /\ BoardInv => BoardInv'
    BY DEF vars, BoardInv, Displacing
  <2> QED BY <2>1, BoardStep
<1>3. BoardInv => AwardedIsOffTheBoard
  BY DEF BoardInv, AwardedIsOffTheBoard, Displacing, MidEdit
<1> QED BY <1>1, <1>2, <1>3, RateInvariant, PTL DEF Spec
=============================================================================
