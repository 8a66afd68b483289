----------------------------- MODULE SubPayouts -----------------------------
(***************************************************************************)
(* The subcontractor payout ledger (services/sub_payouts.py), the payroll  *)
(* endpoints that drive it (modules/payroll/router.py) and, as external    *)
(* parties, Stripe and the office.                                         *)
(*                                                                         *)
(* A payout row exists for at most one (user, job) pair: the element of    *)
(* Work.  Sending through the Stripe rail is a long handler: it reads the  *)
(* due rows, reads them again, asks for the balance, stamps and commits,   *)
(* then for every row calls Stripe and commits the answer.  Each of those  *)
(* is a step of its own here, because another request, a webhook or the    *)
(* death of the process can come between any two of them.  A handler works *)
(* on the row objects of its own session: `seen` holds their columns as    *)
(* loaded, and a flush writes only the columns the handler changed.        *)
(***************************************************************************)
EXTENDS FiniteSets

CONSTANTS
    Work,         \* the (user, job) pairs somebody may be owed for
    Requests,     \* office requests (send, mark) that can be in flight at once
    Generators,   \* generate requests that can be in flight at once
    TransferIds,  \* the ids Stripe can hand out (a bound for TLC)
    NoRef,        \* external_ref IS NULL
    NoWork        \* no row is being transferred

ASSUME SentinelAssumption == NoRef \notin TransferIds /\ NoWork \notin Work

VARIABLES
    owed,     \* pairs that preview() finds earned: completed, priced, agreed with
    row,      \* the sub_payouts table
    rail,     \* the sub_payout_rail setting
    req,      \* what each office request is doing
    plan,     \* the rows each generate request still means to insert
    paidFor,  \* Stripe: the row a transfer was made for
    reversed, \* Stripe: the transfers whose money came home
    keys,     \* Stripe: idempotency keys it still remembers
    events    \* Stripe: how far the transfer.reversed event of a transfer has come

stripe == <<paidFor, reversed, keys, events>>
vars == <<owed, row, rail, req, plan, paidFor, reversed, keys, events>>

Statuses == {"due", "sent", "paid", "void"}
Methods == {"none", "manual", "stripe"}
Refs == TransferIds \cup {NoRef}
Row == [status: Statuses \cup {"absent"}, method: Methods, ref: Refs]
Absent == [status |-> "absent", method |-> "none", ref |-> NoRef]

\* The legal moves of the ledger; `paid` and `void` are closed.
Allowed(status) ==
    CASE status = "due"  -> {"sent", "paid", "void"}
      [] status = "sent" -> {"paid", "void"}
      [] OTHER           -> {}

\* Mutation: mark() without its transition table.
MarkableAlways(r, status) == r.status # "absent"

\* mark() accepts a row that may move to the status, or already has it.
Markable(r, status) == r.status # "absent" /\ (r.status = status \/ status \in Allowed(r.status))

\* A stamped row with no transfer id: an attempt that never reported back.
Unclear(r) == r.method = "stripe" /\ r.ref = NoRef

Exists(w) == row[w].status # "absent"

\* The unit of work: only the columns the handler changed reach the row.
Flush(current, loaded, new) ==
    [status |-> IF new.status = loaded.status THEN current.status ELSE new.status,
     method |-> IF new.method = loaded.method THEN current.method ELSE new.method,
     ref    |-> IF new.ref = loaded.ref THEN current.ref ELSE new.ref]

NothingSeen == [w \in Work |-> Absent]
Loaded(W) == [w \in Work |-> IF w \in W THEN row[w] ELSE Absent]

Idle == [pc |-> "idle", todo |-> {}, seen |-> NothingSeen,
         cur |-> NoWork, answer |-> NoRef, to |-> "none"]
At(pc, W) == [Idle EXCEPT !.pc = pc, !.todo = W]

Request == [pc: {"idle", "listed", "csv", "planned", "sending", "answered", "marking"},
            todo: SUBSET Work, seen: [Work -> Row], cur: Work \cup {NoWork},
            answer: Refs, to: {"none", "sent", "paid", "void"}]

Key == [work: Work, ref: Refs, id: TransferIds]

TypeOK ==
    /\ owed \subseteq Work
    /\ row \in [Work -> Row]
    /\ rail \in {"manual", "stripe"}
    /\ req \in [Requests -> {r \in Request : r.pc = "marking" => r.to # "none"}]
    /\ plan \in [Generators -> SUBSET Work]
    /\ paidFor \in [TransferIds -> Work \cup {NoWork}]
    /\ reversed \subseteq TransferIds
    /\ keys \subseteq Key
    /\ events \in [TransferIds -> {"none", "pending", "delivered"}]

Init ==
    /\ owed = {}
    /\ row = [w \in Work |-> Absent]
    /\ rail = "manual"
    /\ req = [q \in Requests |-> Idle]
    /\ plan = [g \in Generators |-> {}]
    /\ paidFor = [id \in TransferIds |-> NoWork]
    /\ reversed = {}
    /\ keys = {}
    /\ events = [id \in TransferIds |-> "none"]

-----------------------------------------------------------------------------
(* Generating the rows *)

\* A job is completed, corrected or reassigned: preview() now finds it earned, or no longer.
WorkChanges(w) ==
    /\ owed' = IF w \in owed THEN owed \ {w} ELSE owed \cup {w}
    /\ UNCHANGED <<row, rail, req, plan, stripe>>

\* generate() reads its plan: what is earned and has no row yet.
GenerateRead(g) ==
    /\ plan[g] = {}
    /\ \E W \in SUBSET {w \in owed : ~Exists(w)} :
           W # {} /\ plan' = [plan EXCEPT ![g] = W]
    /\ UNCHANGED <<owed, row, rail, req, stripe>>

\* generate() inserts row by row, each in a savepoint: a pair somebody else
\* recorded meanwhile hits UNIQUE (user_id, job_id) and is skipped alone.
GenerateWrite(g) ==
    /\ plan[g] # {}
    /\ row' = [w \in Work |-> IF w \in plan[g] /\ ~Exists(w)
                              THEN [Absent EXCEPT !.status = "due"] ELSE row[w]]
    /\ plan' = [plan EXCEPT ![g] = {}]
    /\ UNCHANGED <<owed, rail, req, stripe>>

-----------------------------------------------------------------------------
(* mark(): read and validate the whole batch, then write it *)

BeginMark(q, W, to) ==
    /\ \A w \in W : Markable(row[w], to)
    /\ req' = [req EXCEPT ![q] = [At("marking", W) EXCEPT !.seen = Loaded(W), !.to = to]]
    /\ UNCHANGED <<owed, row, rail, plan, stripe>>

\* The office marks the picked rows; an illegal one among them refuses them all (422).
Mark(q) ==
    /\ req[q].pc = "idle"
    /\ \E W \in SUBSET {w \in Work : Exists(w)}, to \in {"paid", "void"} :
           W # {} /\ BeginMark(q, W, to)

\* Mutation: the status is written into the method column too.
MarkedInBothColumns(r, to) == [r EXCEPT !.status = to, !.method = to]

\* The method is written only by the manual rail, the one caller that marks `sent`.
Marked(r, to) == [r EXCEPT !.status = to, !.method = IF to = "sent" THEN "manual" ELSE @]

MarkCommit(q) ==
    /\ req[q].pc = "marking"
    /\ row' = [w \in Work |->
                 IF w \in req[q].todo
                 THEN Flush(row[w], req[q].seen[w], Marked(req[q].seen[w], req[q].to))
                 ELSE row[w]]
    /\ req' = [req EXCEPT ![q] = Idle]
    /\ UNCHANGED <<owed, rail, plan, stripe>>

-----------------------------------------------------------------------------
(* send: the endpoint, then the rail the setting names *)

ChooseRail(name) ==
    /\ rail # name
    /\ rail' = name
    /\ UNCHANGED <<owed, row, req, plan, stripe>>

\* Mutation: the endpoint sends every picked row.
SendListAll(q) ==
    /\ req[q].pc = "idle"
    /\ \E W \in SUBSET {w \in Work : Exists(w)} :
           /\ W # {}
           /\ req' = [req EXCEPT ![q] = At(IF rail = "stripe" THEN "listed" ELSE "csv", W)]
    /\ UNCHANGED <<owed, row, rail, plan, stripe>>

\* The endpoint keeps the picked rows that are `due`, then looks up the rail.
SendList(q) ==
    /\ req[q].pc = "idle"
    /\ \E W \in SUBSET {w \in Work : row[w].status = "due"} :
           /\ W # {}
           /\ req' = [req EXCEPT ![q] = At(IF rail = "stripe" THEN "listed" ELSE "csv", W)]
    /\ UNCHANGED <<owed, row, rail, plan, stripe>>

\* ManualRail.send: render the CSV and mark the rows `sent`.
SendManual(q) ==
    /\ req[q].pc = "csv"
    /\ BeginMark(q, req[q].todo, "sent")

\* Mutation: the send forgets to set the unclear rows aside.
SendPlanWithUnclear(q) ==
    /\ req[q].pc = "listed"
    /\ req' = [req EXCEPT ![q] = [At("planned", req[q].todo) EXCEPT !.seen = Loaded(req[q].todo)]]
    /\ UNCHANGED <<owed, row, rail, plan, stripe>>

\* StripeRail.send reads the rows again and sorts them: an unclear row waits for
\* a person, a sub without a finished Stripe account is blocked, the rest go.
SendPlan(q) ==
    /\ req[q].pc = "listed"
    /\ \E blocked \in SUBSET req[q].todo :
         LET sendable == {w \in req[q].todo \ blocked : ~Unclear(row[w])} IN
         req' = [req EXCEPT ![q] = IF sendable = {} THEN Idle
                                   ELSE [At("planned", sendable) EXCEPT !.seen = Loaded(sendable)]]
    /\ UNCHANGED <<owed, row, rail, plan, stripe>>

\* Stripe is not configured, the batch exceeds the balance, or the manual
\* rail's mark() finds a row that moved: the request ends, nothing written.
SendRefuse(q) ==
    /\ \/ req[q].pc \in {"listed", "planned"}
       \/ req[q].pc = "csv" /\ \E w \in req[q].todo : ~Markable(row[w], "sent")
    /\ req' = [req EXCEPT ![q] = Idle]
    /\ UNCHANGED <<owed, row, rail, plan, stripe>>

\* Mutation: the stamp is left for the answer to write.
SendStampLater(q) ==
    /\ req[q].pc = "planned"
    /\ req' = [req EXCEPT ![q] = At("sending", req[q].todo)]
    /\ UNCHANGED <<owed, row, rail, plan, stripe>>

\* The stamp: one commit before any money moves.
SendStamp(q) ==
    /\ req[q].pc = "planned"
    /\ row' = [w \in Work |->
                 IF w \in req[q].todo
                 THEN Flush(row[w], req[q].seen[w], [req[q].seen[w] EXCEPT !.method = "stripe"])
                 ELSE row[w]]
    /\ req' = [req EXCEPT ![q] = At("sending", req[q].todo)]
    /\ UNCHANGED <<owed, rail, plan, stripe>>

\* Stripe, given a key: the transfer it remembers for the key, or a new one.
Replayed(w, ref) == {k \in keys : k.work = w /\ k.ref = ref}

StripeTransfers(id, w, ref) ==
    \/ /\ [work |-> w, ref |-> ref, id |-> id] \in keys
       /\ UNCHANGED stripe
    \/ /\ Replayed(w, ref) = {}
       /\ paidFor[id] = NoWork
       /\ paidFor' = [paidFor EXCEPT ![id] = w]
       /\ keys' = keys \cup {[work |-> w, ref |-> ref, id |-> id]}
       /\ UNCHANGED <<reversed, events>>

\* The loop of send() goes on with the rows left, or the request returns.
Continue(W) == IF W = {} THEN Idle ELSE At("sending", W)

Answered(q, w, answer) ==
    [At("answered", req[q].todo) EXCEPT !.cur = w, !.answer = answer, !.seen = Loaded({w})]

\* The row is reloaded after the last commit, its key computed from the
\* reference it carries now, and Stripe is called ...
TransferOk(q) ==
    /\ req[q].pc = "sending"
    /\ \E w \in req[q].todo, id \in TransferIds :
         /\ StripeTransfers(id, w, row[w].ref)
         /\ req' = [req EXCEPT ![q] = Answered(q, w, id)]
    /\ UNCHANGED <<owed, row, rail, plan>>

\* ... and answers with a 4xx: no transfer was made.
TransferRefused(q) ==
    /\ req[q].pc = "sending"
    /\ \E w \in req[q].todo :
         /\ Replayed(w, row[w].ref) = {}
         /\ req' = [req EXCEPT ![q] = Answered(q, w, NoRef)]
    /\ UNCHANGED <<owed, row, rail, plan, stripe>>

\* ... or the answer is lost (timeout, dropped connection, 5xx): the money may
\* have moved, nothing is written, and the loop goes on.
TransferLost(q) ==
    /\ req[q].pc = "sending"
    /\ \E w \in req[q].todo :
         /\ \/ \E id \in TransferIds : StripeTransfers(id, w, row[w].ref)
            \/ UNCHANGED stripe
         /\ req' = [req EXCEPT ![q] = Continue(req[q].todo \ {w})]
    /\ UNCHANGED <<owed, row, rail, plan>>

\* Mutation: the answer is recorded on any row of the batch.
RecordPaidAnywhere(q) ==
    /\ req[q].pc = "answered" /\ req[q].answer # NoRef
    /\ \E w \in req[q].todo :
         /\ row' = [row EXCEPT ![w] = [status |-> "paid", method |-> "stripe",
                                      ref |-> req[q].answer]]
         /\ req' = [req EXCEPT ![q] = Continue(req[q].todo \ {w})]
    /\ UNCHANGED <<owed, rail, plan, stripe>>

\* A transfer id: mark the row paid with it.  mark() judges the row as reloaded
\* before the call; a row it may not move raises and ends the whole request.
RecordPaid(q) ==
    LET w == req[q].cur
        loaded == req[q].seen[w]
    IN  /\ req[q].pc = "answered" /\ req[q].answer # NoRef
        /\ IF Markable(loaded, "paid")
           THEN /\ row' = [row EXCEPT ![w] = Flush(row[w], loaded,
                             [status |-> "paid", method |-> "stripe", ref |-> req[q].answer])]
                /\ req' = [req EXCEPT ![q] = Continue(req[q].todo \ {w})]
           ELSE /\ req' = [req EXCEPT ![q] = Idle]
                /\ UNCHANGED row
        /\ UNCHANGED <<owed, rail, plan, stripe>>

\* A definite refusal takes the stamp back off, so the row can be retried.
RecordRefused(q) ==
    LET w == req[q].cur
        loaded == req[q].seen[w]
    IN  /\ req[q].pc = "answered" /\ req[q].answer = NoRef
        /\ row' = [row EXCEPT ![w] = Flush(row[w], loaded, [loaded EXCEPT !.method = "none"])]
        /\ req' = [req EXCEPT ![q] = Continue(req[q].todo \ {w})]
        /\ UNCHANGED <<owed, rail, plan, stripe>>

\* The process dies, or the worker is recycled, between any two steps.
Crash(q) ==
    /\ req[q].pc # "idle"
    /\ req' = [req EXCEPT ![q] = Idle]
    /\ UNCHANGED <<owed, row, rail, plan, stripe>>

-----------------------------------------------------------------------------
(* Stripe on its own, and its webhook *)

\* Somebody reverses a transfer in the Stripe dashboard, after its call returned.
Reverse(id) ==
    /\ paidFor[id] # NoWork /\ id \notin reversed
    /\ \A q \in Requests : req[q].answer # id
    /\ reversed' = reversed \cup {id}
    /\ events' = [events EXCEPT ![id] = "pending"]
    /\ UNCHANGED <<owed, row, rail, req, plan, paidFor, keys>>

\* Mutation: the row is owed again whatever it is now.
ReversalReopensAny(id) ==
    /\ events[id] # "none"
    /\ row' = [w \in Work |-> IF row[w].ref = id THEN [row[w] EXCEPT !.status = "due"] ELSE row[w]]
    /\ events' = [events EXCEPT ![id] = "delivered"]
    /\ UNCHANGED <<owed, rail, req, plan, paidFor, reversed, keys>>

\* transfer.reversed: the row that cites the transfer, if it is still paid, is
\* owed again and keeps the reference.  Anything else is acknowledged and
\* ignored.  Stripe delivers at least once: a delivered event may come again.
ReversalWebhook(id) ==
    /\ events[id] # "none"
    /\ row' = [w \in Work |-> IF row[w].ref = id /\ row[w].status = "paid"
                              THEN [row[w] EXCEPT !.status = "due"] ELSE row[w]]
    /\ events' = [events EXCEPT ![id] = "delivered"]
    /\ UNCHANGED <<owed, rail, req, plan, paidFor, reversed, keys>>

\* A day passes and Stripe forgets its idempotency keys; no request lasts that long.
DayPasses ==
    /\ keys # {}
    /\ \A q \in Requests : req[q].pc = "idle"
    /\ keys' = {}
    /\ UNCHANGED <<owed, row, rail, req, plan, paidFor, reversed, events>>

-----------------------------------------------------------------------------
Office(q) ==
    \/ Mark(q) \/ MarkCommit(q)
    \/ SendList(q) \/ SendManual(q) \/ SendPlan(q) \/ SendRefuse(q) \/ SendStamp(q)
    \/ TransferOk(q) \/ TransferRefused(q) \/ TransferLost(q)
    \/ RecordPaid(q) \/ RecordRefused(q) \/ Crash(q)

Next ==
    \/ \E w \in Work : WorkChanges(w)
    \/ \E g \in Generators : GenerateRead(g) \/ GenerateWrite(g)
    \/ \E name \in {"manual", "stripe"} : ChooseRail(name)
    \/ \E q \in Requests : Office(q)
    \/ \E id \in TransferIds : Reverse(id) \/ ReversalWebhook(id)
    \/ DayPasses

Spec == Init /\ [][Next]_vars

-----------------------------------------------------------------------------
(* What the ledger promises *)

Transfers(w) == {id \in TransferIds : paidFor[id] = w}
Unreversed(w) == Transfers(w) \cap reversed = {}

\* Nobody is paid twice for a job: as long as no transfer of a row was ever
\* reversed, Stripe holds at most one transfer for it, through crashes, lost
\* answers, retries and forgotten keys ("THE THING THIS FILE IS MOST CAREFUL
\* ABOUT is not paying twice", StripeRail).
PaidOnceUnlessReversed ==
    \A w \in Work : Unreversed(w) =>
        \A id, other \in Transfers(w) : id = other

\* Money that left is never forgotten: a row with an unreversed transfer that
\* is still `due` carries the stamp that makes the next send refuse it and
\* report it for a person to look up, at every instant the process can die.
UnlearnedIsRefused ==
    \A w \in Work :
        Transfers(w) # {} /\ Unreversed(w) /\ row[w].status = "due" => Unclear(row[w])

\* The reference of a row is always a transfer Stripe made for that very row:
\* a reversal is matched by it alone, so a foreign reference would reopen the
\* wrong person's payout.
ReferenceIsOurs ==
    \A w \in Work : row[w].ref # NoRef => paidFor[row[w].ref] = w

\* The ledger moves along _ALLOWED_TRANSITIONS and generate never touches a row
\* that is there; the one walk back, from paid to due, is for a row whose own
\* transfer came home.
StatusOnlyMovesForward ==
    [][\A w \in Work : row'[w].status # row[w].status =>
          \/ row[w].status = "absent" /\ row'[w].status = "due"
          \/ row'[w].status \in Allowed(row[w].status)
          \/ row[w].status = "paid" /\ row'[w].status = "due" /\ row[w].ref \in reversed
      ]_vars

\* Nothing but a reversal puts a settled row back in the payable batch, whatever
\* requests overlap: a handler working on columns it loaded long ago may not
\* write `due` over a newer status (paid -> due "pays somebody TWICE").
BackInBatchOnlyByReversal ==
    [][\A w \in Work : row'[w].status = "due" /\ row[w].status # "due" =>
          \/ row[w].status = "absent"
          \/ row[w].status = "paid" /\ row[w].ref \in reversed
      ]_vars

\* What a bookkeeper sees of all this: an entry that is open while the row is
\* due, the transfers Stripe holds for it, and those that were reversed.
Entry(r) == CASE r.status = "absent" -> "none" [] r.status = "due" -> "open" [] OTHER -> "closed"

Ledger == INSTANCE PayoutLedger WITH
    Payments <- TransferIds,
    entry <- [w \in Work |-> Entry(row[w])],
    made <- [w \in Work |-> Transfers(w)],
    home <- reversed

\* Every step of the requests, of Stripe and of the webhook is a step of that
\* simple ledger or none: no money leaves for work that is settled, or twice,
\* and no settled work opens again unless its own money came home.
ImplementsLedger == Ledger!Spec
=============================================================================
