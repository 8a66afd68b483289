--------------------------- MODULE InvoiceCheckout ---------------------------
(***************************************************************************)
(* One invoice and its hosted payment page: start_checkout and the webhook *)
(* recorder, the office's edits, payments and sends                        *)
(* (modules/invoicing/router.py), the dunning tick                         *)
(* (services/dunning_service.py) and, as external parties, the customer    *)
(* and Stripe.                                                             *)
(*                                                                         *)
(* start_checkout holds the row lock from its first read to its commit.    *)
(* Every other handler reads the row unlocked, may spend seconds on an     *)
(* email, and writes back the columns it changed of what it read.          *)
(***************************************************************************)
EXTENDS Naturals, FiniteSets

CONSTANTS
    Taps,       \* checkout requests that can be in flight at once
    Staff,      \* office requests that can be in flight at once
    Hook,       \* the webhook delivery in flight
    Ticker,     \* the dunning tick
    Sessions,   \* the ids Stripe can hand out (a bound for TLC)
    Prices,     \* totals the invoice may carry
    NoSession,  \* stripe_checkout_session_id IS NULL
    NoOne,      \* the row is not locked
    Debits,     \* the account takes bank debits, which clear days later
    Punctual,   \* an event comes once, and before its session's expires_at
    MaxBusy     \* how many handlers may be in flight at once (a bound for TLC)

Actors == Taps \cup Staff \cup {Hook, Ticker}

ASSUME ActorAssumption ==
    /\ NoOne \notin Actors
    /\ Hook # Ticker /\ {Hook, Ticker} \cap (Taps \cup Staff) = {}
    /\ Taps \cap Staff = {}
    /\ IsFiniteSet(Taps) /\ IsFiniteSet(Staff)
ASSUME InvoiceAssumption ==
    /\ NoSession \notin Sessions
    /\ Prices \subseteq Nat /\ Prices # {}
    /\ Debits \in BOOLEAN /\ Punctual \in BOOLEAN /\ MaxBusy \in Nat

VARIABLES
    invoice,   \* the row: status, total, stored session (its expires_at goes with it)
    lock,      \* who holds the row lock
    handler,   \* what each request in flight is doing
    session,   \* Stripe: each checkout session
    shown,     \* the customer: sessions whose page they were sent to
    pending,   \* Stripe: events not answered yet
    handled,   \* Stripe: events answered with a 2xx
    released   \* history: sessions taken off the row by a repricing or their own failure

stripe == <<session, pending>>
vars == <<invoice, lock, handler, session, shown, pending, handled, released>>

Statuses == {"draft", "sent", "overdue", "paid", "void"}
Invoice == [status: Statuses, total: Prices, session: Sessions \cup {NoSession}]

\* A session that is `complete` at Stripe is clearing, paid or failed here;
\* `lapsed` says that our clock has passed its expires_at.
Session == [state: {"none", "open", "clearing", "paid", "failed", "expired"},
            amount: Prices \cup {0}, lapsed: BOOLEAN]

\* completed with the money outstanding, settled (completed or
\* async_payment_succeeded), async_payment_failed.
Outcomes == {"paid", "failed"}
Kinds == Outcomes \cup {"submitted"}
Events == Sessions \X Kinds

Phase == {"idle", "locked", "created", "editing", "paying", "sending", "dunning", "recording"}
Handler == {h \in [pc: Phase, loaded: Invoice, session: Sessions \cup {NoSession}, kind: Kinds] :
              h.pc \in {"created", "recording"} => h.session \in Sessions}

Blank == [status |-> "draft", total |-> CHOOSE p \in Prices : TRUE, session |-> NoSession]
Idle == [pc |-> "idle", loaded |-> Blank, session |-> NoSession, kind |-> "submitted"]

TypeOK ==
    /\ invoice \in Invoice
    /\ lock \in Actors \cup {NoOne}
    /\ handler \in [Actors -> Handler]
    /\ session \in [Sessions -> Session]
    /\ shown \subseteq Sessions
    /\ pending \subseteq Events
    /\ handled \subseteq Events
    /\ released \subseteq Sessions

Init ==
    /\ invoice \in {[Blank EXCEPT !.total = p] : p \in Prices}
    /\ lock = NoOne
    /\ handler = [a \in Actors |-> Idle]
    /\ session = [s \in Sessions |-> [state |-> "none", amount |-> 0, lapsed |-> FALSE]]
    /\ shown = {}
    /\ pending = {}
    /\ handled = {}
    /\ released = {}

-----------------------------------------------------------------------------
Unlocked == lock = NoOne

\* The unit of work writes a column only when the handler changed it.
Flush(loaded, new) ==
    [status  |-> IF new.status = loaded.status THEN invoice.status ELSE new.status,
     total   |-> IF new.total = loaded.total THEN invoice.total ELSE new.total,
     session |-> IF new.session = loaded.session THEN invoice.session ELSE new.session]

\* A new request enters: its actor is idle and the bound leaves room.
Room(a) == handler[a] = Idle /\ Cardinality({b \in Actors : handler[b] # Idle}) < MaxBusy

Begin(a, pc) == handler' = [handler EXCEPT ![a] = [Idle EXCEPT !.pc = pc, !.loaded = invoice]]
Finish(a) == handler' = [handler EXCEPT ![a] = Idle]

-----------------------------------------------------------------------------
(* start_checkout *)

Collectable == invoice.status \in {"sent", "overdue"} /\ invoice.total > 0

\* Mutation: the row is read without FOR UPDATE.
TapReadsUnlocked(t) ==
    /\ Room(t) /\ Collectable
    /\ Begin(t, "locked")
    /\ UNCHANGED <<invoice, lock, stripe, shown, handled, released>>

\* The customer taps Pay: the row is locked, then read.
TapLock(t) ==
    /\ Room(t) /\ Unlocked /\ Collectable
    /\ Begin(t, "locked")
    /\ lock' = t
    /\ UNCHANGED <<invoice, stripe, shown, handled, released>>

\* A stored session whose expires_at has not passed: Stripe is asked about it.
Remembered(t) ==
    LET s == handler[t].loaded.session IN s # NoSession /\ ~session[s].lapsed

\* It is open: its page is handed back.
TapReuse(t) ==
    /\ handler[t].pc = "locked"
    /\ Remembered(t) /\ session[handler[t].loaded.session].state = "open"
    /\ shown' = shown \cup {handler[t].loaded.session}
    /\ lock' = NoOne
    /\ Finish(t)
    /\ UNCHANGED <<invoice, stripe, handled, released>>

\* Mutation: a session that is not open is taken for a dead one.
TapCreateUnlessOpen(t) ==
    /\ handler[t].pc = "locked"
    /\ Remembered(t) => session[handler[t].loaded.session].state # "open"
    /\ \E s \in Sessions :
         /\ session[s].state = "none"
         /\ session' = [session EXCEPT ![s] = [state |-> "open", lapsed |-> FALSE,
                                               amount |-> handler[t].loaded.total]]
         /\ handler' = [handler EXCEPT ![t] = [@ EXCEPT !.pc = "created", !.session = s]]
    /\ UNCHANGED <<invoice, lock, shown, pending, handled, released>>

\* No session, one whose expires_at has passed (Stripe is not asked), or one
\* Stripe says is expired: a new one for the amount due.  A complete session is
\* a hold: the request is refused.
TapCreate(t) ==
    /\ handler[t].pc = "locked"
    /\ Remembered(t) => session[handler[t].loaded.session].state = "expired"
    /\ \E s \in Sessions :
         /\ session[s].state = "none"
         /\ session' = [session EXCEPT ![s] = [state |-> "open", lapsed |-> FALSE,
                                               amount |-> handler[t].loaded.total]]
         /\ handler' = [handler EXCEPT ![t] = [@ EXCEPT !.pc = "created", !.session = s]]
    /\ UNCHANGED <<invoice, lock, shown, pending, handled, released>>

\* Its id is stored and its page handed out.
TapCommit(t) ==
    /\ handler[t].pc = "created"
    /\ invoice' = [invoice EXCEPT !.session = handler[t].session]
    /\ shown' = shown \cup {handler[t].session}
    /\ lock' = NoOne
    /\ Finish(t)
    /\ UNCHANGED <<stripe, handled, released>>

-----------------------------------------------------------------------------
(* The office, and the dunning tick *)

\* update_invoice, process_payment and (after its first commit) send_invoice
\* read the invoice.
OfficeLoad(e, pc) ==
    /\ Room(e)
    /\ Begin(e, pc)
    /\ UNCHANGED <<invoice, lock, stripe, shown, handled, released>>

\* Mutation: repricing leaves the payment link in place.
EditCommitKeepsLink(e) ==
    LET loaded == handler[e].loaded IN
    /\ handler[e].pc = "editing" /\ Unlocked
    /\ \E total \in Prices, status \in Statuses :
         invoice' = Flush(loaded, [loaded EXCEPT !.status = status, !.total = total])
    /\ Finish(e)
    /\ UNCHANGED <<lock, stripe, shown, handled, released>>

\* The edit: any status, and any total; a total that moved drops the link.
EditCommit(e) ==
    LET loaded == handler[e].loaded IN
    /\ handler[e].pc = "editing" /\ Unlocked
    /\ \E total \in Prices, status \in Statuses :
         invoice' = Flush(loaded, [status |-> status, total |-> total,
                      session |-> IF total = loaded.total THEN loaded.session ELSE NoSession])
    /\ released' = IF invoice'.session = invoice.session THEN released
                   ELSE released \cup {invoice.session}
    /\ Finish(e)
    /\ UNCHANGED <<lock, stripe, shown, handled>>

\* Mutation: the row takes over Stripe's word for it.
RecordedInStripesWords(loaded) == [loaded EXCEPT !.status = "complete"]

\* _record_payment: the one place an invoice becomes paid.
Recorded(loaded) == [loaded EXCEPT !.status = "paid"]

\* A cheque came in.
PaymentCommit(e) ==
    LET loaded == handler[e].loaded IN
    /\ handler[e].pc = "paying" /\ Unlocked
    /\ invoice' = Flush(loaded, Recorded(loaded))
    /\ Finish(e)
    /\ UNCHANGED <<lock, stripe, shown, handled, released>>

\* Mutation: whatever was emailed is `sent` afterwards.
SendCommitAlways(e) ==
    LET loaded == handler[e].loaded IN
    /\ handler[e].pc = "sending" /\ Unlocked
    /\ invoice' = Flush(loaded, [loaded EXCEPT !.status = "sent"])
    /\ Finish(e)
    /\ UNCHANGED <<lock, stripe, shown, handled, released>>

\* The invoice was emailed: a draft is now sent.
SendCommit(e) ==
    LET loaded == handler[e].loaded IN
    /\ handler[e].pc = "sending" /\ Unlocked
    /\ invoice' = Flush(loaded, [loaded EXCEPT !.status = IF @ = "draft" THEN "sent" ELSE @])
    /\ Finish(e)
    /\ UNCHANGED <<lock, stripe, shown, handled, released>>

\* The tick picks an unpaid invoice, emails the customer ...
DunningRead ==
    /\ Room(Ticker)
    /\ invoice.status \in {"sent", "overdue"}
    /\ Begin(Ticker, "dunning")
    /\ UNCHANGED <<invoice, lock, stripe, shown, handled, released>>

\* ... and then marks it overdue if it was still `sent` when it was read.
DunningCommit ==
    LET loaded == handler[Ticker].loaded IN
    /\ handler[Ticker].pc = "dunning" /\ Unlocked
    /\ invoice' = Flush(loaded, [loaded EXCEPT !.status = IF @ = "sent" THEN "overdue" ELSE @])
    /\ Finish(Ticker)
    /\ UNCHANGED <<lock, stripe, shown, handled, released>>

-----------------------------------------------------------------------------
(* The customer and Stripe *)

Moves(s, from, to, kinds) ==
    /\ session[s].state = from
    /\ session' = [session EXCEPT ![s].state = to]
    /\ pending' = pending \cup {<<s, kind>> : kind \in kinds}
    /\ UNCHANGED <<invoice, lock, handler, shown, handled, released>>

PayCard(s) == s \in shown /\ Moves(s, "open", "paid", {"paid"})
SubmitDebit(s) == Debits /\ s \in shown /\ Moves(s, "open", "clearing", {"submitted"})
DebitSettles(s) == Moves(s, "clearing", "paid", {"paid"})
DebitFails(s) == Moves(s, "clearing", "failed", {"failed"})
Expires(s) == Moves(s, "open", "expired", {})

\* The expires_at on the row passes.
Answered(s) == \E kind \in Outcomes : <<s, kind>> \in handled
Lapses(s) ==
    /\ invoice.session = s
    /\ session[s].state \notin {"none", "open"} /\ ~session[s].lapsed
    /\ Punctual => session[s].state = "expired" \/ Answered(s)
    /\ session' = [session EXCEPT ![s].lapsed = TRUE]
    /\ UNCHANGED <<invoice, lock, handler, shown, pending, handled, released>>

-----------------------------------------------------------------------------
(* record_checkout_payment *)

\* Mutation: the invoice is looked up by the stored session alone.
HookReadStored(s, kind) ==
    /\ Room(Hook)
    /\ <<s, kind>> \in pending /\ invoice.session = s
    /\ handler' = [handler EXCEPT ![Hook] = [Idle EXCEPT !.pc = "recording",
                     !.loaded = invoice, !.session = s, !.kind = kind]]
    /\ UNCHANGED <<invoice, lock, stripe, shown, handled, released>>

\* The event finds its invoice by client_reference_id, whatever session is stored.
HookRead(s, kind) ==
    /\ Room(Hook)
    /\ <<s, kind>> \in pending \/ (~Punctual /\ <<s, kind>> \in handled)
    /\ handler' = [handler EXCEPT ![Hook] = [Idle EXCEPT !.pc = "recording",
                     !.loaded = invoice, !.session = s, !.kind = kind]]
    /\ UNCHANGED <<invoice, lock, stripe, shown, handled, released>>

\* Mutation: a finished form counts as a payment.
AppliedByName(loaded, s, kind) ==
    IF kind = "failed" THEN [loaded EXCEPT !.session = NoSession]
    ELSE IF session[s].amount >= loaded.total THEN Recorded(loaded)
    ELSE loaded

\* Mutation: a failure is treated as one more unsettled event.
AppliedFailureIgnored(loaded, s, kind) ==
    IF kind = "paid" /\ session[s].amount >= loaded.total THEN Recorded(loaded) ELSE loaded

\* A failure takes the stored session off the row, whichever it is; money that
\* is not settled, or short of the total, leaves the invoice open.
Applied(loaded, s, kind) ==
    IF kind = "failed" THEN [loaded EXCEPT !.session = NoSession]
    ELSE IF kind = "paid" /\ session[s].amount >= loaded.total THEN Recorded(loaded)
    ELSE loaded

HookCommit(s, kind) ==
    LET loaded == handler[Hook].loaded IN
    /\ handler[Hook].pc = "recording" /\ Unlocked
    /\ s = handler[Hook].session /\ kind = handler[Hook].kind
    /\ invoice' = Flush(loaded, Applied(loaded, s, kind))
    /\ released' = IF invoice.session = s /\ invoice'.session # s
                   THEN released \cup {s} ELSE released
    /\ pending' = pending \ {<<s, kind>>}
    /\ handled' = handled \cup {<<s, kind>>}
    /\ Finish(Hook)
    /\ UNCHANGED <<lock, session, shown>>

\* A handler ends early: refused by a check (a hold, a failed read or create at
\* Stripe), by the database, or dead with its process.
Abandon(a) ==
    /\ handler[a] # Idle
    /\ lock' = IF lock = a THEN NoOne ELSE lock
    /\ Finish(a)
    /\ UNCHANGED <<invoice, stripe, shown, handled, released>>

-----------------------------------------------------------------------------
Next ==
    \/ \E t \in Taps : TapLock(t) \/ TapReuse(t) \/ TapCreate(t) \/ TapCommit(t)
    \/ \E e \in Staff :
         \/ \E pc \in {"editing", "paying", "sending"} : OfficeLoad(e, pc)
         \/ EditCommit(e) \/ PaymentCommit(e) \/ SendCommit(e)
    \/ DunningRead \/ DunningCommit
    \/ \E s \in Sessions :
         \/ PayCard(s) \/ SubmitDebit(s) \/ DebitSettles(s) \/ DebitFails(s)
         \/ Expires(s) \/ Lapses(s)
         \/ \E kind \in Kinds : HookRead(s, kind) \/ HookCommit(s, kind)
    \/ \E a \in Actors : Abandon(a)

Spec == Init /\ [][Next]_vars

\* Stripe delivers a pending event again and again for days and one delivery
\* gets through; a handler in flight ends.
FairSpec ==
    /\ Spec
    /\ \A a \in Actors : WF_vars(Abandon(a))
    /\ \A s \in Sessions :
         /\ SF_vars(\E kind \in Outcomes : <<s, kind>> \in pending /\ HookRead(s, kind))
         /\ SF_vars(\E kind \in Outcomes : <<s, kind>> \in pending /\ HookCommit(s, kind))

-----------------------------------------------------------------------------
(* What the checkout promises *)

\* A page the customer can still be charged on, or was and we have not heard.
Chargeable(s) ==
    /\ s \in shown \ released
    /\ session[s].state \in {"open", "clearing"} \/ <<s, "paid">> \in pending

\* ONE LIVE SESSION PER INVOICE (start_checkout): two tabs, or a tap while a bank
\* debit is clearing, must not become two payments.  Pages of a total the office
\* has repriced away are out of the code's hands and not counted.
OneLiveSession ==
    \A s, other \in Sessions : Chargeable(s) /\ Chargeable(other) => s = other

\* "You won't be charged twice": while a bank debit is going through, no other
\* page can be paid (the hold of start_checkout).
ClearingIsAHold ==
    \A s, other \in Sessions :
        Chargeable(s) /\ Chargeable(other) /\ session[s].state = "clearing" => s = other

\* The link on the row is for the total on the row: repricing kills it
\* (update_invoice), so no later tap hands out a page for an old amount.
LinkIsForTheTotal ==
    invoice.session # NoSession => session[invoice.session].amount = invoice.total

\* The webhook books only settled money that covers the invoice: not a form
\* filled in for a bank debit, not the old price (record_checkout_payment).
BooksOnlySettledMoney ==
    [][handler[Hook].pc = "recording" /\ handler'[Hook] = Idle
         /\ invoice'.status = "paid" /\ invoice.status # "paid"
       => LET s == handler[Hook].session IN
          session[s].state = "paid" /\ session[s].amount >= invoice.total]_vars

\* Only an office edit takes an invoice out of `paid`; sending and dunning never
\* do ("a marked-paid invoice can't be re-dunned", send_due_dunning).
PaidStaysPaid ==
    [][invoice.status = "paid" /\ invoice'.status # "paid"
         => \E e \in Staff : handler[e].pc = "editing" /\ handler'[e] = Idle]_vars

\* Money that arrived is booked, whatever became of the stored link meanwhile,
\* unless the invoice wants more than was paid.
PaymentIsRecorded ==
    \A s \in Sessions :
        <<s, "paid">> \in pending
            ~> invoice.status = "paid" \/ session[s].amount < invoice.total

\* A bounced debit does not lock the customer out: its hold is let go.
FailedDebitReleases ==
    \A s \in Sessions :
        session[s].state = "failed" /\ invoice.session = s ~> invoice.session # s
=============================================================================
