------------------------ MODULE InvoiceCheckoutProofs ------------------------
(***************************************************************************)
(* Proofs about InvoiceCheckout: typing, one live session per invoice for  *)
(* any number of taps, office requests and sessions, and what the row      *)
(* promises to overlapping requests, an oversight apart.                   *)
(***************************************************************************)
EXTENDS InvoiceCheckout, FiniteSetTheorems, TLAPS

\* A blank invoice and an idle handler are well formed.
LEMMA IdleTyped ==
    /\ Idle \in Handler /\ Idle.pc = "idle"
    /\ \A pc \in Phase \ {"created", "recording"}, row \in Invoice :
         [Idle EXCEPT !.pc = pc, !.loaded = row] \in Handler
    /\ \A s \in Sessions, kind \in Kinds, row \in Invoice :
         [Idle EXCEPT !.pc = "recording", !.loaded = row, !.session = s, !.kind = kind]
             \in Handler
<1>1. PICK p \in Prices : TRUE
  BY InvoiceAssumption
<1>2. (CHOOSE q \in Prices : TRUE) \in Prices
  BY <1>1, Zenon
<1>3. Blank \in Invoice
  BY <1>2 DEF Blank, Invoice, Statuses
<1> QED
  BY <1>3 DEF Idle, Handler, Kinds, Outcomes, Phase

\* What a handler writes back is a row, and a column it left alone stays.
LEMMA FlushTyped ==
    ASSUME invoice \in Invoice, NEW loaded \in Invoice, NEW new \in Invoice
    PROVE  /\ Flush(loaded, new) \in Invoice
           /\ new.session = loaded.session => Flush(loaded, new).session = invoice.session
  BY DEF Flush, Invoice

\* Ending a handler leaves all handlers well formed.
LEMMA FinishTyped ==
    ASSUME TypeOK, NEW a \in Actors, Finish(a)
    PROVE  handler' \in [Actors -> Handler]
  BY IdleTyped DEF TypeOK, Finish

\* No handler can leave the row, its own snapshot, or Stripe's books in a shape
\* the code does not know.
LEMMA TypeStep == TypeOK /\ [Next]_vars => TypeOK'
<1> SUFFICES ASSUME TypeOK, [Next]_vars PROVE TypeOK'
  OBVIOUS
<1>0. invoice \in Invoice /\ \A a \in Actors : handler[a].loaded \in Invoice
  BY DEF TypeOK, Handler
<1>1. ASSUME NEW t \in Taps, TapLock(t) PROVE TypeOK'
  BY <1>0, <1>1, IdleTyped DEF TypeOK, TapLock, Begin, stripe, Actors, Phase
<1>2. ASSUME NEW t \in Taps, TapReuse(t) PROVE TypeOK'
  <2>1. handler[t].loaded.session \in Sessions
    BY <1>0, <1>2 DEF TapReuse, Remembered, Invoice, Actors
  <2> QED
    BY <1>2, <2>1, FinishTyped DEF TypeOK, TapReuse, stripe, Actors
<1>3. ASSUME NEW t \in Taps, TapCreate(t) PROVE TypeOK'
  <2>1. PICK s \in Sessions :
          /\ session' = [session EXCEPT ![s] = [state |-> "open", lapsed |-> FALSE,
                                                amount |-> handler[t].loaded.total]]
          /\ handler' = [handler EXCEPT ![t] = [@ EXCEPT !.pc = "created", !.session = s]]
    BY <1>3 DEF TapCreate
  <2>2. handler' \in [Actors -> Handler]
    BY <2>1, ZenonT(40) DEF TypeOK, Handler, Actors, Phase
  <2>3. session' \in [Sessions -> Session]
    BY <1>0, <2>1 DEF TypeOK, Session, Invoice, Actors
  <2> QED
    BY <1>3, <2>2, <2>3 DEF TypeOK, TapCreate
<1>4. ASSUME NEW t \in Taps, TapCommit(t) PROVE TypeOK'
  <2>1. handler[t].session \in Sessions
    BY <1>4 DEF TypeOK, TapCommit, Handler, Actors
  <2>2. invoice' \in Invoice
    BY <1>0, <1>4, <2>1 DEF TapCommit, Invoice
  <2> QED
    BY <1>4, <2>1, <2>2, FinishTyped DEF TypeOK, TapCommit, stripe, Actors
<1>5. ASSUME NEW e \in Staff, NEW pc \in {"editing", "paying", "sending"}, OfficeLoad(e, pc)
      PROVE  TypeOK'
  BY <1>0, <1>5, IdleTyped DEF TypeOK, OfficeLoad, Begin, stripe, Actors, Phase
<1>6. ASSUME NEW e \in Staff, EditCommit(e) PROVE TypeOK'
  <2> DEFINE loaded == handler[e].loaded
  <2>1. PICK total \in Prices, status \in Statuses :
          invoice' = Flush(loaded, [status |-> status, total |-> total,
                       session |-> IF total = loaded.total THEN loaded.session ELSE NoSession])
    BY <1>6 DEF EditCommit
  <2>2. loaded \in Invoice
    BY <1>0 DEF Actors
  <2>3. invoice' \in Invoice
    BY <1>0, <2>1, <2>2 DEF Invoice, Flush
  <2>4. invoice'.session # invoice.session => invoice.session \in Sessions
    BY <1>0, <2>1, <2>2 DEF Invoice, Flush
  <2> QED
    BY <1>6, <2>3, <2>4, FinishTyped DEF TypeOK, EditCommit, stripe, Actors
<1>7. ASSUME NEW e \in Staff, PaymentCommit(e) PROVE TypeOK'
  <2>1. Recorded(handler[e].loaded) \in Invoice /\ handler[e].loaded \in Invoice
    BY <1>0 DEF Recorded, Invoice, Statuses, Actors
  <2> QED
    BY <1>0, <1>7, <2>1, FlushTyped, FinishTyped DEF TypeOK, PaymentCommit, stripe, Actors
<1>8. ASSUME NEW e \in Staff, SendCommit(e) PROVE TypeOK'
  <2> DEFINE loaded == handler[e].loaded
             new == [loaded EXCEPT !.status = IF @ = "draft" THEN "sent" ELSE @]
  <2>1. loaded \in Invoice /\ new \in Invoice
    BY <1>0 DEF Invoice, Statuses, Actors
  <2>2. invoice' = Flush(loaded, new)
    BY <1>8 DEF SendCommit
  <2>3. invoice' \in Invoice
    BY <1>0, <2>1, <2>2, FlushTyped
  <2> QED
    BY <1>8, <2>3, FinishTyped DEF TypeOK, SendCommit, stripe, Actors
<1>9. ASSUME DunningRead PROVE TypeOK'
  BY <1>0, <1>9, IdleTyped DEF TypeOK, DunningRead, Begin, stripe, Actors, Phase
<1>10. ASSUME DunningCommit PROVE TypeOK'
  <2> DEFINE loaded == handler[Ticker].loaded
             new == [loaded EXCEPT !.status = IF @ = "sent" THEN "overdue" ELSE @]
  <2>1. loaded \in Invoice /\ new \in Invoice
    BY <1>0 DEF Invoice, Statuses, Actors
  <2>2. invoice' = Flush(loaded, new)
    BY <1>10 DEF DunningCommit
  <2>3. invoice' \in Invoice
    BY <1>0, <2>1, <2>2, FlushTyped
  <2> QED
    BY <1>10, <2>3, FinishTyped DEF TypeOK, DunningCommit, stripe, Actors
<1>11. ASSUME NEW s \in Sessions, NEW from, NEW to \in {"clearing", "paid", "failed", "expired"},
              NEW kinds \in SUBSET Kinds, Moves(s, from, to, kinds)
       PROVE  TypeOK'
  <2>1. session' \in [Sessions -> Session]
    BY <1>11 DEF TypeOK, Moves, Session
  <2>2. pending' \subseteq Events
    BY <1>11 DEF TypeOK, Moves, Events
  <2> QED
    BY <1>11, <2>1, <2>2 DEF TypeOK, Moves
<1>12. ASSUME NEW s \in Sessions,
              \/ PayCard(s) \/ SubmitDebit(s) \/ DebitSettles(s) \/ DebitFails(s) \/ Expires(s)
       PROVE  TypeOK'
  BY <1>11, <1>12 DEF PayCard, SubmitDebit, DebitSettles, DebitFails, Expires, Kinds, Outcomes
<1>13. ASSUME NEW s \in Sessions, Lapses(s) PROVE TypeOK'
  BY <1>13, ZenonT(40) DEF TypeOK, Lapses, Session
<1>14. ASSUME NEW s \in Sessions, NEW kind \in Kinds, HookRead(s, kind) PROVE TypeOK'
  BY <1>0, <1>14, IdleTyped DEF TypeOK, HookRead, stripe, Actors
<1>15. ASSUME NEW s \in Sessions, NEW kind \in Kinds, HookCommit(s, kind) PROVE TypeOK'
  <2> DEFINE loaded == handler[Hook].loaded
  <2>1. loaded \in Invoice /\ Applied(loaded, s, kind) \in Invoice
    BY <1>0 DEF Applied, Recorded, Invoice, Statuses, Actors
  <2>2. invoice' \in Invoice
    BY <1>0, <1>15, <2>1, FlushTyped DEF HookCommit
  <2> QED
    BY <1>15, <2>2, FinishTyped DEF TypeOK, HookCommit, Events, Actors
<1>16. ASSUME NEW a \in Actors, Abandon(a) PROVE TypeOK'
  BY <1>16, FinishTyped DEF TypeOK, Abandon, stripe
<1>17. CASE UNCHANGED vars
  BY <1>17 DEF TypeOK, vars
<1> QED
  BY <1>1, <1>2, <1>3, <1>4, <1>5, <1>6, <1>7, <1>8, <1>9, <1>10, <1>12, <1>13, <1>14,
     <1>15, <1>16, <1>17 DEF Next

\* The states stay well formed.
THEOREM TypeCorrect == Spec => []TypeOK
<1>1. Init => TypeOK
  <2> SUFFICES ASSUME Init PROVE TypeOK
    OBVIOUS
  <2>1. Blank \in Invoice
    BY IdleTyped DEF Idle, Handler
  <2>2. invoice \in Invoice
    BY <2>1 DEF Init, Invoice
  <2> QED
    BY <2>2, IdleTyped DEF Init, TypeOK, Session, Events
<1> QED
  BY <1>1, TypeStep, PTL DEF Spec

-----------------------------------------------------------------------------
(***************************************************************************)
(* One live session per invoice.  The argument: a page the customer can    *)
(* still be charged on, or whose outcome we have not heard, is always the  *)
(* session stored on the row (`StoredIfTied`), and a new session is        *)
(* created only under the row lock, after the stored one was found dead    *)
(* (`NothingTied`).  Everything else says why a session found expired or   *)
(* past its expires_at is dead, and why a failed debit only ever takes its *)
(* own session off the row.                                                *)
(***************************************************************************)

\* The events of Stripe arrive once and in time.  A late failure of a repriced
\* session would take a newer one off the row: with bank debits the total is fixed.
CheckoutAssumption == Punctual /\ (Debits => \A p, q \in Prices : p = q)

\* Chargeable, or a debit that failed and whose event is on its way.
Tied(s) ==
    /\ s \in shown \ released
    /\ \/ session[s].state \in {"open", "clearing"}
       \/ \E kind \in Outcomes : <<s, kind>> \in pending

\* A tap that decides holds the row lock, and read the row under it.
DecidesUnderLock ==
    \A a \in Actors : handler[a].pc \in {"locked", "created"} =>
        /\ lock = a
        /\ handler[a].loaded.session = invoice.session

\* While a new session waits for its commit, no older page is alive.
NothingTied ==
    \A a \in Actors : handler[a].pc = "created" =>
        /\ session[handler[a].session].state # "none"
        /\ \A s \in Sessions : ~Tied(s)

\* A live page is the one on the row.
StoredIfTied == \A s \in Sessions : Tied(s) => invoice.session = s

\* Only created sessions are shown, and only shown ones take a bank debit.
ShownExists ==
    \A s \in Sessions :
        /\ s \in shown => session[s].state # "none"
        /\ session[s].state \in {"clearing", "failed"} => s \in shown /\ Debits

\* An event states how its session ended, and is pending or handled.
EventsTell ==
    \A s \in Sessions, kind \in Outcomes :
        /\ <<s, kind>> \in pending \cup handled => session[s].state = kind
        /\ <<s, kind>> \notin pending \cap handled

\* What is past its expires_at is over.
LapsedIsOver ==
    \A s \in Sessions : session[s].lapsed =>
        /\ session[s].state \notin {"none", "open", "clearing"}
        /\ \A kind \in Outcomes : <<s, kind>> \notin pending

\* The delivery at work has an event that nobody has handled.
HookHasPending ==
    handler[Hook].pc = "recording" => <<handler[Hook].session, handler[Hook].kind>> \in pending

\* With bank debits only its own failure takes a session off the row.
ReleasedFailed == Debits => \A s \in released : <<s, "failed">> \in handled

LiveInv ==
    /\ TypeOK
    /\ DecidesUnderLock /\ NothingTied /\ StoredIfTied
    /\ ShownExists /\ EventsTell /\ LapsedIsOver /\ HookHasPending /\ ReleasedFailed

\* A step that changes neither Stripe's books nor the stored session, and leaves
\* its handler outside a decision and a delivery.
LEMMA Quiet ==
    ASSUME LiveInv, TypeOK', NEW a \in Actors, NEW h \in Handler,
           handler' = [handler EXCEPT ![a] = h],
           h.pc \notin {"locked", "created", "recording"},
           lock' = lock \/ lock = a,
           invoice'.session = invoice.session,
           UNCHANGED <<session, pending, shown, handled, released>>
    PROVE  LiveInv'
<1>1. \A b \in Actors : b # a => handler'[b] = handler[b]
  BY DEF LiveInv, TypeOK
<1>2. handler'[a] = h
  BY DEF LiveInv, TypeOK
<1>3. \A s \in Sessions : Tied(s)' = Tied(s)
  BY DEF Tied
<1>4. DecidesUnderLock'
  BY <1>1, <1>2 DEF LiveInv, DecidesUnderLock
<1>5. NothingTied'
  BY <1>1, <1>2, <1>3 DEF LiveInv, NothingTied
<1>6. StoredIfTied'
  BY <1>3 DEF LiveInv, StoredIfTied
<1>7. HookHasPending'
  BY <1>1, <1>2 DEF LiveInv, HookHasPending, Actors
<1> QED
  BY <1>4, <1>5, <1>6, <1>7
     DEF LiveInv, ShownExists, EventsTell, LapsedIsOver, ReleasedFailed

\* What Stripe and the customer do to a page never makes a dead one live.
LEMMA StripeMoves ==
    ASSUME LiveInv, TypeOK', NEW s \in Sessions, NEW from, NEW to, NEW kinds \in SUBSET Kinds,
           Moves(s, from, to, kinds),
           from \in {"open", "clearing"},
           \/ to = "expired" /\ kinds = {}
           \/ to = "clearing" /\ kinds = {"submitted"} /\ s \in shown /\ Debits
           \/ to = "paid" /\ kinds = {"paid"}
           \/ to = "failed" /\ kinds = {"failed"} /\ from = "clearing"
    PROVE  LiveInv'
<1>1. /\ session[s].state = from /\ session'[s].state = to
      /\ \A x \in Sessions : session'[x].lapsed = session[x].lapsed
      /\ \A x \in Sessions \ {s} : session'[x] = session[x]
  BY DEF LiveInv, TypeOK, Session, Moves
<1>2. /\ \A x \in Sessions \ {s}, kind \in Kinds :
            <<x, kind>> \in pending' <=> <<x, kind>> \in pending
      /\ \A kind \in Kinds :
            <<s, kind>> \in pending' <=> <<s, kind>> \in pending \/ kind \in kinds
      /\ UNCHANGED <<invoice, lock, handler, shown, handled, released>>
  BY DEF Moves
<1>3. \A x \in Sessions : Tied(x)' => Tied(x)
  BY <1>1, <1>2 DEF Tied, Kinds
<1>4. \A kind \in Outcomes : <<s, kind>> \notin pending \cup handled
  BY <1>1 DEF LiveInv, EventsTell, Outcomes
<1>5. DecidesUnderLock'
  BY <1>2 DEF LiveInv, DecidesUnderLock
<1>6. NothingTied'
  <2> SUFFICES ASSUME NEW a \in Actors, handler'[a].pc = "created"
               PROVE  /\ session'[handler'[a].session].state # "none"
                      /\ \A x \in Sessions : ~Tied(x)'
    BY DEF NothingTied
  <2>1. handler[a].session \in Sessions
    BY <1>2 DEF LiveInv, TypeOK, Handler
  <2> QED
    BY <1>1, <1>2, <1>3, <2>1 DEF LiveInv, NothingTied
<1>7. StoredIfTied'
  BY <1>2, <1>3 DEF LiveInv, StoredIfTied
<1>8. ShownExists'
  BY <1>1, <1>2 DEF LiveInv, ShownExists
<1>9. EventsTell'
  BY <1>1, <1>2, <1>4 DEF LiveInv, EventsTell, Kinds, Outcomes
<1>10. LapsedIsOver'
  BY <1>1, <1>2 DEF LiveInv, LapsedIsOver, Kinds
<1>11. HookHasPending'
  BY <1>2 DEF LiveInv, HookHasPending, Moves
<1>12. ReleasedFailed'
  BY <1>2 DEF LiveInv, ReleasedFailed
<1> QED
  BY <1>5, <1>6, <1>7, <1>8, <1>9, <1>10, <1>11, <1>12 DEF LiveInv

\* A session created under the lock finds every older page dead.
LEMMA CreateStep ==
    ASSUME LiveInv, TypeOK', NEW t \in Taps, TapCreate(t)
    PROVE  LiveInv'
<1>1. PICK s \in Sessions :
        /\ session[s].state = "none"
        /\ session' = [session EXCEPT ![s] = [state |-> "open", lapsed |-> FALSE,
                                              amount |-> handler[t].loaded.total]]
        /\ handler' = [handler EXCEPT ![t] = [@ EXCEPT !.pc = "created", !.session = s]]
  BY DEF TapCreate
<1>2. /\ handler[t].pc = "locked" /\ t \in Actors
      /\ UNCHANGED <<invoice, lock, shown, pending, handled, released>>
  BY DEF TapCreate, Actors
<1>3. /\ session'[s].state = "open" /\ ~session'[s].lapsed
      /\ \A x \in Sessions \ {s} : session'[x] = session[x]
  BY <1>1 DEF LiveInv, TypeOK
<1>4. /\ handler'[t].pc = "created" /\ handler'[t].session = s
      /\ handler'[t].loaded = handler[t].loaded
      /\ \A b \in Actors : b # t => handler'[b] = handler[b]
  BY <1>1, <1>2 DEF LiveInv, TypeOK, Handler
<1>5. s \notin shown /\ \A kind \in Outcomes : <<s, kind>> \notin pending \cup handled
  BY <1>1 DEF LiveInv, ShownExists, EventsTell, Outcomes
<1>6. \A x \in Sessions : ~Tied(x)
  <2> SUFFICES ASSUME NEW x \in Sessions, Tied(x) PROVE FALSE
    OBVIOUS
  <2>1. handler[t].loaded.session = x
    BY <1>2 DEF LiveInv, StoredIfTied, DecidesUnderLock
  <2>2. ~session[x].lapsed
    BY DEF LiveInv, LapsedIsOver, Tied
  <2>3. session[x].state = "expired"
    BY <2>1, <2>2, InvoiceAssumption DEF TapCreate, Remembered
  <2> QED
    BY <2>3 DEF LiveInv, Tied, EventsTell, Outcomes
<1>7. \A x \in Sessions : ~Tied(x)'
  BY <1>2, <1>3, <1>5, <1>6 DEF Tied
<1>8. DecidesUnderLock'
  BY <1>2, <1>4 DEF LiveInv, DecidesUnderLock
<1>9. NothingTied'
  <2> SUFFICES ASSUME NEW a \in Actors, handler'[a].pc = "created"
               PROVE  session'[handler'[a].session].state # "none"
    BY <1>7 DEF NothingTied
  <2>1. a = t
    BY <1>2, <1>4 DEF LiveInv, DecidesUnderLock
  <2> QED
    BY <2>1, <1>3, <1>4
<1>10. ShownExists' /\ EventsTell' /\ LapsedIsOver' /\ ReleasedFailed'
  BY <1>1, <1>2, <1>3, <1>5
     DEF LiveInv, ShownExists, EventsTell, LapsedIsOver, ReleasedFailed
<1>11. HookHasPending'
  BY <1>2, <1>4 DEF LiveInv, HookHasPending, Actors
<1> QED
  BY <1>7, <1>8, <1>9, <1>10, <1>11 DEF LiveInv, StoredIfTied

\* The other steps of a tap: it locks and reads, hands back the open page, or
\* stores and hands out the new one.
LEMMA TapSteps ==
    ASSUME LiveInv, TypeOK', NEW t \in Taps, TapLock(t) \/ TapReuse(t) \/ TapCommit(t)
    PROVE  LiveInv'
<1> USE DEF stripe
<1>0. /\ t \in Actors /\ t # Hook /\ UNCHANGED <<session, pending, handled, released>>
      /\ \A a \in Actors : a # t => handler'[a] = handler[a]
  BY ActorAssumption DEF TapLock, TapReuse, TapCommit, Begin, Finish, LiveInv, TypeOK, Actors
<1>1. CASE TapLock(t)
  <2>1. /\ handler'[t].pc = "locked" /\ handler'[t].loaded = invoice
        /\ lock = NoOne /\ lock' = t /\ UNCHANGED <<invoice, shown>>
    BY <1>0, <1>1 DEF TapLock, Begin, Unlocked, LiveInv, TypeOK, Idle
  <2>2. \A s \in Sessions : Tied(s)' = Tied(s)
    BY <1>0, <2>1 DEF Tied
  <2>3. DecidesUnderLock'
    BY <1>0, <2>1, ActorAssumption DEF LiveInv, DecidesUnderLock
  <2>4. NothingTied'
    BY <1>0, <2>1, <2>2 DEF LiveInv, NothingTied
  <2> QED
    BY <1>0, <2>1, <2>2, <2>3, <2>4
       DEF LiveInv, StoredIfTied, ShownExists, EventsTell, LapsedIsOver, HookHasPending,
           ReleasedFailed, Actors
<1>2. CASE TapReuse(t)
  <2> DEFINE s == handler[t].loaded.session
  <2>1. /\ s \in Sessions /\ session[s].state = "open" /\ invoice.session = s
        /\ handler[t].pc = "locked" /\ lock = t
    BY <1>0, <1>2 DEF TapReuse, Remembered, LiveInv, TypeOK, DecidesUnderLock, Handler, Invoice
  <2>2. /\ handler'[t].pc = "idle" /\ lock' = NoOne
        /\ shown' = shown \cup {s} /\ UNCHANGED invoice
    BY <1>0, <1>2, IdleTyped DEF TapReuse, Finish, LiveInv, TypeOK
  <2>3. \A x \in Sessions : Tied(x)' => Tied(x) \/ x = s
    BY <1>0, <2>2 DEF Tied
  <2>4. \A a \in Actors : handler'[a].pc \notin {"locked", "created"}
    BY <1>0, <2>1, <2>2 DEF LiveInv, DecidesUnderLock
  <2>5. DecidesUnderLock' /\ NothingTied'
    BY <2>4 DEF DecidesUnderLock, NothingTied
  <2>6. StoredIfTied'
    BY <2>1, <2>2, <2>3 DEF LiveInv, StoredIfTied
  <2> QED
    BY <1>0, <2>1, <2>2, <2>5, <2>6
       DEF LiveInv, ShownExists, EventsTell, LapsedIsOver, HookHasPending, ReleasedFailed, Actors
<1>3. CASE TapCommit(t)
  <2> DEFINE s == handler[t].session
  <2>1. /\ s \in Sessions /\ session[s].state # "none" /\ handler[t].pc = "created" /\ lock = t
        /\ \A x \in Sessions : ~Tied(x)
    BY <1>0, <1>3 DEF TapCommit, LiveInv, TypeOK, DecidesUnderLock, NothingTied, Handler
  <2>2. /\ handler'[t].pc = "idle" /\ lock' = NoOne
        /\ shown' = shown \cup {s} /\ invoice'.session = s
    BY <1>0, <1>3, IdleTyped DEF TapCommit, Finish, LiveInv, TypeOK, Invoice
  <2>3. \A x \in Sessions : Tied(x)' => x = s
    BY <1>0, <2>1, <2>2 DEF Tied
  <2>4. \A a \in Actors : handler'[a].pc \notin {"locked", "created"}
    BY <1>0, <2>1, <2>2 DEF LiveInv, DecidesUnderLock
  <2>5. DecidesUnderLock' /\ NothingTied'
    BY <2>4 DEF DecidesUnderLock, NothingTied
  <2>6. StoredIfTied'
    BY <2>2, <2>3 DEF StoredIfTied
  <2> QED
    BY <1>0, <2>1, <2>2, <2>5, <2>6
       DEF LiveInv, ShownExists, EventsTell, LapsedIsOver, HookHasPending, ReleasedFailed, Actors
<1> QED
  BY <1>1, <1>2, <1>3

\* The steps that may take the stored session off the row, an edit and a
\* delivery, wait for the lock and note what they took.
LEMMA RowSteps ==
    ASSUME LiveInv, TypeOK', NEW a \in Actors, Finish(a), lock = NoOne,
           UNCHANGED <<lock, session, shown>>,
           pending' \subseteq pending, handled \subseteq handled', released \subseteq released',
           \A s \in Sessions : Tied(s)' => invoice'.session = invoice.session,
           ShownExists', EventsTell', HookHasPending', ReleasedFailed'
    PROVE  LiveInv'
<1>1. \A b \in Actors : handler'[b].pc \notin {"locked", "created"}
  BY ActorAssumption, IdleTyped DEF Finish, LiveInv, TypeOK, DecidesUnderLock
<1>2. DecidesUnderLock' /\ NothingTied'
  BY <1>1 DEF DecidesUnderLock, NothingTied
<1>3. \A s \in Sessions : Tied(s)' => Tied(s)
  BY DEF Tied
<1>4. StoredIfTied'
  BY <1>3 DEF LiveInv, StoredIfTied
<1>5. LapsedIsOver'
  BY DEF LiveInv, LapsedIsOver
<1> QED
  BY <1>2, <1>4, <1>5 DEF LiveInv

LEMMA EditStep ==
    ASSUME CheckoutAssumption, LiveInv, TypeOK', NEW e \in Staff, EditCommit(e)
    PROVE  LiveInv'
<1> DEFINE loaded == handler[e].loaded
<1>0. /\ e \in Actors /\ e # Hook /\ loaded \in Invoice /\ invoice \in Invoice
      /\ Finish(e) /\ lock = NoOne /\ UNCHANGED <<lock, session, shown, pending, handled>>
      /\ handler'[Hook] = handler[Hook]
  BY ActorAssumption DEF Actors, LiveInv, TypeOK, Handler, EditCommit, Unlocked, stripe, Finish
<1>1. PICK total \in Prices, status \in Statuses :
        invoice' = Flush(loaded, [status |-> status, total |-> total,
                     session |-> IF total = loaded.total THEN loaded.session ELSE NoSession])
  BY DEF EditCommit
<1>2. /\ invoice'.session \in {invoice.session, NoSession}
      /\ total = loaded.total => invoice'.session = invoice.session
  BY <1>0, <1>1 DEF Flush, Invoice
<1>3. released' = IF invoice'.session = invoice.session THEN released
                  ELSE released \cup {invoice.session}
  BY DEF EditCommit
<1>4. \A s \in Sessions : Tied(s)' => Tied(s) /\ s \notin released'
  BY <1>0, <1>3 DEF Tied
<1>5. \A s \in Sessions : Tied(s)' => invoice'.session = invoice.session
  BY <1>3, <1>4 DEF LiveInv, StoredIfTied
<1>6. Debits => total = loaded.total
  BY <1>0 DEF CheckoutAssumption, Invoice
<1>7. ReleasedFailed'
  BY <1>0, <1>2, <1>3, <1>6 DEF LiveInv, ReleasedFailed
<1>8. ShownExists' /\ EventsTell' /\ HookHasPending'
  BY <1>0 DEF LiveInv, ShownExists, EventsTell, HookHasPending
<1> QED
  BY <1>0, <1>3, <1>5, <1>7, <1>8, RowSteps

LEMMA HookSteps ==
    ASSUME CheckoutAssumption, LiveInv, TypeOK', NEW s \in Sessions, NEW kind \in Kinds,
           HookRead(s, kind) \/ HookCommit(s, kind)
    PROVE  LiveInv'
<1>0. /\ Hook \in Actors /\ handler \in [Actors -> Handler] /\ invoice \in Invoice
      /\ handler[Hook].loaded \in Invoice
  BY DEF Actors, LiveInv, TypeOK, Handler
<1>1. CASE HookRead(s, kind)
  <2>1. /\ handler'[Hook].pc = "recording" /\ handler'[Hook].session = s
        /\ handler'[Hook].kind = kind /\ <<s, kind>> \in pending
        /\ \A a \in Actors : a # Hook => handler'[a] = handler[a]
        /\ UNCHANGED <<invoice, lock, session, pending, shown, handled, released>>
    BY <1>0, <1>1 DEF HookRead, Idle, stripe, CheckoutAssumption
  <2>2. \A x \in Sessions : Tied(x)' = Tied(x)
    BY <2>1 DEF Tied
  <2>3. DecidesUnderLock'
    BY <2>1 DEF LiveInv, DecidesUnderLock
  <2>4. NothingTied'
    BY <2>1, <2>2 DEF LiveInv, NothingTied
  <2> QED
    BY <2>1, <2>2, <2>3, <2>4
       DEF LiveInv, StoredIfTied, ShownExists, EventsTell, LapsedIsOver, HookHasPending,
           ReleasedFailed
<1>2. CASE HookCommit(s, kind)
  <2> DEFINE loaded == handler[Hook].loaded
  <2>1. /\ invoice' = Flush(loaded, Applied(loaded, s, kind)) /\ lock = NoOne
        /\ Finish(Hook) /\ UNCHANGED <<lock, session, shown>>
        /\ pending' = pending \ {<<s, kind>>} /\ handled' = handled \cup {<<s, kind>>}
        /\ released' = IF invoice.session = s /\ invoice'.session # s
                       THEN released \cup {s} ELSE released
        /\ <<s, kind>> \in pending
    BY <1>2 DEF HookCommit, Unlocked, LiveInv, HookHasPending
  <2>2. kind # "failed" => invoice'.session = invoice.session
    BY <1>0, <2>1 DEF Flush, Applied, Recorded, Invoice
  \* A failure: the session is its own, so it is the one taken off the row.
  <2>3. ASSUME kind = "failed" PROVE Debits /\ Tied(s) /\ invoice.session = s
    <3>1. session[s].state = "failed" /\ <<s, kind>> \notin handled
      BY <2>1, <2>3 DEF LiveInv, EventsTell, Outcomes
    <3>2. s \in shown /\ Debits
      BY <3>1 DEF LiveInv, ShownExists
    <3>3. s \notin released
      BY <2>3, <3>1, <3>2 DEF LiveInv, ReleasedFailed
    <3> QED
      BY <2>1, <2>3, <3>2, <3>3 DEF Tied, Outcomes, LiveInv, StoredIfTied
  <2>4. \A x \in Sessions : Tied(x)' => Tied(x) /\ x \notin released'
    BY <2>1 DEF Tied
  <2>5. \A x \in Sessions : Tied(x)' => invoice'.session = invoice.session
    BY <2>1, <2>2, <2>3, <2>4 DEF LiveInv, StoredIfTied
  <2>6. ReleasedFailed'
    BY <2>1, <2>2 DEF LiveInv, ReleasedFailed
  <2>7. ShownExists' /\ EventsTell'
    BY <2>1 DEF LiveInv, ShownExists, EventsTell
  <2>8. HookHasPending'
    BY <1>0, <2>1, IdleTyped DEF Finish, HookHasPending
  <2> QED
    BY <1>0, <2>1, <2>5, <2>6, <2>7, <2>8, RowSteps
<1> QED
  BY <1>1, <1>2

\* A stored session passes its expires_at only once it is over.
LEMMA LapseStep ==
    ASSUME CheckoutAssumption, LiveInv, TypeOK', NEW s \in Sessions, Lapses(s)
    PROVE  LiveInv'
<1>1. /\ \A x \in Sessions : session'[x].state = session[x].state
      /\ \A x \in Sessions \ {s} : session'[x].lapsed = session[x].lapsed
      /\ UNCHANGED <<invoice, lock, handler, shown, pending, handled, released>>
  BY DEF LiveInv, TypeOK, Session, Lapses
<1>2. session[s].state = "expired" \/ \E kind \in Outcomes : <<s, kind>> \in handled
  BY DEF Lapses, Answered, CheckoutAssumption
<1>3. /\ session[s].state \notin {"none", "open", "clearing"}
      /\ \A kind \in Outcomes : <<s, kind>> \notin pending
  BY <1>2 DEF LiveInv, EventsTell, Outcomes
<1>4. \A x \in Sessions : Tied(x)' = Tied(x)
  BY <1>1 DEF Tied
<1>5. NothingTied'
  <2> SUFFICES ASSUME NEW a \in Actors, handler'[a].pc = "created"
               PROVE  /\ session'[handler'[a].session].state # "none"
                      /\ \A x \in Sessions : ~Tied(x)'
    BY DEF NothingTied
  <2>1. handler[a].session \in Sessions
    BY <1>1 DEF LiveInv, TypeOK, Handler
  <2> QED
    BY <1>1, <1>4, <2>1 DEF LiveInv, NothingTied
<1> QED
  BY <1>1, <1>3, <1>4, <1>5
     DEF LiveInv, DecidesUnderLock, StoredIfTied, ShownExists, EventsTell, LapsedIsOver,
         HookHasPending, ReleasedFailed

\* ONE LIVE SESSION PER INVOICE, for any number of taps, office requests, ticks
\* and sessions in flight: the lock of start_checkout and its hold on a clearing
\* debit keep two pages from being chargeable at once.
THEOREM OneLive ==
    ASSUME CheckoutAssumption
    PROVE  Spec => []OneLiveSession
<1>1. Init => LiveInv
  <2> SUFFICES ASSUME Init PROVE LiveInv
    OBVIOUS
  <2>1. Blank \in Invoice
    BY IdleTyped DEF Idle, Handler
  <2>2. TypeOK
    <3>1. invoice \in Invoice
      BY <2>1 DEF Init, Invoice
    <3> QED
      BY <3>1, IdleTyped DEF Init, TypeOK, Session, Events
  <2> QED
    BY <2>2, IdleTyped
       DEF Init, LiveInv, DecidesUnderLock, NothingTied, StoredIfTied, Tied, ShownExists,
           EventsTell, LapsedIsOver, HookHasPending, ReleasedFailed, Actors
<1>2. LiveInv /\ [Next]_vars => LiveInv'
  <2> SUFFICES ASSUME LiveInv, [Next]_vars PROVE LiveInv'
    OBVIOUS
  <2>0. TypeOK'
    BY TypeStep DEF LiveInv
  <2>1. ASSUME NEW t \in Taps, TapLock(t) \/ TapReuse(t) \/ TapCreate(t) \/ TapCommit(t)
        PROVE  LiveInv'
    BY <2>0, <2>1, TapSteps, CreateStep
  <2>2. ASSUME NEW e \in Staff, NEW pc \in {"editing", "paying", "sending"}, OfficeLoad(e, pc)
        PROVE  LiveInv'
    <3>1. [Idle EXCEPT !.pc = pc, !.loaded = invoice] \in Handler
      BY IdleTyped DEF Phase, LiveInv, TypeOK
    <3>2. [Idle EXCEPT !.pc = pc, !.loaded = invoice].pc = pc
      BY DEF Idle
    <3> QED
      BY <2>0, <2>2, <3>1, <3>2, Quiet DEF OfficeLoad, Begin, stripe, Actors
  <2>3. ASSUME NEW e \in Staff, EditCommit(e) PROVE LiveInv'
    BY <2>0, <2>3, EditStep
  <2>4. ASSUME NEW e \in Staff, PaymentCommit(e) PROVE LiveInv'
    <3>1. /\ handler[e].loaded \in Invoice /\ Recorded(handler[e].loaded) \in Invoice
          /\ Recorded(handler[e].loaded).session = handler[e].loaded.session
      BY DEF LiveInv, TypeOK, Handler, Recorded, Invoice, Statuses, Actors
    <3>2. invoice'.session = invoice.session
      BY <2>4, <3>1, FlushTyped DEF PaymentCommit, LiveInv, TypeOK
    <3> QED
      BY <2>0, <2>4, <3>2, Quiet, IdleTyped DEF PaymentCommit, Finish, stripe, Actors
  <2>5. ASSUME NEW e \in Staff, SendCommit(e) PROVE LiveInv'
    <3> DEFINE loaded == handler[e].loaded
               new == [loaded EXCEPT !.status = IF @ = "draft" THEN "sent" ELSE @]
    <3>1. loaded \in Invoice /\ new \in Invoice /\ new.session = loaded.session
      BY DEF LiveInv, TypeOK, Handler, Invoice, Statuses, Actors
    <3>2. invoice' = Flush(loaded, new)
      BY <2>5 DEF SendCommit
    <3>3. invoice'.session = invoice.session
      BY <3>1, <3>2, FlushTyped DEF LiveInv, TypeOK
    <3> QED
      BY <2>0, <2>5, <3>3, Quiet, IdleTyped DEF SendCommit, Finish, stripe, Actors
  <2>6. ASSUME DunningRead PROVE LiveInv'
    <3>1. [Idle EXCEPT !.pc = "dunning", !.loaded = invoice] \in Handler
      BY IdleTyped DEF Phase, LiveInv, TypeOK
    <3>2. [Idle EXCEPT !.pc = "dunning", !.loaded = invoice].pc = "dunning"
      BY DEF Idle
    <3> QED
      BY <2>0, <2>6, <3>1, <3>2, Quiet DEF DunningRead, Begin, stripe, Actors
  <2>7. ASSUME DunningCommit PROVE LiveInv'
    <3> DEFINE loaded == handler[Ticker].loaded
               new == [loaded EXCEPT !.status = IF @ = "sent" THEN "overdue" ELSE @]
    <3>1. loaded \in Invoice /\ new \in Invoice /\ new.session = loaded.session
      BY DEF LiveInv, TypeOK, Handler, Invoice, Statuses, Actors
    <3>2. invoice' = Flush(loaded, new)
      BY <2>7 DEF DunningCommit
    <3>3. invoice'.session = invoice.session
      BY <3>1, <3>2, FlushTyped DEF LiveInv, TypeOK
    <3> QED
      BY <2>0, <2>7, <3>3, Quiet, IdleTyped DEF DunningCommit, Finish, stripe, Actors
  <2>8. ASSUME NEW s \in Sessions, PayCard(s) \/ SubmitDebit(s) PROVE LiveInv'
    BY <2>0, <2>8, StripeMoves DEF PayCard, SubmitDebit, Kinds, Outcomes
  <2>9. ASSUME NEW s \in Sessions, DebitSettles(s) \/ DebitFails(s) \/ Expires(s) PROVE LiveInv'
    BY <2>0, <2>9, StripeMoves DEF DebitSettles, DebitFails, Expires, Kinds, Outcomes
  <2>10. ASSUME NEW s \in Sessions, Lapses(s) PROVE LiveInv'
    BY <2>0, <2>10, LapseStep
  <2>11. ASSUME NEW s \in Sessions, NEW kind \in Kinds, HookRead(s, kind) \/ HookCommit(s, kind)
         PROVE  LiveInv'
    BY <2>0, <2>11, HookSteps
  <2>12. ASSUME NEW a \in Actors, Abandon(a) PROVE LiveInv'
    BY <2>0, <2>12, Quiet, IdleTyped DEF Abandon, Finish, stripe
  <2>13. CASE UNCHANGED vars
    BY <2>13
       DEF vars, LiveInv, TypeOK, DecidesUnderLock, NothingTied, StoredIfTied, Tied, ShownExists,
           EventsTell, LapsedIsOver, HookHasPending, ReleasedFailed
  <2> QED
    BY <2>1, <2>2, <2>3, <2>4, <2>5, <2>6, <2>7, <2>8, <2>9, <2>10, <2>11, <2>12, <2>13 DEF Next
<1>3. LiveInv => OneLiveSession
  BY DEF LiveInv, StoredIfTied, Tied, OneLiveSession, Chargeable, Outcomes
<1> QED
  BY <1>1, <1>2, <1>3, PTL DEF Spec
-----------------------------------------------------------------------------
(***************************************************************************)
(* Requests that overlap freely, whatever Stripe sends and however late.   *)
(* The argument: nobody writes the row while a tap holds it                *)
(* (`HoldsTheRow`), so a page is created for the total on the row; a       *)
(* stored session exists at Stripe (`StoredExists`), so no later tap can   *)
(* create it again for another amount; and an event says what Stripe's     *)
(* books say.  What is left is the flush of a request that read the row    *)
(* before somebody else wrote it, and of those only one kind per property  *)
(* does harm.                                                              *)
(***************************************************************************)

\* An edit writes back a row it read before the link was stored on it.
OverlooksTheLink ==
    \E e \in Staff :
        /\ EditCommit(e)
        /\ handler[e].loaded.session = NoSession /\ invoice.session # NoSession

\* The recorder judges a payment by a total that has been raised meanwhile.
OverlooksTheRaise ==
    /\ \E s \in Sessions, kind \in Kinds : HookCommit(s, kind)
    /\ handler[Hook].loaded.total < invoice.total

\* A send of a draft, or the dunning of a sent invoice, that was paid meanwhile.
OverlooksThePayment ==
    /\ \/ \E e \in Staff : SendCommit(e) /\ handler[e].loaded.status = "draft"
       \/ DunningCommit /\ handler[Ticker].loaded.status = "sent"
    /\ invoice.status = "paid"

\* A tap that decides holds the lock, and the row as it is.
HoldsTheRow ==
    \A a \in Actors : handler[a].pc \in {"locked", "created"} =>
        lock = a /\ handler[a].loaded = invoice

\* The stored session was created.
StoredExists == invoice.session # NoSession => session[invoice.session].state # "none"

\* The session that waits for its commit was created for the total on the row.
CreatedForTheTotal ==
    \A a \in Actors : handler[a].pc = "created" =>
        /\ session[handler[a].session].state # "none"
        /\ session[handler[a].session].amount = invoice.total

\* `paid` is announced of paid sessions only, and a delivery at work has an event.
PaidIsSettled ==
    /\ \A s \in Sessions : <<s, "paid">> \in pending \cup handled => session[s].state = "paid"
    /\ handler[Hook].pc = "recording" =>
         <<handler[Hook].session, handler[Hook].kind>> \in pending \cup handled

RowInv == TypeOK /\ HoldsTheRow /\ StoredExists /\ CreatedForTheTotal /\ PaidIsSettled

\* What a step may do to the row.
BooksSettled ==
    handler[Hook].pc = "recording" /\ handler'[Hook] = Idle
         /\ invoice'.status = "paid" /\ invoice.status # "paid"
       => LET s == handler[Hook].session IN
          session[s].state = "paid" /\ session[s].amount >= invoice.total

StaysPaid ==
    invoice.status = "paid" /\ invoice'.status # "paid"
         => \E e \in Staff : handler[e].pc = "editing" /\ handler'[e] = Idle

\* What every step keeps, an oversight apart.
RowPromise ==
    /\ RowInv'
    /\ LinkIsForTheTotal /\ ~OverlooksTheLink => LinkIsForTheTotal'
    /\ ~OverlooksTheRaise => BooksSettled
    /\ ~OverlooksThePayment => StaysPaid

\* A step that keeps the status and the total, and at most drops the link.
LEMMA RowKept ==
    ASSUME RowInv, RowInv',
           invoice'.status = invoice.status, invoice'.total = invoice.total,
           invoice'.session \in {invoice.session, NoSession},
           \A x \in Sessions : session[x].state # "none" => session'[x].amount = session[x].amount
    PROVE  RowPromise
<1>1. LinkIsForTheTotal => LinkIsForTheTotal'
  BY DEF LinkIsForTheTotal, RowInv, StoredExists, TypeOK, Invoice
<1>2. BooksSettled /\ StaysPaid
  BY DEF BooksSettled, StaysPaid
<1> QED
  BY <1>1, <1>2 DEF RowPromise

\* A request that reads the row first.
LEMMA RowBegin ==
    ASSUME RowInv, TypeOK', NEW a \in Actors, NEW h, handler' = [handler EXCEPT ![a] = h],
           h.loaded = invoice, h.pc # "created",
           IF h.pc = "locked" THEN Unlocked /\ lock' = a ELSE lock' = lock,
           h.pc = "recording" => <<h.session, h.kind>> \in pending \cup handled,
           a # Hook => h.pc # "recording",
           UNCHANGED <<invoice, session, pending, handled>>
    PROVE  RowPromise
<1>1. handler'[a] = h /\ \A b \in Actors : b # a => handler'[b] = handler[b]
  BY DEF RowInv, TypeOK
<1>2. HoldsTheRow'
  BY <1>1, ActorAssumption DEF RowInv, HoldsTheRow, Unlocked
<1>3. CreatedForTheTotal'
  BY <1>1 DEF RowInv, CreatedForTheTotal
<1>4. PaidIsSettled'
  BY <1>1 DEF RowInv, PaidIsSettled, Actors
<1>5. RowInv'
  BY <1>2, <1>3, <1>4 DEF RowInv, StoredExists
<1> QED
  BY <1>5, RowKept

\* A request that ends, with the row it leaves behind.
LEMMA RowEnd ==
    ASSUME RowInv, TypeOK', NEW a \in Actors, Finish(a),
           lock' = IF lock = a THEN NoOne ELSE lock,
           invoice' = invoice \/ lock \in {a, NoOne},
           UNCHANGED session, StoredExists', pending' \cup handled' = pending \cup handled
    PROVE  RowInv'
<1>1. /\ handler'[a].pc = "idle"
      /\ \A b \in Actors : b # a => handler'[b] = handler[b]
  BY IdleTyped DEF Finish, RowInv, TypeOK
<1>2. \A b \in Actors : b # a /\ handler[b].pc \in {"locked", "created"} =>
        lock' = b /\ invoice' = invoice
  BY ActorAssumption DEF RowInv, HoldsTheRow
<1>3. HoldsTheRow'
  BY <1>1, <1>2 DEF RowInv, HoldsTheRow
<1>4. CreatedForTheTotal'
  BY <1>1, <1>2 DEF RowInv, CreatedForTheTotal
<1>5. PaidIsSettled'
  BY <1>1 DEF RowInv, PaidIsSettled, Actors
<1> QED
  BY <1>3, <1>4, <1>5 DEF RowInv

\* A handler that writes the row back never invents a link.
LEMMA RowWrite ==
    ASSUME RowInv, TypeOK', NEW a \in Actors, Finish(a), Unlocked, lock' = lock,
           NEW new \in Invoice, invoice' = Flush(handler[a].loaded, new),
           new.session \in {handler[a].loaded.session, NoSession},
           UNCHANGED session, pending' \cup handled' = pending \cup handled
    PROVE  RowInv' /\ invoice'.session \in {invoice.session, NoSession}
<1>1. invoice'.session \in {invoice.session, NoSession}
  BY DEF Flush
<1>2. StoredExists'
  BY <1>1 DEF RowInv, StoredExists
<1> QED
  BY <1>1, <1>2, RowEnd, ActorAssumption DEF Unlocked

\* Stripe's books move: amounts stay, and what is paid stays paid.
LEMMA RowBooks ==
    ASSUME RowInv, TypeOK', NEW s \in Sessions, NEW kinds \in SUBSET Kinds,
           \A x \in Sessions : session'[x].amount = session[x].amount,
           \A x \in Sessions : session[x].state # "none" => session'[x].state # "none",
           \A x \in Sessions : session[x].state = "paid" => session'[x].state = "paid",
           "paid" \in kinds => session'[s].state = "paid",
           pending' = pending \cup {<<s, kind>> : kind \in kinds},
           UNCHANGED <<invoice, lock, handler, handled>>
    PROVE  RowPromise
<1>1. HoldsTheRow'
  BY DEF RowInv, HoldsTheRow
<1>2. StoredExists'
  BY DEF RowInv, TypeOK, Invoice, StoredExists
<1>3. CreatedForTheTotal'
  <2> SUFFICES ASSUME NEW a \in Actors, handler'[a].pc = "created"
               PROVE  /\ session'[handler'[a].session].state # "none"
                      /\ session'[handler'[a].session].amount = invoice'.total
    BY DEF CreatedForTheTotal
  <2>1. handler[a].session \in Sessions
    BY DEF RowInv, TypeOK, Handler
  <2> QED
    BY <2>1 DEF RowInv, CreatedForTheTotal
<1>4. PaidIsSettled'
  BY DEF RowInv, PaidIsSettled
<1>5. RowInv'
  BY <1>1, <1>2, <1>3, <1>4 DEF RowInv
<1> QED
  BY <1>5, RowKept

\* A tap: a new page is created, and stored, for the total read under the lock.
LEMMA RowTap ==
    ASSUME RowInv, TypeOK', NEW t \in Taps,
           TapLock(t) \/ TapReuse(t) \/ TapCreate(t) \/ TapCommit(t)
    PROVE  RowPromise
<1>0. t \in Actors /\ t # Hook
  BY ActorAssumption DEF Actors
<1>1. CASE TapLock(t)
  <2> DEFINE h == [Idle EXCEPT !.pc = "locked", !.loaded = invoice]
  <2>1. h.loaded = invoice /\ h.pc = "locked"
    BY DEF Idle
  <2>2. /\ Unlocked /\ lock' = t /\ handler' = [handler EXCEPT ![t] = h]
        /\ UNCHANGED <<invoice, session, pending, handled>>
    BY <1>1 DEF TapLock, Begin, stripe
  <2> HIDE DEF h
  <2> QED
    BY <1>0, <2>1, <2>2, RowBegin
<1>2. CASE TapReuse(t)
  <2>1. /\ Finish(t) /\ lock = t /\ lock' = NoOne
        /\ UNCHANGED <<invoice, session, pending, handled>>
    BY <1>0, <1>2 DEF TapReuse, stripe, RowInv, HoldsTheRow
  <2>2. StoredExists'
    BY <2>1 DEF RowInv, StoredExists
  <2>3. RowInv'
    BY <1>0, <2>1, <2>2, RowEnd
  <2> QED
    BY <2>1, <2>3, RowKept
<1>3. CASE TapCreate(t)
  <2>1. PICK s \in Sessions :
          /\ session[s].state = "none"
          /\ session' = [session EXCEPT ![s] = [state |-> "open", lapsed |-> FALSE,
                                                amount |-> handler[t].loaded.total]]
          /\ handler' = [handler EXCEPT ![t] = [@ EXCEPT !.pc = "created", !.session = s]]
    BY <1>3 DEF TapCreate
  <2>2. /\ handler[t].pc = "locked" /\ lock = t /\ handler[t].loaded = invoice
        /\ UNCHANGED <<invoice, lock, pending, handled>>
    BY <1>0, <1>3 DEF TapCreate, RowInv, HoldsTheRow
  <2>3. /\ session'[s].state = "open" /\ session'[s].amount = invoice.total
        /\ \A x \in Sessions \ {s} : session'[x] = session[x]
    BY <2>1, <2>2 DEF RowInv, TypeOK
  <2>4. /\ handler'[t].pc = "created" /\ handler'[t].session = s
        /\ handler'[t].loaded = invoice
        /\ \A b \in Actors : b # t => handler'[b] = handler[b]
    BY <1>0, <2>1, <2>2 DEF RowInv, TypeOK, Handler
  <2>5. \A b \in Actors : handler'[b].pc = "created" => b = t
    BY <2>2, <2>4 DEF RowInv, HoldsTheRow
  <2>6. HoldsTheRow' /\ CreatedForTheTotal'
    BY <2>2, <2>3, <2>4, <2>5 DEF RowInv, HoldsTheRow, CreatedForTheTotal
  <2>7. StoredExists'
    BY <2>1, <2>2, <2>3 DEF RowInv, TypeOK, Invoice, StoredExists
  <2>8. PaidIsSettled'
    BY <1>0, <2>1, <2>2, <2>3, <2>4 DEF RowInv, PaidIsSettled, Actors
  <2>9. RowInv'
    BY <2>6, <2>7, <2>8 DEF RowInv
  <2>10. \A x \in Sessions : session[x].state # "none" => session'[x].amount = session[x].amount
    BY <2>1, <2>3
  <2> QED
    BY <2>2, <2>9, <2>10, RowKept
<1>4. CASE TapCommit(t)
  <2>1. /\ handler[t].pc = "created" /\ lock = t /\ lock' = NoOne /\ Finish(t)
        /\ invoice' = [invoice EXCEPT !.session = handler[t].session]
        /\ UNCHANGED <<session, pending, handled>>
    BY <1>0, <1>4 DEF TapCommit, stripe, RowInv, HoldsTheRow
  <2>2. /\ invoice'.session = handler[t].session /\ invoice'.total = invoice.total
        /\ invoice'.status = invoice.status
    BY <2>1 DEF RowInv, TypeOK, Invoice
  <2>3. StoredExists' /\ LinkIsForTheTotal'
    BY <1>0, <2>1, <2>2 DEF RowInv, CreatedForTheTotal, StoredExists, LinkIsForTheTotal
  <2>4. RowInv'
    BY <1>0, <2>1, <2>3, RowEnd
  <2>5. BooksSettled /\ StaysPaid
    BY <2>2 DEF BooksSettled, StaysPaid
  <2> QED
    BY <2>3, <2>4, <2>5 DEF RowPromise
<1> QED
  BY <1>1, <1>2, <1>3, <1>4

\* The edit: only one that never saw the link leaves it on a new total.
LEMMA RowEdit ==
    ASSUME RowInv, TypeOK', NEW e \in Staff, EditCommit(e)
    PROVE  RowPromise
<1> DEFINE loaded == handler[e].loaded
<1>0. e \in Actors /\ e # Hook
  BY ActorAssumption DEF Actors
<1>1. PICK total \in Prices, status \in Statuses :
        invoice' = Flush(loaded, [status |-> status, total |-> total,
                     session |-> IF total = loaded.total THEN loaded.session ELSE NoSession])
  BY DEF EditCommit
<1> DEFINE new == [status |-> status, total |-> total,
                   session |-> IF total = loaded.total THEN loaded.session ELSE NoSession]
<1>2. loaded \in Invoice /\ invoice \in Invoice
  BY <1>0 DEF RowInv, TypeOK, Handler
<1>3. /\ new \in Invoice /\ new.session \in {loaded.session, NoSession}
      /\ invoice' = Flush(loaded, new)
      /\ new.total # loaded.total => new.session = NoSession
  BY <1>1, <1>2 DEF Invoice
<1> HIDE DEF new
<1>4. /\ Finish(e) /\ Unlocked /\ lock' = lock /\ handler[e].pc = "editing"
      /\ UNCHANGED <<session, pending, handled>>
  BY DEF EditCommit, stripe
<1>5. RowInv'
  BY <1>0, <1>3, <1>4, RowWrite
<1>6. ASSUME LinkIsForTheTotal, ~OverlooksTheLink PROVE LinkIsForTheTotal'
  <2>1. loaded.session # NoSession \/ invoice.session = NoSession
    BY <1>6 DEF OverlooksTheLink
  <2>2. invoice'.session = invoice.session /\ invoice'.session # NoSession =>
          invoice'.total = invoice.total
    BY <1>3, <2>1 DEF Flush
  <2>3. invoice'.session \in {invoice.session, NoSession}
    BY <1>3 DEF Flush
  <2> QED
    BY <1>4, <1>6, <2>2, <2>3 DEF LinkIsForTheTotal
<1>7. handler'[e] = Idle /\ handler'[Hook] = handler[Hook]
  BY <1>0, <1>4 DEF Finish, RowInv, TypeOK, Actors
<1>8. BooksSettled /\ StaysPaid
  BY <1>4, <1>7, IdleTyped DEF BooksSettled, StaysPaid
<1> QED
  BY <1>5, <1>6, <1>8 DEF RowPromise

\* The handlers that decide on a status alone.
LEMMA RowStatus ==
    ASSUME RowInv, TypeOK', NEW a \in Actors, Finish(a), Unlocked, lock' = lock,
           NEW new \in Invoice, invoice' = Flush(handler[a].loaded, new),
           new.total = handler[a].loaded.total,
           new.session \in {handler[a].loaded.session, NoSession},
           a = Hook \/ new.session = handler[a].loaded.session,
           invoice.status = "paid" /\ ~OverlooksThePayment => invoice'.status = "paid",
           a = Hook /\ ~OverlooksTheRaise => BooksSettled,
           UNCHANGED session, pending' \cup handled' = pending \cup handled
    PROVE  RowPromise
<1>1. RowInv' /\ invoice'.session \in {invoice.session, NoSession}
  BY RowWrite
<1>2. invoice'.total = invoice.total
  BY DEF Flush
<1>3. LinkIsForTheTotal => LinkIsForTheTotal'
  BY <1>1, <1>2 DEF LinkIsForTheTotal
<1>4. a # Hook => BooksSettled
  <2>1. a # Hook => handler'[Hook] = handler[Hook]
    BY DEF Finish, RowInv, TypeOK, Actors
  <2> QED
    BY <2>1, IdleTyped DEF BooksSettled
<1>5. ~OverlooksThePayment => StaysPaid
  BY DEF StaysPaid
<1> QED
  BY <1>1, <1>3, <1>4, <1>5 DEF RowPromise

\* The office's payments and sends, and dunning.
LEMMA RowOffice ==
    ASSUME RowInv, TypeOK', NEW a \in Actors,
           \/ a \in Staff /\ (PaymentCommit(a) \/ SendCommit(a))
           \/ a = Ticker /\ DunningCommit
    PROVE  RowPromise
<1> DEFINE loaded == handler[a].loaded
<1>0. a # Hook /\ loaded \in Invoice /\ invoice \in Invoice
  BY ActorAssumption DEF RowInv, TypeOK, Handler
<1>1. /\ Finish(a) /\ Unlocked /\ lock' = lock
      /\ UNCHANGED <<session, pending, handled>>
  BY DEF PaymentCommit, SendCommit, DunningCommit, stripe
<1>2. CASE a \in Staff /\ PaymentCommit(a)
  <2>1. /\ Recorded(loaded) \in Invoice /\ Recorded(loaded).status = "paid"
        /\ Recorded(loaded).session = loaded.session /\ Recorded(loaded).total = loaded.total
        /\ invoice' = Flush(loaded, Recorded(loaded))
    BY <1>0, <1>2 DEF PaymentCommit, Recorded, Invoice, Statuses
  <2>2. invoice.status = "paid" => invoice'.status = "paid"
    BY <2>1 DEF Flush
  <2> QED
    BY <1>0, <1>1, <2>1, <2>2, RowStatus
<1>3. CASE a \in Staff /\ SendCommit(a)
  <2> DEFINE new == [loaded EXCEPT !.status = IF @ = "draft" THEN "sent" ELSE @]
  <2>1. /\ new \in Invoice /\ invoice' = Flush(loaded, new)
        /\ new.session = loaded.session /\ new.total = loaded.total
        /\ loaded.status # "draft" => new.status = loaded.status
    BY <1>0, <1>3 DEF SendCommit, Invoice, Statuses
  <2> HIDE DEF new
  <2>2. invoice.status = "paid" /\ ~OverlooksThePayment => invoice'.status = "paid"
    BY <1>3, <2>1 DEF Flush, OverlooksThePayment
  <2> QED
    BY <1>0, <1>1, <2>1, <2>2, RowStatus
<1>4. CASE a = Ticker /\ DunningCommit
  <2> DEFINE new == [loaded EXCEPT !.status = IF @ = "sent" THEN "overdue" ELSE @]
  <2>1. /\ new \in Invoice /\ invoice' = Flush(loaded, new)
        /\ new.session = loaded.session /\ new.total = loaded.total
        /\ loaded.status # "sent" => new.status = loaded.status
    BY <1>0, <1>4 DEF DunningCommit, Invoice, Statuses
  <2> HIDE DEF new
  <2>2. invoice.status = "paid" /\ ~OverlooksThePayment => invoice'.status = "paid"
    BY <1>4, <2>1 DEF Flush, OverlooksThePayment
  <2> QED
    BY <1>0, <1>1, <2>1, <2>2, RowStatus
<1> QED
  BY <1>2, <1>3, <1>4

\* The recorder books nothing but settled money that covered the total it read.
LEMMA RowHookCommit ==
    ASSUME RowInv, TypeOK', NEW s \in Sessions, NEW kind \in Kinds, HookCommit(s, kind)
    PROVE  RowPromise
<1> DEFINE loaded == handler[Hook].loaded
           new == Applied(loaded, s, kind)
<1>1. /\ Hook \in Actors /\ Finish(Hook) /\ Unlocked /\ lock' = lock
      /\ loaded \in Invoice /\ invoice \in Invoice
      /\ invoice' = Flush(loaded, new) /\ UNCHANGED session
      /\ s = handler[Hook].session
  BY DEF HookCommit, RowInv, TypeOK, Handler, Actors
<1>2. <<s, kind>> \in pending \cup handled
  BY DEF HookCommit, RowInv, PaidIsSettled
<1>3. pending' \cup handled' = pending \cup handled
  BY <1>2 DEF HookCommit
<1>4. /\ new \in Invoice /\ new.total = loaded.total
      /\ new.session \in {loaded.session, NoSession}
      /\ new.status # loaded.status =>
           /\ new.status = "paid"
           /\ kind = "paid" /\ session[s].amount >= loaded.total
  BY <1>1 DEF Applied, Recorded, Invoice, Statuses
<1>5. kind = "paid" => session[s].state = "paid"
  BY <1>2 DEF RowInv, PaidIsSettled
<1> HIDE DEF new
<1>6. /\ invoice.status = "paid" => invoice'.status = "paid"
      /\ invoice'.status # invoice.status => kind = "paid" /\ session[s].amount >= loaded.total
  BY <1>1, <1>4 DEF Flush
<1>7. ASSUME ~OverlooksTheRaise PROVE BooksSettled
  <2>1. loaded.total \in Nat /\ invoice.total \in Nat /\ session[s].amount \in Nat
    <3>1. \A p \in Prices \cup {0} : p \in Nat
      BY InvoiceAssumption
    <3>2. loaded.total \in Prices \cup {0} /\ invoice.total \in Prices \cup {0}
      BY <1>1 DEF Invoice
    <3>3. session[s].amount \in Prices \cup {0}
      BY DEF RowInv, TypeOK, Session
    <3> QED
      BY <3>1, <3>2, <3>3, Zenon
  <2>2. ~(loaded.total < invoice.total)
    BY <1>7 DEF OverlooksTheRaise
  <2>3. session[s].amount >= loaded.total => session[s].amount >= invoice.total
    BY <2>1, <2>2
  <2> QED
    BY <1>1, <1>5, <1>6, <2>3 DEF BooksSettled
<1> QED
  BY <1>1, <1>3, <1>4, <1>6, <1>7, RowStatus

LEMMA RowStep == RowInv /\ [Next]_vars => RowPromise
<1> SUFFICES ASSUME RowInv, [Next]_vars PROVE RowPromise
  OBVIOUS
<1>0. TypeOK'
  BY TypeStep DEF RowInv
<1>1. ASSUME NEW t \in Taps, TapLock(t) \/ TapReuse(t) \/ TapCreate(t) \/ TapCommit(t)
      PROVE  RowPromise
  BY <1>0, <1>1, RowTap
<1>2. ASSUME NEW e \in Staff, NEW pc \in {"editing", "paying", "sending"}, OfficeLoad(e, pc)
      PROVE  RowPromise
  <2> DEFINE h == [Idle EXCEPT !.pc = pc, !.loaded = invoice]
  <2>1. h.loaded = invoice /\ h.pc = pc
    BY DEF Idle
  <2>2. /\ handler' = [handler EXCEPT ![e] = h] /\ e \in Actors
        /\ UNCHANGED <<invoice, lock, session, pending, handled>>
    BY <1>2 DEF OfficeLoad, Begin, stripe, Actors
  <2> HIDE DEF h
  <2> QED
    BY <1>0, <2>1, <2>2, RowBegin
<1>3. ASSUME NEW e \in Staff, EditCommit(e) PROVE RowPromise
  BY <1>0, <1>3, RowEdit
<1>4. ASSUME NEW e \in Staff, PaymentCommit(e) \/ SendCommit(e) PROVE RowPromise
  BY <1>0, <1>4, RowOffice DEF Actors
<1>5. ASSUME DunningRead PROVE RowPromise
  <2> DEFINE h == [Idle EXCEPT !.pc = "dunning", !.loaded = invoice]
  <2>1. h.loaded = invoice /\ h.pc = "dunning"
    BY DEF Idle
  <2>2. /\ handler' = [handler EXCEPT ![Ticker] = h] /\ Ticker \in Actors
        /\ UNCHANGED <<invoice, lock, session, pending, handled>>
    BY <1>5 DEF DunningRead, Begin, stripe, Actors
  <2> HIDE DEF h
  <2> QED
    BY <1>0, <2>1, <2>2, RowBegin
<1>6. ASSUME DunningCommit PROVE RowPromise
  BY <1>0, <1>6, RowOffice DEF Actors
<1>7. ASSUME NEW s \in Sessions, NEW from \in {"open", "clearing"},
             NEW to \in {"clearing", "paid", "failed", "expired"},
             NEW kinds \in SUBSET Kinds, "paid" \in kinds => to = "paid",
             Moves(s, from, to, kinds)
      PROVE  RowPromise
  <2>1. /\ session[s].state = from /\ session'[s].state = to
        /\ \A x \in Sessions : session'[x].amount = session[x].amount
        /\ \A x \in Sessions \ {s} : session'[x] = session[x]
        /\ pending' = pending \cup {<<s, kind>> : kind \in kinds}
        /\ UNCHANGED <<invoice, lock, handler, handled>>
    BY <1>7 DEF Moves, RowInv, TypeOK, Session
  <2>2. /\ \A x \in Sessions : session[x].state # "none" => session'[x].state # "none"
        /\ \A x \in Sessions : session[x].state = "paid" => session'[x].state = "paid"
    BY <1>7, <2>1
  <2> QED
    BY <1>0, <1>7, <2>1, <2>2, RowBooks
<1>8. ASSUME NEW s \in Sessions,
             \/ PayCard(s) \/ SubmitDebit(s) \/ DebitSettles(s) \/ DebitFails(s) \/ Expires(s)
      PROVE  RowPromise
  BY <1>7, <1>8 DEF PayCard, SubmitDebit, DebitSettles, DebitFails, Expires, Kinds, Outcomes
<1>9. ASSUME NEW s \in Sessions, Lapses(s) PROVE RowPromise
  <2>1. /\ \A x \in Sessions : session'[x].amount = session[x].amount
        /\ \A x \in Sessions : session'[x].state = session[x].state
        /\ pending' = pending \cup {<<s, kind>> : kind \in {}}
        /\ UNCHANGED <<invoice, lock, handler, handled>>
    BY <1>9 DEF Lapses, RowInv, TypeOK, Session
  <2> QED
    BY <1>0, <2>1, RowBooks
<1>10. ASSUME NEW s \in Sessions, NEW kind \in Kinds, HookRead(s, kind) PROVE RowPromise
  <2> DEFINE h == [Idle EXCEPT !.pc = "recording", !.loaded = invoice, !.session = s,
                               !.kind = kind]
  <2>1. h.loaded = invoice /\ h.pc = "recording" /\ h.session = s /\ h.kind = kind
    BY DEF Idle
  <2>2. /\ handler' = [handler EXCEPT ![Hook] = h] /\ Hook \in Actors
        /\ <<s, kind>> \in pending \cup handled
        /\ UNCHANGED <<invoice, lock, session, pending, handled>>
    BY <1>10 DEF HookRead, stripe, Actors
  <2> HIDE DEF h
  <2> QED
    BY <1>0, <2>1, <2>2, RowBegin
<1>11. ASSUME NEW s \in Sessions, NEW kind \in Kinds, HookCommit(s, kind) PROVE RowPromise
  BY <1>0, <1>11, RowHookCommit
<1>12. ASSUME NEW a \in Actors, Abandon(a) PROVE RowPromise
  <2>1. /\ Finish(a) /\ lock' = IF lock = a THEN NoOne ELSE lock
        /\ UNCHANGED <<invoice, session, pending, handled>>
    BY <1>12 DEF Abandon, stripe
  <2>2. StoredExists'
    BY <2>1 DEF RowInv, StoredExists
  <2>3. RowInv'
    BY <1>0, <2>1, <2>2, RowEnd
  <2> QED
    BY <2>1, <2>3, RowKept
<1>13. CASE UNCHANGED vars
  <2>1. RowInv'
    BY <1>0, <1>13
       DEF vars, stripe, RowInv, HoldsTheRow, StoredExists, CreatedForTheTotal, PaidIsSettled
  <2> QED
    BY <1>13, <2>1, RowKept DEF vars, stripe
<1> QED
  BY <1>1, <1>2, <1>3, <1>4, <1>5, <1>6, <1>8, <1>9, <1>10, <1>11, <1>12, <1>13 DEF Next

LEMMA RowInit == Init => RowInv /\ LinkIsForTheTotal
<1> SUFFICES ASSUME Init PROVE RowInv /\ LinkIsForTheTotal
  OBVIOUS
<1>1. Blank \in Invoice
  BY IdleTyped DEF Idle, Handler
<1>2. TypeOK
  <2>1. invoice \in Invoice
    BY <1>1 DEF Init, Invoice
  <2> QED
    BY <2>1, IdleTyped DEF Init, TypeOK, Session, Events
<1>3. invoice.session = NoSession
  BY <1>1 DEF Init, Blank
<1>4. \A a \in Actors : handler[a].pc = "idle"
  BY IdleTyped DEF Init
<1>5. HoldsTheRow /\ CreatedForTheTotal /\ PaidIsSettled
  BY <1>4 DEF Init, HoldsTheRow, CreatedForTheTotal, PaidIsSettled, Actors
<1> QED
  BY <1>2, <1>3, <1>5 DEF RowInv, StoredExists, LinkIsForTheTotal

\* The link on the row is for the total on the row (update_invoice), however many
\* requests overlap, unless an edit writes back a row it read before the tap
\* stored its link: that is the only step that can part the two.
THEOREM LinkForTheTotal == Spec /\ [][~OverlooksTheLink]_vars => []LinkIsForTheTotal
<1>1. RowInv /\ LinkIsForTheTotal /\ [Next]_vars /\ [~OverlooksTheLink]_vars =>
        RowInv' /\ LinkIsForTheTotal'
  <2>1. CASE UNCHANGED vars
    BY <2>1, RowStep DEF RowPromise, LinkIsForTheTotal, vars, stripe
  <2>2. CASE ~OverlooksTheLink
    BY <2>2, RowStep DEF RowPromise
  <2> QED
    BY <2>1, <2>2
<1> QED
  BY <1>1, RowInit, PTL DEF Spec

\* The webhook books only settled money that covers the invoice
\* (record_checkout_payment), however late, often or out of order the events come
\* and however many requests overlap, unless the total is raised between the
\* recorder's read and its commit.
THEOREM BooksOnlySettled == Spec /\ [][~OverlooksTheRaise]_vars => BooksOnlySettledMoney
<1>1. RowInv /\ [Next]_vars => RowInv' /\ (~OverlooksTheRaise => BooksSettled)
  BY RowStep DEF RowPromise
<1> QED
  BY <1>1, RowInit, PTL DEF Spec, BooksOnlySettledMoney, BooksSettled

\* Only an office edit takes an invoice out of `paid`, unless a send or the
\* dunning tick writes back a row it read before the payment was booked.
THEOREM PaidIsKept == Spec /\ [][~OverlooksThePayment]_vars => PaidStaysPaid
<1>1. RowInv /\ [Next]_vars => RowInv' /\ (~OverlooksThePayment => StaysPaid)
  BY RowStep DEF RowPromise
<1> QED
  BY <1>1, RowInit, PTL DEF Spec, PaidStaysPaid, StaysPaid

-----------------------------------------------------------------------------
(***************************************************************************)
(* Requests that do not overlap: the one in flight has the row as it is    *)
(* (`FreshCopy`), so it overlooks nothing.                                 *)
(***************************************************************************)

OneBusy == \A a, b \in Actors : handler[a] # Idle /\ handler[b] # Idle => a = b

\* Nobody has written the row since the request in flight read it.
FreshCopy == \A a \in Actors : handler[a] # Idle => handler[a].loaded = invoice

SerialInv == TypeOK /\ OneBusy /\ FreshCopy

\* With room for one request only, a request enters when no other is in flight.
LEMMA RoomMeansIdle ==
    ASSUME MaxBusy = 1, NEW a, Room(a)
    PROVE  \A b \in Actors : handler[b] = Idle
<1> DEFINE busy == {b \in Actors : handler[b] # Idle}
<1>1. IsFiniteSet(Actors)
  <2>1. IsFiniteSet({Hook, Ticker})
    <3>1. IsFiniteSet({Hook}) /\ IsFiniteSet({Ticker})
      BY FS_Singleton
    <3> QED
      BY <3>1, FS_Union, {Hook} \cup {Ticker} = {Hook, Ticker}
  <2> QED
    BY <2>1, ActorAssumption, FS_Union DEF Actors
<1>2. IsFiniteSet(busy)
  BY <1>1, FS_Subset
<1>3. Cardinality(busy) \in Nat /\ Cardinality(busy) < 1
  BY <1>2, FS_CardinalityType DEF Room
<1>4. busy = {}
  BY <1>2, <1>3, FS_EmptySet
<1> QED
  BY <1>4

\* A step in which one request, the only one in flight, enters or moves on with
\* the row as it is, or ends.
LEMMA SerialMove ==
    ASSUME SerialInv, TypeOK', NEW a \in Actors, NEW h, handler' = [handler EXCEPT ![a] = h],
           \A b \in Actors : b # a => handler[b] = Idle,
           h = Idle \/ (h.loaded = invoice /\ invoice' = invoice)
    PROVE  SerialInv'
<1>1. handler'[a] = h /\ \A b \in Actors : b # a => handler'[b] = Idle
  BY DEF SerialInv, TypeOK
<1> QED
  BY <1>1 DEF SerialInv, OneBusy, FreshCopy

LEMMA SerialStep ==
    ASSUME MaxBusy = 1
    PROVE  SerialInv /\ [Next]_vars => SerialInv'
<1> SUFFICES ASSUME SerialInv, [Next]_vars PROVE SerialInv'
  OBVIOUS
<1>0. TypeOK'
  BY TypeStep DEF SerialInv
<1>1. ASSUME NEW a \in Actors, Room(a), UNCHANGED invoice, NEW h, h.loaded = invoice,
             handler' = [handler EXCEPT ![a] = h]
      PROVE  SerialInv'
  <2>1. \A b \in Actors : b # a => handler[b] = Idle
    BY <1>1, RoomMeansIdle
  <2>2. h = Idle \/ (h.loaded = invoice /\ invoice' = invoice)
    BY <1>1
  <2>3. handler' = [handler EXCEPT ![a] = h]
    BY <1>1
  <2> QED
    BY <1>0, <2>1, <2>2, <2>3, SerialMove, Zenon
<1>2. ASSUME NEW a \in Actors, handler[a] # Idle, Finish(a) PROVE SerialInv'
  <2>1. \A b \in Actors : b # a => handler[b] = Idle
    BY <1>2 DEF SerialInv, OneBusy
  <2>2. handler' = [handler EXCEPT ![a] = Idle]
    BY <1>2 DEF Finish
  <2> DEFINE h == Idle
  <2>3. h = Idle /\ handler' = [handler EXCEPT ![a] = h]
    BY <2>2
  <2> HIDE DEF h
  <2> QED
    BY <1>0, <2>1, <2>3, SerialMove
<1>3. ASSUME UNCHANGED <<invoice, handler>> PROVE SerialInv'
  BY <1>0, <1>3 DEF SerialInv, OneBusy, FreshCopy
<1>4. ASSUME NEW a \in Actors, NEW pc, Room(a), Begin(a, pc), UNCHANGED invoice PROVE SerialInv'
  <2>1. [Idle EXCEPT !.pc = pc, !.loaded = invoice].loaded = invoice
    BY DEF Idle
  <2> QED
    BY <1>1, <1>4, <2>1 DEF Begin
<1>5. ASSUME NEW t \in Taps, TapCreate(t) PROVE SerialInv'
  <2>1. PICK s \in Sessions :
          handler' = [handler EXCEPT ![t] = [@ EXCEPT !.pc = "created", !.session = s]]
    BY <1>5 DEF TapCreate
  <2>2. t \in Actors /\ handler[t] # Idle /\ UNCHANGED invoice
    BY <1>5, IdleTyped DEF TapCreate, Actors
  <2>3. [handler[t] EXCEPT !.pc = "created", !.session = s].loaded = invoice
    BY <2>2 DEF SerialInv, TypeOK, Handler, FreshCopy
  <2> QED
    BY <1>0, <2>1, <2>2, <2>3, SerialMove DEF SerialInv, OneBusy
<1>6. ASSUME NEW s \in Sessions, NEW kind \in Kinds, HookRead(s, kind) PROVE SerialInv'
  <2>1. [Idle EXCEPT !.pc = "recording", !.loaded = invoice, !.session = s,
                     !.kind = kind].loaded = invoice
    BY DEF Idle
  <2> QED
    BY <1>1, <1>6, <2>1 DEF HookRead, Actors
<1>7. CASE \E t \in Taps : TapLock(t) \/ TapReuse(t) \/ TapCommit(t)
  BY <1>2, <1>4, <1>7, IdleTyped DEF TapLock, TapReuse, TapCommit, Actors
<1>8. CASE \E e \in Staff :
             \/ \E pc \in {"editing", "paying", "sending"} : OfficeLoad(e, pc)
             \/ EditCommit(e) \/ PaymentCommit(e) \/ SendCommit(e)
  BY <1>2, <1>4, <1>8, IdleTyped DEF OfficeLoad, EditCommit, PaymentCommit, SendCommit, Actors
<1>9. CASE DunningRead \/ DunningCommit
  BY <1>2, <1>4, <1>9, IdleTyped DEF DunningRead, DunningCommit, Actors
<1>10. CASE \E s \in Sessions :
              \/ PayCard(s) \/ SubmitDebit(s) \/ DebitSettles(s) \/ DebitFails(s)
              \/ Expires(s) \/ Lapses(s)
  BY <1>3, <1>10 DEF PayCard, SubmitDebit, DebitSettles, DebitFails, Expires, Lapses, Moves
<1>11. CASE \E s \in Sessions, kind \in Kinds : HookCommit(s, kind)
  BY <1>2, <1>11, IdleTyped DEF HookCommit, Actors
<1>12. CASE \E a \in Actors : Abandon(a)
  BY <1>2, <1>12 DEF Abandon
<1>13. CASE UNCHANGED vars
  BY <1>3, <1>13 DEF vars
<1> QED
  BY <1>5, <1>6, <1>7, <1>8, <1>9, <1>10, <1>11, <1>12, <1>13 DEF Next

\* One request at a time has the row as it is.
LEMMA SerialIsFresh ==
    ASSUME MaxBusy = 1
    PROVE  Spec => []SerialInv
<1>1. Init => SerialInv
  BY RowInit DEF Init, RowInv, SerialInv, OneBusy, FreshCopy
<1> QED
  BY <1>1, SerialStep, PTL DEF Spec

\* What is not out of date overlooks nothing.
LEMMA FreshOverlooksNothing ==
    SerialInv => ~OverlooksTheLink /\ ~OverlooksTheRaise /\ ~OverlooksThePayment
<1> SUFFICES ASSUME SerialInv
             PROVE  ~OverlooksTheLink /\ ~OverlooksTheRaise /\ ~OverlooksThePayment
  OBVIOUS
<1>1. \A a \in Actors : handler[a].pc # "idle" => handler[a].loaded = invoice
  BY IdleTyped DEF SerialInv, FreshCopy
<1>2. ~(invoice.total < invoice.total)
  <2>1. invoice.total \in Prices
    BY DEF SerialInv, TypeOK, Invoice
  <2>2. \A p \in Prices : p \in Nat
    BY InvoiceAssumption
  <2>3. invoice.total \in Nat
    BY <2>1, <2>2, Zenon
  <2> QED
    BY <2>3
<1>3. ~OverlooksTheLink
  BY <1>1 DEF OverlooksTheLink, EditCommit, Actors
<1>4. ~OverlooksTheRaise
  BY <1>1, <1>2 DEF OverlooksTheRaise, HookCommit, Actors
<1>5. ~OverlooksThePayment
  BY <1>1 DEF OverlooksThePayment, SendCommit, DunningCommit, Actors
<1> QED
  BY <1>3, <1>4, <1>5

\* While requests to the row do not overlap, all three promises hold outright: a
\* repricing kills the link, the webhook books only settled money that covers the
\* invoice, and only an office edit takes it out of `paid`.
THEOREM SerialKeepsItsPromises ==
    ASSUME MaxBusy = 1
    PROVE  Spec => []LinkIsForTheTotal /\ BooksOnlySettledMoney /\ PaidStaysPaid
<1> QED
  BY SerialIsFresh, FreshOverlooksNothing, LinkForTheTotal, BooksOnlySettled, PaidIsKept, PTL
=============================================================================
