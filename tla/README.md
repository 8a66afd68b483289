# BrightBase: specifications of the back office

BrightBase runs a cleaning business: a FastAPI back end over SQLAlchemy and
PostgreSQL (`src/backend`), a React front end (`src/frontend`), and Stripe,
Google, Twilio and iCal feeds around them. These modules model the parts where a
wrong interleaving costs money, loses a message or breaks a promise to a person:

| part | module | checked by | proofs |
|---|---|---|---|
| what subcontractors are paid, and how | `SubPayouts`, implementing `PayoutLedger` | `MCSubPayouts` | `SubPayoutsProofs` |
| who gets a posted job | `ClaimMarket` | `MCClaimMarket` | `ClaimMarketProofs` |
| how a customer pays an invoice | `InvoiceCheckout` | `MCInvoiceCheckout`, `MCBackOffice` | `InvoiceCheckoutProofs` |
| how a quote becomes a job | `QuoteToJob` | `MCBackOffice` | `IntakeProofs` |
| the visits of a recurring series | `RecurringVisits` | `MCBackOffice`, `MCRecurringVisits` | `SeriesProofs` |
| the dates a series falls on | `Cadence` | `MCBackOffice` | `SeriesProofs` |
| turnover cleanings from booking feeds | `TurnoverSync` | `MCBackOffice` | `CalendarProofs` |
| the Google events of jobs | `GoogleMirror` | `MCBackOffice` | `CalendarProofs` |
| standing routes and their pay | `Routes` | `MCBackOffice` | `SeriesProofs` |
| requests from the website | `RequestInbox` | `MCBackOffice` | `IntakeProofs` |
| mail and texts becoming conversations | `MailThreads` | `MCBackOffice` | `ConversationProofs` |
| drafted follow-up texts | `FollowUps` | `MCBackOffice` | `ConversationProofs` |

Run a check with `tlc -config MCSubPayoutsBatch.cfg MCSubPayouts`, the proofs
with `tlapm SubPayoutsProofs.tla`. `PROJECT.json` maps every definition to the
lines it stands for, and lists the runs, mutants, findings, hazards and theorems.

## 1. The execution model all modules share

- A handler is a request in a thread of its own with its own session
  (`SessionLocal`: no autoflush, objects expire at commit). PostgreSQL runs at
  READ COMMITTED, so between a handler's read and its commit every other handler
  may commit.
- What a handler decides on are the *columns it loaded*. At commit SQLAlchemy
  writes only the columns whose value the handler changed. `Flush` is that rule:
  a column the handler set to something else than it loaded is written over
  whatever is there now, every other column keeps the current value.
  In `Routes` this is `Commits`, in `QuoteToJob` `Write`, in `RequestInbox` `Written`.
- `SELECT ... FOR UPDATE` makes the handler wait, but an object the session holds
  already keeps the attributes it had (there is no `populate_existing`). A row
  *first read* by the locking query is current. The two cases are `InstantLock`
  (both rows stale), `OfficeLock` (job stale, request current) and `TapLock`
  (current: `start_checkout` asks for `populate_existing`).
- A write waits for a row lock somebody holds: the `Unlocked`, `JobFree` and
  `RequestFree` conjuncts of the committing actions.
- A handler is split where another process can get in between: at each commit, at
  each call to Stripe or the mail server, and between reading and writing. What
  runs in one transaction with nothing read twice is one action.
- A request ends early at any step (`Crash`, `Abandon`): a 4xx from a check that
  is not modelled in detail, a database error, the death of the process. Its
  transaction is rolled back, its earlier commits stay. In the later modules these
  are `PostFails`, `Dies`, `DecisionDies`, `CommissionDies`, `PushDies`,
  `FeedRaises`, `QuoteProcessDies`.
- Advisory locks (`pg_advisory_xact_lock`) are held to the end of the transaction;
  what is read after taking one is current.

## 2. Inventory

State and operations of every part, what is hard about it, and what makes it right.

### Modelled

**Payout ledger and rails** (`services/sub_payouts.py`, `modules/payroll/router.py`,
`integrations/stripe_connect.py`). State: `sub_payouts` rows (status, method,
external_ref; UNIQUE (user, job)), the `sub_payout_rail` setting, transfers and
idempotency keys at Stripe. Operations: preview/generate, mark, send over the
manual or the Stripe rail, choose a rail, the `transfer.reversed` webhook. Reads
what the marketplace wrote: a completed job with an agreed rate. Hard: the
process or the connection dies between the transfer and the ledger; keys are
forgotten after a day; two requests overlap; a reversal comes late or twice.
Right when nobody is paid twice, no payment is forgotten, a reference is always
our own transfer, and a settled row comes back only because its money did.

**Claim marketplace** (`services/claim_approval.py`, `services/claim_autoapprove.py`,
`modules/crew/router.py`, `modules/scheduling/router.py`,
`services/turnover_windows.py`). State: of a job its status, date, offer flag, crew
and the sub who agreed the rate; one claim request per (job, cleaner). Operations:
ask, withdraw, approve, decline, instant claim, edit, complete, skip,
reschedule a recurring visit, the turnover window's posting, the sweep of dead
offers. Hard: five handlers write the job, three lock it, one commits three
times. Right when one person wins, the winner is on the job at their rate, an
awarded job is no offer, and nobody waits forever on an offer that is gone.

**Invoices, checkout and dunning** (`modules/invoicing/router.py`,
`services/dunning_service.py`, `integrations/stripe_payments.py`). State: the invoice
(status, total, stored checkout session and its expires_at), the sessions and the
undelivered events at Stripe. Operations: start a checkout, record an event, edit,
record a payment by hand, send, dun. Hard: bank debits settle days after the form
was filled in, events are late or repeated, the office reprices under an open
page, an email takes seconds between read and write. Right when there is one live
page per invoice, only settled money that covers the total is booked, money that
came in is booked, and `paid` is left only by an edit.

**Quoting** (`modules/quoting/router.py`, `create_job`, `utils/opportunity_helper.py`).
State: a quote, the job with its quote_id (UNIQUE), the deal. Operations: send, view,
accept (public and office), self-schedule, convert, decline, request changes,
patch, archive, purge, the expiry tick. Hard: the row is loaded, then locked, and
the stale status decides; acceptance, booking and linking are three transactions.
Right when one yes is announced once and a quote with a job is never put away.

**Recurring series** (`modules/recurring/router.py`, parts of `modules/scheduling/router.py`).
State: series, linked visits (UNIQUE per series and date), exceptions; frequency,
interval, phase anchor, end. Operations: create, generate (daily tick, button),
edit with resync, split, cancel, clean up off-phase visits; skip, move, undo one
occurrence. Hard: the same date is decided by a rule, an exception and a row, which
different endpoints change. Right when a visit taken off stays off, a moved one stays
where it is, and the dates are the promised ones, N of them.

**Turnovers** (`integrations/ical_sync.py`, `services/turnover_cleanup.py`, `delete_job`).
State: `ical_events`, the turnover jobs, what each feed showed last. Operations: sync
feeds one by one, sweep what vanished; the office completes, moves, deletes,
reopens, purges. Hard: feeds fail, come in part or are skipped as unchanged, and two
bookings share a date under a unique index. Right when only a reservation that is
really gone loses its turnover, and what the office decided stands.

**Google Calendar** (`integrations/gcal_sync.py`, `integrations/google_calendar.py`,
`modules/scheduling/router.py`). State: `gcal_event_id` of jobs, the events at Google.
Operations: create, move, cancel, delete with the job; push, heal and read back on a
tick. Hard: no common transaction, lost answers, two pushes. Right when an event the
program learned of is found from its job.

**Routes** (`services/routes.py`, `modules/routes/router.py`, `modules/crew/router.py`).
State: a block of houses with rate, owner and status; the visits generated from it.
Operations: draft, offer, accept, decline, edit, end, delete, generate. Hard: the
office edits without a lock what a sub takes under one. Right when a running route
belongs to who took it and the shares of its rate add up.

**Intake** (`modules/intake/normalize.py`, `modules/intake/router.py`). State: requests
and their idempotency keys. Operations: a post finds its request by key, contact or
name and address, folds itself in or opens a new one; archive, delete. Hard: several
posts of one visit at once and again hours later. Right when they become one request,
a key answered once is known, and locks never form a cycle.

**Mail and conversations** (`modules/gmail/router.py`, `integrations/gmail_api.py`,
`modules/comms/router.py`). State: the history cursor, messages, conversations.
Operations: sync an account (tick, push, shared inbox), receive a text, link a thread
to a client. Hard: syncs overtake each other, a commit fails halfway. Right when a
client has one thread and the cursor passes no mail that is not stored.

**Follow-ups** (`services/autopilot_drafts.py`, `services/proposals.py`, `send_reply`).
State: proposed texts and their decisions. Operations: draft, approve, dismiss, send,
log. Hard: two people decide at once, the process dies between text and log. Right
when a source is texted about once inside the cooldown.

### Not modelled

| part | state and operations | why |
|---|---|---|
| the rest of the scheduling core (`modules/scheduling`) | conflict checks, pricing, the completion's draft invoice | its handlers are actions of six modules; these checks either refuse a request, which every model lets happen anyway, or compute amounts |
| crew app, vetting, bench (`modules/crew`, `services/sub_vetting.py`, `services/bench.py`) | punches, responses, availability, files | asking, withdrawing and marking done are in `ClaimMarket`; the rest is one row per call |
| portal and magic links (`modules/portal`) | tokens | single use rests on one primary key |
| auth, orgs, row security (`auth*.py`, `modules/auth`, `modules/admin`) | users, tokens, org scope | sequential checks of a request |
| scheduler (`scheduler.py`, `services/tick_health.py`) | singleton lock, ticks | the ticks are actions of the modules they act on; the lock is planned |
| notifications, reminders, email, PDF, push | none others depend on | output after the commit |
| clients, properties, dedupe, data doctor (`modules/clients`, `modules/cleanup`) | records and merges | mostly sequential |
| dashboards, board, search, views, settings, notes, fields | read models and CRUD | nothing concurrent |
| migrations, front end, scripts, tests | - | schema and presentation; the unique constraints the models rely on are modelled with them |

What the modelled parts leave out is said with each module below.

Interactions that cross the parts: completing a job makes the marketplace's
agreed rate payable (`earned_jobs` reads `status`, `agreed_rate`,
`agreed_cleaner_id`) and drafts an invoice; one webhook endpoint serves payouts
and invoices; the scheduler's ticks sweep dead offers, open turnover windows, dun
invoices, generate visits, sync feeds and mail, push and heal Google events. Between
the models the borders are: turnovers have their Google events in `GoogleMirror` and
their posted windows in `ClaimMarket`; `Routes` and `RecurringVisits` each take the part
of `generate_jobs` that is theirs, and `Cadence` gives what `RecurringVisits` takes as a
set of dates.

## 3. The modules

### SubPayouts

| state | code |
|---|---|
| `owed` | what `preview()` finds: completed, priced, agreed with, has a login |
| `row[w]` | the `sub_payouts` row of a (user, job) pair: status, method, external_ref |
| `rail` | the setting `sub_payout_rail` |
| `req[q]` | an office request in flight: where it is, the rows it still has to do, their columns as loaded, the answer Stripe gave |
| `plan[g]` | the pairs a `generate()` has read and not inserted yet |
| `paidFor`, `reversed`, `keys`, `events` | Stripe: transfers, reversals, remembered idempotency keys, `transfer.reversed` deliveries |

`StripeRail.send` is `SendList` (the endpoint's `due` filter), `SendPlan` (rows
read again, unclear and blocked set aside), `SendRefuse` (not configured, balance
too small), `SendStamp` (the commit before any money moves), then per row
`TransferOk | TransferRefused | TransferLost` and `RecordPaid | RecordRefused`. The
key Stripe sees is the pair (row, reference the row carries now), as in `_key`.
`Crash` may come between any two.

The office's own marks are `paid` and `void`, the two the payouts screen offers,
without a method or a reference. Amounts, names, the CSV and the year-to-date
figures are left out. Stripe refusing a key that is in use at that very instant
(409) counts as an answer that is lost. Left out: account.updated and onboarding,
the Square export.

`PayoutLedger` is the same ledger as a bookkeeper would describe it: work is owed, paid
while it is owed and once, then settled, and opens again only when money came home.
`SubPayouts` implements it under the mapping `entry <- Entry(row)`, `made <- Transfers`,
`home <- reversed` (property `ImplementsLedger`) while one office request is in flight, and with more but for the
late steps section 5 names.

### ClaimMarket

One job. `job` is the row (status, offer flag, crew, who agreed), `past` that its day
is over, `request[c]` the claim request of a cleaner, `lock` the row locks held (a
job and one request, always taken together by the two approvals), `handler[a]` what
an actor's request is doing and the columns it loaded.

| action | handler |
|---|---|
| `AskRead`, `AskCommit` | `claim_job` |
| `InstantRead`, `InstantLock`, `ApproveCommit` | `consider` calling `approve` |
| `WithdrawRead`, `WithdrawCommit` | `withdraw_claim` |
| `OfficeLoad`, `OfficeLock`, `ApproveCommit` | `approve_claim_request` calling `approve` |
| `Decline` | `decline_claim_request`: its lock, check and commit are one step, since the request is first read under the lock |
| `OfficeLoad`, `EditCommit`, `EditRelease`, `EditClose` | `update_job` with its commits: the edit, `release_if_displaced`, `close_offer` |
| `SkipCommit`, `CompleteCommit`, `RescheduleCommit` | `skip_job`; `complete_job` and `mark_job_done`; `_reschedule_occurrence` |
| `SweepRead`, `SweepCommit` | `sweep_dead_offers` |
| `PostRead`, `PostCommit` | `open_window` |

`completed` stands for every status that is neither `scheduled` nor `cancelled`.
Vetting, rates, conflicts and time off can refuse a request at the same points in
the code where `Abandon` can end it, so they are not spelled out. Left out:
`delete_job`, accept/decline answers (`job_responses`), offer audiences,
notifications. The gap between a commit and the reload after it is closed: the
handler goes on with what it just committed.

### InvoiceCheckout

One invoice. `invoice` is the row, `lock` its row lock, `handler[a]` a request in
flight with the columns it loaded, `session[s]` a Checkout session at Stripe and
whether our clock has passed its expires_at, `shown` the pages a customer holds,
`pending` and `handled` Stripe's events; `released` is a history variable for the
one-page property.

| action | handler |
|---|---|
| `TapLock`, `TapReuse`, `TapCreate`, `TapCommit` | `start_checkout`; a refusal (a hold, a Stripe error) is `Abandon` |
| `OfficeLoad`, `EditCommit` | `update_invoice` |
| `OfficeLoad`, `PaymentCommit` | `process_payment` |
| `OfficeLoad`, `SendCommit` | `send_invoice` after the link's commit |
| `DunningRead`, `DunningCommit` | one invoice of `send_due_dunning` |
| `HookRead`, `HookCommit` | `record_checkout_payment`: `async_payment_failed`, then the settled-money gate, then the amount |
| `PayCard`, `SubmitDebit`, `DebitSettles`, `DebitFails`, `Expires`, `Lapses` | the customer, Stripe, the clock |

Left out: receipts, `paid_at`, the payment intent, the dunning stage, the token of
the pay page, `delete_invoice`. One webhook delivery is in flight at a time, and
the clock is followed for the stored session only (for no other does the code
look at it).

### QuoteToJob

One quote: `quote` is the row, `quoteJob` the job made from it, `deal` the stage of the
opportunity, `asked[r]` a request in flight with the row it loaded, `yes` (history)
acceptances that were not announced yet.

| action | handler |
|---|---|
| `LoadQuote`, `Refused`, `TooLate` | the load, the status checks and the lapsed validity of each endpoint |
| `Send`, `View`, `PatchQuote`, `NewQuote` | `send_quote`, `public_view_quote`, `patch_quote`, `create_quote` |
| `Accept`, `FinalizeAccept` | `public_accept_quote`, `accept_quote` and `_finalize_quote_accept` |
| `ScheduleYes`, `Book`, `BookFails`, `Link` | `public_schedule_quote` and the two commits of `create_job` |
| `Convert` | `_convert_quote_to_job`, UNIQUE included |
| `Decline`, `RequestChanges` | the public and the office's endpoints |
| `Archive`, `PurgeQuote`, `Expire` | `delete_quote`, `bulk_archive_quotes`; `permanently_delete_quote`; `quote_expiry_tick` |
| `JobLives` | the job is completed, cancelled or deleted |

Left out: line items and totals, PDFs, unarchive, nudges.

### RecurringVisits

One series, after a split either of the two. `series` is its row, `visit[d]` the linked job
of a date, `exception[d]` kept, skipped or moved to, `generating` a generation that has
read its dates, `takenOff` (history) the dates the office cleared.

| action | handler |
|---|---|
| `GenerateRead`, `GenerateWrite` | `generate_jobs` with `_apply_exceptions` |
| `CreateSeries`, `EditSeries`, `SplitSeries`, `CancelSeries` | `create_schedule`, `update_schedule` with `_resync_future_jobs`, `split_schedule`, `delete_schedule` |
| `CancelUpcoming`, `CleanUpOffPhase` | `cancel_upcoming_visits`, `apply_off_phase_cleanup` |
| `Skip`, `SkipJob` | `add_skip_exception`, `skip_job` |
| `Reschedule`, `UndoException` | `_reschedule_occurrence`, `delete_exception` |
| `VisitSet` | `update_job`, `complete_job`, `delete_job` on a visit |

Left out: duplicate-series guards, times of day, crews.

### Cadence

`plan` is a series' rule (frequency, weekdays, interval, day of month, count, start,
anchor, end), `visits` the dates that got a job, `day` and `lastTick` the calendar. The
pure operators `PhaseAnchor`, `DailyAnchor`, `OccursOn`, `GenerateDates`, `NthOccurrence`
translate their Python namesakes; `OpenSeries`, `CadenceTick`, `SaveEnds`, `Midnight` are
`create_schedule` (and the successor of a split), the daily tick, the form saved
again, and the date. `Promised` is the independent definition they are compared with.

### TurnoverSync

One property: `platform` is what the booking platforms show, `booking` the `ical_events`
rows, `turnover` the jobs, `memory` what each feed showed when last read in full
(`_FEED_STATE`, `last_events_seen`), `syncing` the sync in flight.

| action | handler |
|---|---|
| `StartSync`, `FetchFails`, `FeedUnchanged`, `Sweep` | `sync_property` |
| `TakeFeed` = `FeedTaken` or `FeedRaises` | `_sync_single_feed_inner`, one transaction; `Taken` goes booking by booking, with the flushes that unique indexes can refuse |
| `StatusSet`, `Reopen`, `MoveTurnover` | `update_job` |
| `DeleteTurnover` | `delete_job` with `dismiss_booking_for_job` |
| `PurgeCancelled` | `purge_cancelled_turnovers` |

Left out: parsing, host blocks, several properties in one tick, coverage reports.

### GoogleMirror

`task` are the jobs rows, `google` the events and the job each was made for, `booked` the
office request between the job's commit and the event's, `pushing` and `holder` the
pushes and the rows they locked, `healing` the links about to be cleared, `strays`
(history) events whose answer was lost or that could not be deleted.

| action | handler |
|---|---|
| `Commission`, `CommissionCreate`, `CommissionCommit` | `create_job`, `update_job` |
| `CancelLinked`, `MoveCalendar`, `SetStatus` | `update_job`, `skip_job` |
| `RescheduleLinked`, `RemoveTask` | `_reschedule_occurrence`; `delete_job`, purge |
| `PushRead`, `Push`, `PushCommit` | `push_to_gcal` |
| `HealRead`, `HealCommit` | `reassert_deleted_gcal_events` |
| `ReadBack` | `sync_gcal_cancellations` |

The mode modelled is the one where BrightBase is master. Left out: the two-way mode
with sync tokens, watches, confirmations.

### Routes

`route` is the row with its members in drive order, `house` the schedules, `stop` the
visit of the coming date, `editing` office requests with the row as loaded, `taker`
(history) who took it. `CreateRoute`, `LoadRoute`, `Offer`, `UpdateRoute`, `EndRoute`,
`DeleteDraft`, `EditRefused` are `modules/routes/router.py`; `AcceptRoute` and
`DeclineRoute` are `accept_route` and `decline_route`, locked and read under the lock;
`GenerateStop` is the route lookup of `generate_jobs`; `SplitRate` is `split_rate`. Left
out: a house on two routes, suggested drive orders.

### RequestInbox

`inbox` is `lead_intakes` (age class, contacts, key), `posting[p]` a post in flight with
the row it loaded, `locked[p]` its advisory locks, `answered` (history) which row
answered a key. `Post`, `FindByKey`, `Lock`, `Look`, `CommitFold`, `Open`, `PostFails`
are `upsert_lead` step by step; `Archives` is `update_intake`, `DeleteIntake` itself, and
`Ages` moves a row past the five minutes and the 24 hours. Left out: conversion to
clients and quotes, messages, custom fields.

### MailThreads

`arrived` are the mails at Gmail, `cursor` the stored history id as the set of mails it
covers, `stored` the messages, `threads` conversations per person, `work[w]` a worker
with its open transaction. `Fetch`, `Scan`, `Seed`, `Check`, `ThreadMail`, `Commit`, `Mark`,
`Dies` are `run_account_inbox_sync`; `Bring` hands letters in from `run_inbox_sync` and
`twilio_inbound`; `OpenLink`, `Relink`, `CommitLink` are `link_conversation_client` with its
fold. Left out: sent mail, triage items, clients made from mail, merging of placeholder
clients, the date cursor of the shared inbox.

### FollowUps

`proposed` are the rows with how often their text left (history), `waiting` the sources
nobody answered, `drafting` the runs, `deciding` approvals and dismissals in flight.
`StartDrafts`, `DraftFor`, `EndDrafts` are `draft_followups`; `LoadProposal`, `ClaimPending`,
`SendText`, `LogText`, `MarkExecuted`, `MarkFailed`, `DecisionDies` are approval and
dismissal through `_claim_pending`, `execute_proposal` and `send_reply`; `CustomerWaits`,
`StaffAnswers`, `CooldownPasses` are the world around. Left out: other kinds of
proposals, edits before approval, standing rules, the model's answers.

### MCBackOffice

Ten of the modules have their instance here. `part` says which one runs; the variables of
the others keep their first values, so state spaces add up and are not multiplied, and
nothing interacts. This is a harness, not a composition: ids are shared to keep the
instance small.

## 4. What the runs check

| run | instance | shows |
|---|---|---|
| `MCSubPayoutsBatch` | 2 rows, 1 request at a time, 3 transfers | through crashes, lost answers, retries, reversals and forgotten keys: `PaidOnceUnlessReversed`, `UnlearnedIsRefused`, `ReferenceIsOurs`, `StatusOnlyMovesForward`, `BackInBatchOnlyByReversal`, and the refinement `ImplementsLedger` |
| `MCSubPayoutsDoubleTap` | expected violation | two overlapping sends pay one row twice |
| `MCClaimMarketSerial` | 3 cleaners, 1 handler at a time, instant claims | `AwardedIsOffTheBoard`, `OfferAndRequestsTogether` over every sequence of calls, and `StrandedIsAnswered` |
| `MCClaimMarketBench` | 2 cleaners, 1 office user, the ticks, all overlapping | `OneWinner`, `WinnerIsOnTheJob`, `AgreementFollowsCrew` hold when the office approves and one person works in the office |
| `MCClaimMarketOverlap` | 2 office users, recurring visits, edits that die halfway | `AwardNeedsPending`: no withdrawn or declined request is ever approved |
| `MCClaimMarketTwoClaims` | expected violation | two instant claims both win |
| `MCClaimMarketWithdrawn` | expected violation | a withdrawal overwrites an approval |
| `MCInvoiceCheckoutSerial` | totals 0, 1, 2; debits; late and repeated events | `LinkIsForTheTotal`, `BooksOnlySettledMoney`, `PaidStaysPaid`, and that money is booked (`PaymentIsRecorded`) and a bounced debit lets go (`FailedDebitReleases`) |
| `MCInvoiceCheckoutSlowDebit` | expected violation | a debit that outlasts its session's expires_at no longer holds the invoice |
| `MCInvoiceCheckoutDunned` | expected violation | an overdue email turns a paid invoice back to overdue |
| `MCBackOffice` | ten instances, below | the properties of the table below |
| `MCRecurringVisitsMovedTwice` | expected violation | a moved visit skipped on its new date is generated again |

| part of `MCBackOffice` | property | says |
|---|---|---|
| turnovers | `SweptOnlyWhenGone` | a sweep cancels only what no feed of a complete, reliable read showed |
| | `OfficeDecisionStands` | the sync neither moves back what the office moved nor remakes what it deleted |
| quotes | `AnnouncedOnce` | one yes is finalised once, whichever endpoint took it |
| | `ArchivedHasNoJob` | a quote with a job is never archived or purged |
| visits | `TakenOffStaysOff` | nothing brings back a visit taken off its date |
| | `MovedVisitStands` | no step of the series touches a moved visit |
| calendar | `KnownEventIsLinked` | an event the program learned of is the one its job cites |
| cadence | `CadenceKept` | the visits are exactly the promised dates |
| | `EndsAfterN` | N visits in all, however often the form is saved |
| routes | `OwnerTookIt` | a running route and its visits belong to who took it |
| | `SharesAddUp` | shares sum to the rate and are not negative |
| checkout | `OneLiveSession` | two taps, an office request, the tick and the webhook leave one page that can be charged |
| inbox | `OneRequestPerVisit` | posts that share a contact leave one fresh request |
| | `AnsweredKeyIsKnown` | a row keeps the key it answered |
| | `NoLockCycle` | among posts taking locks one can go on |
| mail | `OneThread` | a client has one conversation |
| | `MailIsKept` | the cursor passes no mail that is not stored |
| follow-ups | `TextedOnce` | one text per source inside the cooldown |

`MCBackOffice` and `MCRecurringVisitsMovedTwice` do not check deadlock: their models stop
where a pool of ids, the calendar or a bound on changes is used up. The other runs do.

**Bounds.** `TransferIds` and `Sessions` bound how many transfers and sessions Stripe
ever makes: one more than a row may have unreversed is what a double payment
needs (two for a row, three so that one can be reversed first), and two sessions
are what a second page needs. `MaxBusy` bounds how many handlers overlap: one gives long
sequences of whole calls; two give every pair of handlers; three or four add the
tick or a webhook in the middle of a pair. Two rows let a batch be half done.
Three cleaners give a winner, a loser and a late asker. Totals 0, 1, 2 give a
free invoice, a price raised and a price lowered. In the overlapping checkout the total
is fixed because repricing under a held page is listed below as a hazard of its
own. `Permutations` symmetry is used only where no liveness property is checked.

In `MCBackOffice`: two bookings from two feeds, two dates and two turnovers let two
reservations meet on one date and one feed fail while the other is read; one quote with
two requests and two acceptances (`MaxYes`) gives every pair of endpoints; two dates, two
rules and two exceptions (`MaxExceptions`) give a rule edited under a skipped and a moved
visit (three dates in `MCRecurringVisitsMovedTwice`); two jobs, three event ids and two pushers
give a duplicate; weeks of 4 days and months of 3, 5 and 4 (`Week`, `Months`) give short
months, biweekly and every-N-days phases within `LastToday` 10 days, `CalendarEnd` 54
standing for the ten years; two houses, two subs, rates 0 and 3 and lengths 0 to 2 give a
remainder, a house without a window and a second offer; two posts over two rows, three
forms and two lock keys (`MaxKey`) give a shared email, a shared phone and a key that comes
again; a client and a stranger with two mails, a text and two workers (`MaxThreads` 2) give
overtaking syncs and a link under them; two sources, two proposals, two drafting runs and
two deciders give a double approval and a second draft of one source.

**Switches.** A Boolean constant lets in a behaviour of the code under which a property
fails in the model; `MCBackOffice` keeps it off, so its properties are about the rest, and
what fails with it on is a hazard or a finding:

| switch | lets in | then fails |
|---|---|---|
| `Races` | two requests load a quote before either commits | `AnnouncedOnce` |
| `TornBookings` | the process dies between the two commits of `create_job` | `ArchivedHasNoJob` |
| `Overlaps` | others commit while a generation runs | `TakenOffStaysOff` |
| `MovesAgain` | a moved visit is moved or skipped again | `TakenOffStaysOff` (finding 6) |
| `Crowded` | office requests overlap with pushes and healing | `KnownEventIsLinked` |
| `OddDays` | every-N-days series with chosen weekdays | `CadenceKept`, `EndsAfterN` (recurring/router.py:427-431 against the comment at 509-511) |
| `RouteRaces` | others commit between the load and the commit of an edit | `OwnerTookIt` |
| `SharedRow` | two posts fold into one row before either commits | `AnsweredKeyIsKnown` |
| `Losses` | a mail arrives between a scan and its cursor; a mail or a commit fails | `MailIsKept` |
| `TwoRuns` | drafting runs overlap | `TextedOnce` |

`SharedDays` (two bookings check out on one date) is on. `Instant`, `HalfEdits`,
`Recurring`, `Debits` and `Punctual` belong to the first modules and are set as the table of
runs says.

**Fairness** (`FairSpec`). Claims: a handler that has begun ends (`WF` of its
continuation or `Abandon`), and the hourly schedule-audit tick runs the sweep
again and again (`SF`: `MaxBusy` can disable it between two passes, nothing in the
code does, and one of its passes gets through). Invoices: Stripe retries an
event for days until it gets a 2xx and one delivery gets through (`SF` of
reading and committing a pending event). Nothing is assumed of people: no fairness
on asks, edits, taps or payments. The other modules state safety only.

**Mutants.** Every property of a passing run is broken by a mutated form of one
action (`*KeepsRequest`, `*Unlocked`, `*Later`, `FetchAndMark`, ...), defined beside the action it
mutates: a dropped lock, a forgotten filter, a write in the wrong place.

## 5. What is proved

The theorems hold for every value of the constants: any number of rows, requests,
cleaners, sessions, dates, posts, bookings or houses. Where a theorem has a hypothesis,
it is the regime in which a run checks the same property (section 4), or, as
`[][~X]_vars`, it leaves out a kind of step: not the overlaps around it, but the one step in
which a handler goes by something that has changed since it looked.

A proof is a typing lemma, then a strengthened invariant with one step per action, then
PTL.

### `FoldLemmas`

What the folds of the community modules compute. Induction over numbers is proved from
the library's well-founded minimality (`WFMin`), as a statement about a *set* of numbers
(`Induction`): the library's induction theorems take an operator, which no prover here can
instantiate. From it: the sums `MapThenSumSet` takes exist (`SumsExist`), do not depend on
the order in which it chooses (`SumsOfAny`), and grow number by number (`SumOfOneMore`,
`SumsGrow`). Then division with remainder (`DivMod` to `DivGrows`) and the least number of a
set (`MinIs`), for the dates.

### `SubPayoutsProofs`
- `TypeCorrect`: `Spec => []TypeOK`.
- `ReferencesAreOurs`: `Spec => []ReferenceIsOurs`. Inductive (`Grounded`): Stripe's keys,
  the answers in flight and the references in the table all name transfers made
  for the row they are attached to, and an event exists only for a transfer
  that was reversed.
- `BackInBatch`: `Spec => BackInBatchOnlyByReversal`. From the same invariant: no handler
  writes `due` over a row that is there, and what the webhook reopens cites a
  transfer that has an event, hence one that was reversed.
- The other promises, for any number of overlapping sends, marks and generates. As for the
  marketplace below, each leaves out the steps that go by a row somebody has moved since:

  | theorem | promise | unless |
  |---|---|---|
  | `NobodyIsPaidTwice`, `LostMoneyStaysRefused` | `PaidOnceUnlessReversed`, `UnlearnedIsRefused` | `StampsTooLate`: a send stamps a row that another send stamped, or somebody settled, since it looked |
  | `LedgerIsKept` | `ImplementsLedger` | that; `PaysTooLate`: the loop of a send pays for a row settled since its stamp |
  | `TableIsKept` | `StatusOnlyMovesForward` | `JudgesTooLate`: a mark, or the answer of a send, settles a row whose status changed since it was judged |

  `MCSubPayoutsDoubleTap` is the first exclusion; TLC, on one row and two requests, breaks a
  promise of each row of the table without one of its exclusions. Marks that overlap with
  sends, and sends with each other, are otherwise harmless: from the stamp on nobody
  else can stamp the row. Inductive: `Books`, which needs nothing (whatever a request is
  about is recorded; a plan that found a stamp found its reference; a copy of a due row says
  so, unless its money came home, `DueSeen`), and per row `RowSafe` (a row whose money is out,
  or about to be, is not `Payable`; one send at a time has it in hand; until that hears back
  nothing was sent for it). For the refinement every step of a request, of Stripe or of
  the webhook maps to a step of `PayoutLedger` or to a stutter.
- One office request at a time, the regime of `MCSubPayoutsBatch`: `PaidOnce`,
  `LostMoneyIsRefused`, `LedgerIsImplemented`, `StatusMovesForward`, the same four outright.
  Inductive (`Unmoved`): the rows are as the request left them, but for paid ones, which a
  reversal may reopen and of which a mark writes nothing; so no step is late
  (`AloneIsNeverLate`).

### `ClaimMarketProofs`
- `TypeCorrect`, and the promises of the marketplace for any number of office users, cleaners
  and overlapping handlers, instant claims on or off. A flush writes only the columns its
  handler changed and the commits wait for the job's lock, so most stale copies do no harm;
  each theorem names the steps that do and says nothing else can break its promise.

  | theorem | promise | unless |
  |---|---|---|
  | `AnsweredIsNotApproved` | `AwardNeedsPending` | `OverlooksAnAnswer`: `consider()` approves a request answered since it read it |
  | `CommitmentIsKept` | `CommitmentStands` | `WithdrawsTooLate`: a withdrawal read the request before it was answered |
  | `AgreementKeepsToTheCrew` | `AgreementFollowsCrew` | `OverlooksTheCrew`: `approve()` checks a crew or rate out of date |
  | `WinnerKeepsTheJob` | `OneWinner`, `WinnerIsOnTheJob` | that; `OverlooksAnEdit`: `approve()` starts between the commits of `update_job` |
  | `AwardedStaysOffTheBoard` | `AwardedIsOffTheBoard` | `OverlooksTheCrew`; `PostsUnseenEdit`, `PostsUnseenTick`: a job is posted that was awarded, or given another crew, since it was read |
  | `NobodyWaitsOnAClosedOffer` | `OfferAndRequestsTogether` | `AsksTooLate`: a request is filed on an offer closed since it was read; `OverlooksARival`: an approval misses who asked since it took its locks |

  `MCClaimMarketTwoClaims` is the exclusion of the third row, `MCClaimMarketWithdrawn` that
  of the second; none can be dropped: TLC, on one or two cleaners, one or two office users and
  two or three handlers in flight, breaks a promise of the row as soon as one of its steps
  comes back. The third to fifth row are about a job outside a series (`Recurring = FALSE`:
  rescheduling a visit never releases whoever it displaces, a hazard of its own) and all
  but the first two about edits that do not die between commits.
  Inductive: `AwardInv` (whoever is approving holds the lock of a request that is still
  pending, and every write to it waits for that lock), `RateInv` (an approval has the crew
  and the rate as they are; the rate is that of somebody on the job, or an edit that has the
  job as it is is about to take it off), `WinnerInv` (who is approved is whose rate the job
  has; an edit that is about to let a rate go knows it; nobody approves meanwhile), `BoardInv`
  (a job on offer has no rate, or an edit is about to take it off) and `WaitInv` (whoever
  waits has an open offer, or an edit that remembers it was open and has yet to answer).
- `PendingIsApproved`: with instant claims off `consider()` does not run, and the first row
  holds outright.
- One office user, no instant claims, the regime of `MCClaimMarketBench`, with any number of
  cleaners and handlers overlapping: `OneWinnerAlone`, `WinnerOnTheJobAlone`,
  `AgreementFollowsCrewAlone`, with nothing left out. Inductive (`CrewInv`): the one copy in
  use is right about the crew and the agreement.
- One handler at a time (`MaxBusy = 1`), instant claims on or off, the regime of
  `MCClaimMarketSerial`: `AwardedOffTheBoardSerial`, `OfferAndRequestsSerial`,
  `WinnerSerial` (the three above) and `CommitmentStandsSerial`. Inductive (`SerialInv`):
  the copy is the row, and an offer is open while anybody asks or waits (`OfferInv`).

### `InvoiceCheckoutProofs`
- `TypeCorrect`, and `OneLive`: `OneLiveSession` for any number of taps, sessions and
  handlers, from `CheckoutAssumption`: an event arrives before its session's expires_at
  (`Punctual`), and an account that takes bank debits keeps one total. Its inductive
  invariant `LiveInv` says, on top of `TypeOK`: a tap decides on the row as it is,
  since it holds the lock; a session a customer may still be charged on is the
  stored one; only a session that is stored or was released was ever shown; what
  Stripe knows agrees with the events still out; a session past its expires_at is
  over; a webhook in flight holds a pending event; a failed debit no longer stored
  has been released. Both conditions are needed:
  `MCInvoiceCheckoutSlowDebit` breaks it without the first, and with repricing a
  failed debit of an old total lets go of the session of the new one.
- `LinkForTheTotal`, `BooksOnlySettled`, `PaidIsKept`: `LinkIsForTheTotal`,
  `BooksOnlySettledMoney` and `PaidStaysPaid` for any number of taps, office edits, sends,
  webhooks and dunning passes overlapping, with repricing, debits and events however late
  and however often. Each leaves out one kind of step: an edit of the total by a session
  that has not seen the link stored meanwhile (`OverlooksTheLink`), a payment booked against
  a total that was raised since the webhook read it (`OverlooksTheRaise`), and a send or a
  dunning pass that writes its status over a `paid` it has not seen
  (`OverlooksThePayment`, the counterexample of `MCInvoiceCheckoutDunned`). Dropping an
  exclusion makes TLC break that property, and only that one, with two or three requests.
  Inductive (`RowInv`): whoever decides under the lock has the row as it is
  (`HoldsTheRow`), a stored session was created, so no later tap creates it for another
  amount (`StoredExists`, `CreatedForTheTotal`), and `paid` is announced of paid sessions
  only (`PaidIsSettled`).
- `SerialKeepsItsPromises`: one request at a time (`MaxBusy = 1`) overlooks nothing
  (`FreshCopy`: the one in flight has the row as it is), so all three hold outright.

### `IntakeProofs` (`QuoteToJob`, `RequestInbox`)
- `PutAwayHasNoJob`: `ArchivedHasNoJob` for any number of requests, racing or not, unless
  the process dies between the two commits of `create_job` (`~TornBookings`).
  Inductive (`PutAway`): a purged quote never has a job, and an archived one only while
  the request that made it is about to write `converted`. The look for a job and the
  write of `archived` are one step.
- `YesAnnouncedOnce`: `AnnouncedOnce` while no two requests overlap between load and
  commit (`~Races`), torn bookings included. Inductive (`YesInv`), by counting: each
  request that made the acceptance it works on is entitled to one announcement, there
  are no more of those requests than acceptances not announced yet (`EachHasItsYes`), and
  a request takes no old acceptance for its own (`LoadedIsTheRow`).
- `VisitHasOneRequest`: `OneRequestPerVisit`, without conditions. Inductive: locks exclude each
  other, and a post about to write contacts on a row holds the locks of all of them
  since it found no fresh row with any (`Apart`).
- `LocksNeverCycle`: `NoLockCycle`, without conditions. The locks a post holds lie below
  those it still takes (`Ascends`); in a set of posts that all wait for each
  other, take the greatest key waited for: its holder waits too, for a greater one. Keys are
  bounded by `MaxKey`, as 64-bit integers are.
- `AnsweredKeyStays`: `AnsweredKeyIsKnown` while no two posts fold into one row (`~SharedRow`).
  Inductive (`KeyInv`): the key on the copy a fold works on is the row's, so a fold neither
  overwrites a key nor leaves one off.

### `ConversationProofs` (`MailThreads`, `FollowUps`)
- `ClientHasOneThread`: `OneThread` for any number of syncs, webhooks and links, with every
  loss and crash: what was read or opened under a client's lock is still so at the commit.
- `CursorKeepsMail`: `MailIsKept` under `~Losses`: every mail a cursor, stored or about to
  be, covers is stored or in the hands of the worker that will store that cursor.
- `SourceIsTextedOnce`: `TextedOnce` for any number of overlapping decisions under `~TwoRuns`: one
  row per source inside the cooldown (`OneRowEach`), one decider past the compare-and-set of a
  row, and no text left before it sends (`OneDeciderEach`).

### `CalendarProofs` (`GoogleMirror`, `TurnoverSync`)
- `KnownEventsAreLinked`: `KnownEventIsLinked` for any number of jobs, events and overlapping
  pushes, while office requests do not overlap with pushes and healing (`Crowded = FALSE`).
  Inductive (`MirrorInv`): every id in use is of an event made for that job
  (`Attributed`); a job whose event is on its way has none in its row, and only the push
  that holds the row has made one (`OneMaker`); an office request has the calendar to
  itself (`Apart`); what is about to be cleared is still dead (`HealsTheDead`).
- `SweptWhenGone`: `SweptOnlyWhenGone`, and `OfficeStands`: `OfficeDecisionStands`, both
  without conditions: any number of feeds, bookings and turnovers, bookings that share a
  date, feeds that fail, are skipped or roll back, and the office at work between two
  feeds. Inductive (`TurnoverInv`): a turnover has one booking, as the UNIQUE index has
  it (`OneLink`), and while a run may still sweep, whatever the feeds it is done with
  showed is among what it has seen (`ReadSoFar`). A feed is one transaction over its
  bookings, a `FoldLeft`: `FoldRuns` unfolds it, `AllTaken` proves by induction over the
  bookings taken that a scheduled turnover stays scheduled and leaves its date only after
  its own booking (`FollowsTheGuest`), and that a booking the office dismissed gets no
  turnover (`LeavesDismissed`), in whatever order the feed lists them.

### `SeriesProofs` (`RecurringVisits`, `Cadence`, `Routes`)
- `MovedStands`: `MovedVisitStands` without conditions: every step of the series protects the
  targets of exceptions.
- `OffStaysOff`: `TakenOffStaysOff` when no generation is overtaken (`~Overlaps`) and no
  moved visit is moved or skipped again (`~MovesAgain`). Inductive: a date taken off is
  hidden from the generator, by its exception or by the row that is there
  (`OffAndHidden`). Without the second condition `MCRecurringVisitsMovedTwice` breaks it.
- `PromiseIsKept`: `CadenceKept`, and `CountIsKept`: `EndsAfterN`, for weeks and months of any
  length, any rules and any horizon, while every-N-days series have no chosen weekdays
  (`OddDays = FALSE`; with them both fail, section 4). Inductive
  (`CadenceInv`, `Running`): the visits are the dates of the anchored rule from the anchor to
  the last horizon and before the end (`DatesDue`), no date the tick still reaches lies
  before the anchor, and the end is the day after the N-th visit (`EndsRight`). Pinning the
  anchor changes no date (`SamePhase`) and no count (`SameNth`), so saving the form again
  changes nothing (`SaveChangesNothing`). That the dates are the promised ones is
  arithmetic: being in phase with the anchor is being some intervals after the first visit
  (`InPhase`), and a day clamped to the month's length is that day or the last of a
  shorter month (`Clamped`, over months that are sums, `MonthStarts`).
- `RouteBelongsToTaker`: `OwnerTookIt` while nobody commits between the load and the commit of
  an office request (`RouteRaces = FALSE`). Inductive (`RouteInv`): the request has the
  route as it is (`SeenIsCurrent`), and a route that can be offered was never taken
  (`TakenOnce`): from active it only ends.
- `RateIsShared`: `SharesAddUp`, without conditions, for any number of houses: the floors of
  `split_rate` add up to no more than the rate (`FloorsFit`: the sum of the floors times the
  total weight is at most the rate times the weights summed), so the last share, which takes
  the remainder, is not negative; each house gets its own share (`ShareOfHouse`), and the
  shares make the rate (`SharesMakeTheRate`). `RouteTypeOK` is the invariant. The split is
  in whole cents, as in the model; the division in floats that the code does before it
  truncates is not looked at.

### What the proofs assume

Assumptions on constants are the named `ASSUME`s of the modules, evaluated by TLC on every
run: sentinels differ from values, sets of actors are disjoint, switches are Boolean, and
what is counted or added up is finite (`Cleaners`, `Staff`, `Taps`, `QuoteRequests`, `Bookings`,
`Turnovers`, `Houses`: people, requests in flight and rows of a table). `NoJob` is no pusher
and `Nothing` no content of a feed, so that "none" cannot be mistaken for one;
`LastDay` is at least 1, `Rates` has a rate, months have days, and the calendar advances
by at least a week.

### Only model-checked

- Liveness (`StrandedIsAnswered`, `PaymentIsRecorded`, `FailedDebitReleases`): TLAPS has no
  rule for fairness here.
- `BackOfficeTypeOK`: it is the parts' type invariants, of which those of turnovers, visits,
  routes, requests and mail are proved without conditions and those of the calendar and the
  follow-ups under the hypotheses above, that of `Cadence` for `OddDays = FALSE`; that of a
  quote but for the bound on `yes`.
- What a hypothesis above leaves out: the steps named as exclusions for the marketplace and
  the invoice, late stamps, payments and judgements of the payouts, and the other rows of the switch table.

## 6. Where the code and its words disagree

1. **Two sends of one payout.** `StripeRail` is "most careful about" not paying twice
   (sub_payouts.py:508). `send` takes no lock and looks at neither status nor stamp
   after its first read; when two requests for the same row overlap, the second
   computes its key from the reference the first has just written, and Stripe makes a
   second transfer. (`MCSubPayoutsDoubleTap`)
2. **Two instant winners.** `consider` says the second caller "wakes to a closed offer"
   (claim_autoapprove.py:156). The locking query returns the object the session
   already holds, with the offer still open. (`MCClaimMarketTwoClaims`)
3. **A withdrawn commitment.** `withdraw_claim` works "only while it is still pending"
   (crew/router.py:1454), read without a lock; an approval that commits between
   the read and the write is overwritten. (`MCClaimMarketWithdrawn`)
4. **A debit that outlasts its hold.** The 409 of `start_checkout` promises "you won't be
   charged twice" (invoicing/router.py:865), but Stripe is asked only until the
   stored expires_at, about a day; bank debits take several.
   (`MCInvoiceCheckoutSlowDebit`)
5. **Dunning a paid invoice.** "a marked-paid invoice can't be re-dunned"
   (dunning_service.py:145): the tick decides, emails, then writes `overdue` over the
   `paid` that came in meanwhile. (`MCInvoiceCheckoutDunned`)

6. **A visit moved twice.** An exception row "means the corresponding date in the recurrence
   rule should NOT generate a Job (skip), or should generate a Job at a different
   date/time (reschedule)" (database/models.py:643-645). A visit moved to a date and
   skipped there has two exceptions, and `_apply_exceptions` (recurring/router.py:595) adds the
   target of the first after it took out the skips: the visit is generated
   again. (`MCRecurringVisitsMovedTwice`)

The hazards in `PROJECT.json` without a property are what reading the code showed
beyond these; each says where.

## 7. Plan

Done, in this order: `SubPayouts`, `ClaimMarket`, `InvoiceCheckout`, `QuoteToJob`,
`RecurringVisits`, `Cadence`, `TurnoverSync`, `GoogleMirror`, `Routes`, `RequestInbox`,
`MailThreads`, `FollowUps`, the ledger's refinement, and the proofs of section 5. Left:

1. A composition of `ClaimMarket` and `SubPayouts` over one job: who is paid is who agreed
   and was on it when it was completed. With it an abstract award (open, won by one,
   closed) that the marketplace implements.
2. The conversion of an intake to a client and a quote, in front of `QuoteToJob`.
3. The completion's draft invoice, between `ClaimMarket` and `InvoiceCheckout`.
4. Sent mail and the merging of placeholder clients in `MailThreads`; the two-way mode
   of the Google calendar.
5. The scheduler's singleton lock, reminders.
6. Theorems: `BackOfficeTypeOK` as a whole.

Runs are kept to about a dozen, one per question: a later module takes the place
of a run whose question a theorem has meanwhile answered for every instance, and
small instances share `MCBackOffice`.
