----------------------------- MODULE QuoteToJob -----------------------------
(***************************************************************************)
(* One quote, the job made from it and the deal it belongs to: the         *)
(* customer's public link, the office's endpoints and the expiry tick      *)
(* (modules/quoting/router.py, create_job of modules/scheduling/router.py, *)
(* utils/opportunity_helper.py).                                           *)
(*                                                                         *)
(* A handler loads the quote, decides, and commits; accepting and booking  *)
(* go on in further transactions, between which other handlers run.        *)
(***************************************************************************)
EXTENDS Integers, FiniteSets

CONSTANTS
    QuoteRequests,  \* requests that can be in flight at once
    Races,          \* two of them may both load the quote before either commits
    TornBookings,   \* the process may die between the two commits of create_job
    MaxYes          \* how many acceptances are counted (a bound for TLC)

ASSUME QuoteAssumption ==
    /\ Races \in BOOLEAN /\ TornBookings \in BOOLEAN /\ MaxYes \in Nat \ {0}
    /\ IsFiniteSet(QuoteRequests)

VARIABLES
    quote,     \* the row: status, whether valid_until is ahead, opened before, property linked
    quoteJob,  \* the job with this quote_id (UNIQUE), or "none"
    deal,      \* stage of the opportunity
    asked,     \* what each request in flight is doing
    yes        \* history: acceptances not announced to the owner yet

quoteVars == <<quote, quoteJob, deal, asked, yes>>

QuoteStatus == {"draft", "sent", "viewed", "changes_requested", "accepted", "declined",
                "expired", "converted", "archived", "gone"}
Quote == [status: QuoteStatus, valid: BOOLEAN, opened: BOOLEAN, linked: BOOLEAN]
QuoteJob == {"none", "unscheduled", "scheduled", "completed", "cancelled"}
QuoteOps == {"send", "accept", "officeAccept", "schedule", "convert", "decline",
             "officeDecline", "change", "archive"}

\* converting, booking and linking are later transactions of a handler;
\* `newly` says that it made the acceptance it is working on.
Asked == [op: QuoteOps, pc: {"idle", "loaded", "converting", "booking", "linking"},
          seen: Quote, newly: BOOLEAN]
Draft(linked) == [status |-> "draft", valid |-> TRUE, opened |-> FALSE, linked |-> linked]
AskedNothing == [op |-> "send", pc |-> "idle", seen |-> Draft(FALSE), newly |-> FALSE]

QuoteTypeOK ==
    /\ quote \in Quote
    /\ quoteJob \in QuoteJob
    /\ deal \in {"quoted", "won", "lost"}
    /\ asked \in [QuoteRequests -> Asked]
    /\ yes \in -1..MaxYes

QuoteInit ==
    /\ \E linked \in BOOLEAN : quote = Draft(linked)
    /\ quoteJob = "none"
    /\ deal = "quoted"
    /\ asked = [r \in QuoteRequests |-> AskedNothing]
    /\ yes = 0

-----------------------------------------------------------------------------
Won == {"accepted", "converted"}

RoomForYes == yes + Cardinality({r \in QuoteRequests : asked[r].pc # "idle"}) < MaxYes

\* Nobody else is between loading the quote and committing.
Turn(r) == Races \/ \A q \in QuoteRequests \ {r} : asked[q].pc # "loaded"

LoadQuote(r, op) ==
    /\ asked[r].pc = "idle" /\ Turn(r) /\ RoomForYes /\ quote.status # "gone"
    /\ asked' = [asked EXCEPT ![r] = [AskedNothing EXCEPT !.op = op, !.pc = "loaded", !.seen = quote]]
    /\ UNCHANGED <<quote, quoteJob, deal, yes>>

At(r, op, pc) == asked[r].op = op /\ asked[r].pc = pc
Seen(r) == asked[r].seen
Replied(r) == asked' = [asked EXCEPT ![r] = AskedNothing]
GoOn(r, pc, newly) ==
    asked' = [asked EXCEPT ![r] = [AskedNothing EXCEPT !.op = asked[r].op, !.pc = pc, !.newly = newly]]

\* The unit of work writes the status only when the handler changed it.
Write(r, status) ==
    quote' = IF status = Seen(r).status THEN quote ELSE [quote EXCEPT !.status = status]

\* Mutation: public_accept_quote turns an answered quote away, not a converted one.
RefusalForgetsConverted(op) ==
    CASE op = "send" -> QuoteStatus \ {"draft", "sent", "viewed", "changes_requested"}
      [] op = "accept" -> {"accepted", "declined"}
      [] op = "officeAccept" -> Won \cup {"declined"}
      [] op = "schedule" -> {"declined"}
      [] op = "decline" -> {"accepted"}
      [] op = "officeDecline" -> {"accepted", "declined"}
      [] op = "archive" -> {"converted"}
      [] OTHER -> {}

\* 4xx, or nothing to do: public accept of a won quote, public decline of an
\* accepted one, and so on.
Refusal(op) ==
    CASE op = "send" -> QuoteStatus \ {"draft", "sent", "viewed", "changes_requested"}
      [] op = "accept" -> Won \cup {"declined"}
      [] op = "officeAccept" -> Won \cup {"declined"}
      [] op = "schedule" -> {"declined"}
      [] op = "decline" -> {"accepted"}
      [] op = "officeDecline" -> {"accepted", "declined"}
      [] op = "archive" -> {"converted"}
      [] OTHER -> {}

Refused(r) ==
    /\ asked[r].pc = "loaded" /\ Seen(r).status \in Refusal(asked[r].op)
    /\ Replied(r)
    /\ UNCHANGED <<quote, quoteJob, deal, yes>>

Allowed(r, op) == At(r, op, "loaded") /\ Seen(r).status \notin Refusal(op) /\ Turn(r)

\* send_quote: the email and the text go out before the status is written.
Send(r) ==
    /\ Allowed(r, "send")
    /\ \/ UNCHANGED quote
       \/ Write(r, IF Seen(r).status \in {"draft", "changes_requested"} THEN "sent" ELSE Seen(r).status)
    /\ Replied(r)
    /\ UNCHANGED <<quoteJob, deal, yes>>

\* The customer is too late: the row says so.
TooLate(r) ==
    /\ Allowed(r, "accept") \/ Allowed(r, "schedule")
    /\ ~Seen(r).valid
    /\ Write(r, "expired") /\ Replied(r)
    /\ UNCHANGED <<quoteJob, deal, yes>>

\* A yes that the row did not have before.
Heard(news) == yes' = IF news THEN yes - 1 ELSE yes
NewYes == quote.status \notin Won

\* public_accept_quote and accept_quote: with a property the acceptance is
\* committed and the conversion follows, else the deal is won with it.
Accept(r) ==
    /\ Allowed(r, "officeAccept") \/ (Allowed(r, "accept") /\ Seen(r).valid)
    /\ Write(r, "accepted")
    /\ IF quote.linked
       THEN /\ yes' = IF NewYes THEN yes + 1 ELSE yes
            /\ GoOn(r, "converting", TRUE) /\ UNCHANGED deal
       ELSE /\ yes' = IF NewYes THEN yes ELSE yes - 1
            /\ deal' = "won" /\ Replied(r)
    /\ UNCHANGED quoteJob

\* _convert_quote_to_job without a date: the job that is there is returned and
\* the deal left alone; else job, quote and deal in one commit.
Converted ==
    /\ quote' = [quote EXCEPT !.status = "converted"]
    /\ IF quoteJob # "none" THEN UNCHANGED <<quoteJob, deal>>
       ELSE quoteJob' = "unscheduled" /\ deal' = "won"

FinalizeAccept(r) ==
    /\ asked[r].pc = "converting" /\ Turn(r)
    /\ IF quote.status = "gone" THEN UNCHANGED <<quote, quoteJob, deal>>
       ELSE \/ Converted
            \/ deal' = "won" /\ UNCHANGED <<quote, quoteJob>>   \* the conversion failed
    /\ yes' = yes - 1
    /\ Replied(r)

\* public_schedule_quote: accept unless that was done, commit, then the job.
ScheduleYes(r) ==
    LET newly == Seen(r).status \in {"draft", "sent", "viewed"}
    IN /\ Allowed(r, "schedule") /\ Seen(r).valid
       /\ Write(r, IF newly THEN "accepted" ELSE Seen(r).status)
       /\ yes' = IF newly /\ NewYes THEN yes + 1 ELSE yes
       /\ GoOn(r, "booking", newly)
       /\ UNCHANGED <<quoteJob, deal>>

\* The job that is there is re-dated by update_job, whatever its status; else
\* create_job inserts it and updates the quote in a second transaction.
Book(r) ==
    /\ At(r, "schedule", "booking") /\ Turn(r)
    /\ IF quoteJob # "none"
       THEN /\ quoteJob' = IF quoteJob = "unscheduled" THEN "scheduled" ELSE quoteJob
            /\ Heard(asked[r].newly) /\ Replied(r)
       ELSE /\ quote.status # "gone"
            /\ quoteJob' = "scheduled" /\ UNCHANGED yes
            /\ GoOn(r, "linking", asked[r].newly)
    /\ UNCHANGED <<quote, deal>>

\* create_job answers 4xx, or the quote is gone: the customer is told to call.
BookFails(r) ==
    /\ At(r, "schedule", "booking")
    /\ Replied(r)
    /\ UNCHANGED <<quote, quoteJob, deal, yes>>

Link(r) ==
    /\ asked[r].pc = "linking" /\ Turn(r)
    /\ IF quote.status \in {"converted", "gone"} THEN UNCHANGED <<quote, deal>>
       ELSE quote' = [quote EXCEPT !.status = "converted"] /\ deal' = "won"
    /\ Heard(asked[r].newly)
    /\ Replied(r)
    /\ UNCHANGED quoteJob

\* The office converts, with or without a date; no status is refused.
Convert(r) ==
    /\ Allowed(r, "convert")
    /\ \/ /\ quote.status # "gone" /\ Converted /\ Replied(r)
       \/ /\ quote.status # "gone" /\ quoteJob = "none"
          /\ quoteJob' = "scheduled" /\ GoOn(r, "linking", FALSE) /\ UNCHANGED <<quote, deal>>
    /\ UNCHANGED yes

Decline(r) ==
    /\ Allowed(r, "decline") \/ Allowed(r, "officeDecline")
    /\ Write(r, "declined") /\ deal' = "lost" /\ Replied(r)
    /\ UNCHANGED <<quoteJob, yes>>

RequestChanges(r) ==
    /\ Allowed(r, "change")
    /\ Write(r, IF Seen(r).status \in {"draft", "sent", "viewed"} THEN "changes_requested"
                ELSE Seen(r).status)
    /\ Replied(r)
    /\ UNCHANGED <<quoteJob, deal, yes>>

\* Mutation: archiving looks at the status only.
ArchiveByStatus(r) ==
    /\ Allowed(r, "archive")
    /\ Write(r, "archived") /\ Replied(r)
    /\ UNCHANGED <<quoteJob, deal, yes>>

\* delete_quote and bulk_archive_quotes: refused once a job is there.
Archive(r) ==
    /\ Allowed(r, "archive")
    /\ IF quoteJob # "none" THEN UNCHANGED quote ELSE Write(r, "archived")
    /\ Replied(r)
    /\ UNCHANGED <<quoteJob, deal, yes>>

QuoteProcessDies(r) ==
    /\ asked[r].pc # "idle" /\ (asked[r].pc = "linking" => TornBookings)
    /\ Replied(r)
    /\ UNCHANGED <<quote, quoteJob, deal, yes>>

-----------------------------------------------------------------------------
(* Short transactions, and what happens around the quote. *)

\* Nobody is between loading the quote and committing.
Quiet == Races \/ \A r \in QuoteRequests : asked[r].pc # "loaded"
QuoteBecomes(q) == Quiet /\ q # quote /\ quote' = q /\ UNCHANGED <<quoteJob, deal, asked, yes>>

\* public_view_quote; only the first opening counts.
View == /\ quote.status # "gone" /\ ~quote.opened
        /\ QuoteBecomes([quote EXCEPT !.opened = TRUE, !.status = IF @ = "sent" THEN "viewed" ELSE @])

\* quote_expiry_tick
Expire == quote.status \in {"sent", "viewed"} /\ ~quote.valid
          /\ QuoteBecomes([quote EXCEPT !.status = "expired"])

\* permanently_delete_quote
PurgeQuote == quote.status = "archived" /\ quoteJob = "none"
              /\ QuoteBecomes([quote EXCEPT !.status = "gone"])

\* create_quote: the next one, for a deal of its own.
NewQuote ==
    /\ quote.status = "gone" /\ \A r \in QuoteRequests : asked[r].pc = "idle"
    /\ \E linked \in BOOLEAN : quote' = Draft(linked)
    /\ deal' = "quoted" /\ yes' = 0
    /\ UNCHANGED <<quoteJob, asked>>

\* patch_quote, as the pages use it: a new date, or a recurring schedule set up.
PatchQuote == quote.status # "gone"
              /\ \/ QuoteBecomes([quote EXCEPT !.valid = TRUE])
                 \/ quote.status \in Won /\ QuoteBecomes([quote EXCEPT !.status = "converted"])

DatePasses == quote.status # "gone" /\ QuoteBecomes([quote EXCEPT !.valid = FALSE])

\* The job's own life: dated, done, called off, or deleted by delete_job,
\* which leaves the quote as it is.
JobLives ==
    /\ Quiet
    /\ \/ quoteJob = "unscheduled" /\ quoteJob' = "scheduled"
       \/ quoteJob = "scheduled" /\ quoteJob' \in {"completed", "cancelled"}
       \/ quoteJob # "none" /\ quoteJob' = "none"
    /\ UNCHANGED <<quote, deal, asked, yes>>

QuoteNext ==
    \/ \E r \in QuoteRequests :
        \/ \E op \in QuoteOps : LoadQuote(r, op)
        \/ Refused(r) \/ Send(r) \/ TooLate(r) \/ Accept(r) \/ FinalizeAccept(r)
        \/ ScheduleYes(r) \/ Book(r) \/ BookFails(r) \/ Link(r) \/ Convert(r)
        \/ Decline(r) \/ RequestChanges(r) \/ Archive(r) \/ QuoteProcessDies(r)
    \/ View \/ Expire \/ PurgeQuote \/ NewQuote \/ PatchQuote \/ DatePasses \/ JobLives

QuoteSpec == QuoteInit /\ [][QuoteNext]_quoteVars

-----------------------------------------------------------------------------
(* Properties *)

\* _finalize_quote_accept runs once per acceptance, whichever of the three
\* endpoints took it: the owner is not told twice of one yes.
AnnouncedOnce == yes >= 0

\* A quote a job was made from is never put away ("that would orphan the
\* revenue->job link"), through all accepts, bookings, declines and deletions
\* that overlap with the archiving; create_job's second transaction aside.
ArchivedHasNoJob ==
    quote.status \in {"archived", "gone"} /\ (\A r \in QuoteRequests : asked[r].pc # "linking")
        => quoteJob = "none"
=============================================================================
