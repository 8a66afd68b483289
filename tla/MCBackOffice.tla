---------------------------- MODULE MCBackOffice ----------------------------
(***************************************************************************)
(* Small instances of ten modules, explored side by side: `part` says      *)
(* which of them runs, and the variables of the others keep their first    *)
(* values.  Nothing is multiplied and nothing interacts.                   *)
(***************************************************************************)
EXTENDS TurnoverSync, QuoteToJob, RecurringVisits, GoogleMirror, Cadence, Routes,
        InvoiceCheckout, RequestInbox, MailThreads, FollowUps, TLC

CONSTANTS
    b1, b2, fa, fb,   \* two bookings, each from a feed of its own
    c1, s1,           \* a client and a stranger
    m1, m2, t1        \* who wrote: the client a mail and a text, the stranger a mail

VARIABLE part

Owner == (b1 :> fa) @@ (b2 :> fb)
TheRules == {{1}, {1, 2}}
TheMonths == <<3, 5, 4>>
TheDays == {{}, {0}, {1, 3}}
TheForms ==
    {[email |-> 1, phone |-> 2, home |-> "h", key |-> NoKey],
     [email |-> 1, phone |-> 0, home |-> NoHome, key |-> "book"],
     [email |-> 0, phone |-> 2, home |-> "h", key |-> "fb"]}
TheSender == (m1 :> c1) @@ (m2 :> s1) @@ (t1 :> c1)

allVars == <<part, turnoverVars, quoteVars, recurringVars, mirrorVars, cadenceVars, routeVars, vars,
             inboxVars, mailVars, followVars>>

\* The part that runs starts anywhere, the others at one place.
BackOfficeInit ==
    /\ part \in {"turnovers", "quotes", "visits", "calendar", "cadence", "routes", "checkout",
                "inbox", "mail", "followUps"}
    /\ TurnoverInit /\ QuoteInit /\ RecurringInit /\ MirrorInit /\ CadenceInit /\ RouteInit
    /\ Init /\ InboxInit /\ MailInit /\ FollowInit
    /\ part # "quotes" => ~quote.linked
    /\ part # "cadence" => day = 0
    /\ part # "routes" => \A h \in Houses : house[h].minutes = 0

RunTurnovers == part = "turnovers" /\ TurnoverNext
    /\ UNCHANGED <<part, quoteVars, recurringVars, mirrorVars, cadenceVars, routeVars, vars, inboxVars, mailVars, followVars>>
RunQuotes == part = "quotes" /\ QuoteNext
    /\ UNCHANGED <<part, turnoverVars, recurringVars, mirrorVars, cadenceVars, routeVars, vars, inboxVars, mailVars, followVars>>
RunVisits == part = "visits" /\ RecurringNext
    /\ UNCHANGED <<part, turnoverVars, quoteVars, mirrorVars, cadenceVars, routeVars, vars, inboxVars, mailVars, followVars>>
RunCalendar == part = "calendar" /\ MirrorNext
    /\ UNCHANGED <<part, turnoverVars, quoteVars, recurringVars, cadenceVars, routeVars, vars, inboxVars, mailVars, followVars>>
RunCadences == part = "cadence" /\ CadenceNext
    /\ UNCHANGED <<part, turnoverVars, quoteVars, recurringVars, mirrorVars, routeVars, vars, inboxVars, mailVars, followVars>>
RunRoutes == part = "routes" /\ RouteNext
    /\ UNCHANGED <<part, turnoverVars, quoteVars, recurringVars, mirrorVars, cadenceVars, vars, inboxVars, mailVars, followVars>>
RunCheckout == part = "checkout" /\ Next
    /\ UNCHANGED <<part, turnoverVars, quoteVars, recurringVars, mirrorVars, cadenceVars, routeVars, inboxVars, mailVars, followVars>>
RunInbox == part = "inbox" /\ InboxNext
    /\ UNCHANGED <<part, turnoverVars, quoteVars, recurringVars, mirrorVars, cadenceVars, routeVars, vars, mailVars, followVars>>
RunMail == part = "mail" /\ MailNext
    /\ UNCHANGED <<part, turnoverVars, quoteVars, recurringVars, mirrorVars, cadenceVars, routeVars, vars, inboxVars, followVars>>
RunFollowUps == part = "followUps" /\ FollowNext
    /\ UNCHANGED <<part, turnoverVars, quoteVars, recurringVars, mirrorVars, cadenceVars, routeVars, vars, inboxVars, mailVars>>

BackOfficeNext ==
    \/ RunTurnovers
    \/ RunQuotes
    \/ RunVisits
    \/ RunCalendar
    \/ RunCadences
    \/ RunRoutes
    \/ RunCheckout
    \/ RunInbox
    \/ RunMail
    \/ RunFollowUps

BackOfficeSpec == BackOfficeInit /\ [][BackOfficeNext]_allVars

\* Ids are interchangeable, and so are the two bookings with their feeds.
BackOfficeSymmetry ==
    Permutations(Turnovers) \cup {(b1 :> b2) @@ (b2 :> b1) @@ (fa :> fb) @@ (fb :> fa)}

\* The type invariants of the modules without a run of their own.
BackOfficeTypeOK ==
    CASE part = "turnovers" -> TurnoverTypeOK
      [] part = "quotes" -> QuoteTypeOK
      [] part = "visits" -> RecurringTypeOK
      [] part = "calendar" -> MirrorTypeOK
      [] part = "cadence" -> CadenceTypeOK
      [] part = "routes" -> RouteTypeOK
      [] part = "inbox" -> InboxTypeOK
      [] part = "mail" -> MailTypeOK
      [] part = "followUps" -> FollowTypeOK
      [] OTHER -> TRUE
=============================================================================
