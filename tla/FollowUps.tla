------------------------------ MODULE FollowUps ------------------------------
(***************************************************************************)
(* Drafted follow-ups: draft_followups of services/autopilot_drafts.py     *)
(* proposes texts to customers who wait, people approve or dismiss them,   *)
(* and approving sends (services/proposals.py, send_reply of               *)
(* modules/comms/router.py).                                               *)
(*                                                                         *)
(* A source is the conversation, or the quiet quote, a text is about.      *)
(* Drafting takes a language model's time per source; nothing is locked,   *)
(* and a decision is a compare-and-set on the status.                      *)
(***************************************************************************)
EXTENDS Integers, FiniteSets

CONSTANTS
    Sources,
    Proposals,   \* ids of rows
    Drafters,    \* runs that can be under way: Home's daily one, the button's
    Deciders,    \* approvals and dismissals that can be in flight
    NoSource, NoProposal,
    TwoRuns      \* two runs may overlap

ASSUME FollowUpAssumption == NoSource \notin Sources /\ NoProposal \notin Proposals /\ TwoRuns \in BOOLEAN

VARIABLES
    proposed,   \* proposed_actions: pending, or decided inside the cooldown
    waiting,    \* sources nobody has answered for hours
    drafting,   \* per run: the sources it is going to draft
    deciding    \* per request: the row, its status as loaded, and how far it is

followVars == <<proposed, waiting, drafting, deciding>>

\* texts is history: how often the row's text left for the customer.
Proposal == [status: {"none", "pending", "approved", "dismissed", "executed", "failed"},
             source: Sources \cup {NoSource}, texts: 0..2]
Unproposed == [status |-> "none", source |-> NoSource, texts |-> 0]

Deciding == [pc: {"idle", "loaded", "sending", "logging", "closing"}, of: Proposals \cup {NoProposal},
             approve: BOOLEAN, seen: {p.status : p \in Proposal}]
Undecided == [pc |-> "idle", of |-> NoProposal, approve |-> FALSE, seen |-> "none"]
NotDrafting == [on |-> FALSE, todo |-> {}]

FollowTypeOK ==
    /\ proposed \in [Proposals -> Proposal]
    /\ waiting \subseteq Sources
    /\ drafting \in [Drafters -> [on: BOOLEAN, todo: SUBSET Sources]]
    /\ deciding \in [Deciders -> Deciding]

FollowInit ==
    /\ proposed = [i \in Proposals |-> Unproposed]
    /\ waiting = {}
    /\ drafting = [d \in Drafters |-> NotDrafting]
    /\ deciding = [u \in Deciders |-> Undecided]

-----------------------------------------------------------------------------
(* Drafting *)

\* Mutation: what was decided is forgotten at once.
PendingSources == {proposed[i].source : i \in {i \in Proposals : proposed[i].status = "pending"}}

\* _recent_sources: pending, or decided inside the cooldown whatever the decision.
SpokenFor == {proposed[i].source : i \in Proposals} \ {NoSource}

StartDrafts(d) ==
    /\ ~drafting[d].on /\ (TwoRuns \/ \A e \in Drafters : ~drafting[e].on)
    /\ drafting' = [drafting EXCEPT ![d] = [on |-> TRUE, todo |-> waiting \ SpokenFor]]
    /\ UNCHANGED <<proposed, waiting, deciding>>

\* The model answers, and create_proposal inserts: no two drafts are equal, so
\* its own comparison finds nothing.  Or the draft fails.
DraftFor(d, s) ==
    /\ s \in drafting[d].todo
    /\ drafting' = [drafting EXCEPT ![d].todo = @ \ {s}]
    /\ \/ \E i \in Proposals :
            /\ proposed[i].status = "none" /\ \A u \in Deciders : deciding[u].of # i
            /\ proposed' = [proposed EXCEPT ![i] = [status |-> "pending", source |-> s, texts |-> 0]]
       \/ UNCHANGED proposed
    /\ UNCHANGED <<waiting, deciding>>

\* All is drafted, or the process dies.
EndDrafts(d) ==
    /\ drafting[d].on
    /\ drafting' = [drafting EXCEPT ![d] = NotDrafting]
    /\ UNCHANGED <<proposed, waiting, deciding>>

-----------------------------------------------------------------------------
(* Deciding *)

LoadProposal(u, i, approve) ==
    /\ deciding[u].pc = "idle" /\ proposed[i].status # "none"
    /\ deciding' = [deciding EXCEPT ![u] =
            [pc |-> "loaded", of |-> i, approve |-> approve, seen |-> proposed[i].status]]
    /\ UNCHANGED <<proposed, waiting, drafting>>

RowOf(u) == proposed[deciding[u].of]
Has(u, pc) == deciding[u].pc = pc
Proceeds(u, pc) == deciding' = [deciding EXCEPT ![u].pc = pc]
Ends(u) == deciding' = [deciding EXCEPT ![u] = Undecided]
SetsTo(u, status) == proposed' = [proposed EXCEPT ![deciding[u].of].status = status]

\* Mutation: the status is checked on the row as loaded.
ClaimableAsLoaded(u) == deciding[u].seen = "pending"

\* _claim_pending: an UPDATE that asks for the status, committed at once.
Claimable(u) == RowOf(u).status = "pending"

ClaimPending(u) ==
    /\ Has(u, "loaded")
    /\ IF ~Claimable(u) THEN Ends(u) /\ UNCHANGED proposed
       ELSE IF deciding[u].approve THEN Proceeds(u, "sending") /\ SetsTo(u, "approved")
       ELSE Ends(u) /\ SetsTo(u, "dismissed")
    /\ UNCHANGED <<waiting, drafting>>

\* Twilio takes the text, whether or not its answer arrives.
SendText(u) ==
    /\ Has(u, "sending")
    /\ proposed' = [proposed EXCEPT ![deciding[u].of].texts = IF @ < 2 THEN @ + 1 ELSE @]
    /\ Proceeds(u, "logging")
    /\ UNCHANGED <<waiting, drafting>>

\* send_reply commits the message and the conversation's last_outbound_at; a
\* nudge leaves the quote as quiet as it was.
LogText(u) ==
    /\ Has(u, "logging")
    /\ waiting' \in {waiting, waiting \ {RowOf(u).source}}
    /\ Proceeds(u, "closing")
    /\ UNCHANGED <<proposed, drafting>>

MarkExecuted(u) ==
    /\ Has(u, "closing")
    /\ SetsTo(u, "executed") /\ Ends(u)
    /\ UNCHANGED <<waiting, drafting>>

\* No phone, no such thread, an error from Twilio or of the log: rolled back.
MarkFailed(u) ==
    /\ Has(u, "sending") \/ Has(u, "logging")
    /\ SetsTo(u, "failed") /\ Ends(u)
    /\ UNCHANGED <<waiting, drafting>>

\* An approval whose process died stays approved.
DecisionDies(u) ==
    /\ deciding[u].pc # "idle"
    /\ Ends(u)
    /\ UNCHANGED <<proposed, waiting, drafting>>

-----------------------------------------------------------------------------
(* The customer, the staff and the clock *)

CustomerWaits(s) ==
    /\ s \notin waiting /\ waiting' = waiting \cup {s}
    /\ UNCHANGED <<proposed, drafting, deciding>>

StaffAnswers(s) ==
    /\ s \in waiting /\ waiting' = waiting \ {s}
    /\ UNCHANGED <<proposed, drafting, deciding>>

\* 20 hours after the decision; no request and no run lasts that long.
CooldownPasses(i) ==
    /\ proposed[i].status \notin {"none", "pending"}
    /\ \A u \in Deciders : deciding[u].of # i
    /\ \A d \in Drafters : ~drafting[d].on
    /\ proposed' = [proposed EXCEPT ![i] = Unproposed]
    /\ UNCHANGED <<waiting, drafting, deciding>>

FollowNext ==
    \/ \E d \in Drafters : StartDrafts(d) \/ EndDrafts(d) \/ \E s \in Sources : DraftFor(d, s)
    \/ \E u \in Deciders :
        \/ \E i \in Proposals, approve \in BOOLEAN : LoadProposal(u, i, approve)
        \/ ClaimPending(u) \/ SendText(u) \/ LogText(u) \/ MarkExecuted(u)
        \/ MarkFailed(u) \/ DecisionDies(u)
    \/ \E s \in Sources : CustomerWaits(s) \/ StaffAnswers(s)
    \/ \E i \in Proposals : CooldownPasses(i)

FollowSpec == FollowInit /\ [][FollowNext]_followVars

-----------------------------------------------------------------------------
(* Properties *)

\* "two concurrent decisions can't both win", and "don't re-draft the same
\* source this soon": whatever drafts, decisions, failures and crashes overlap,
\* a source is texted about at most once inside the cooldown.
TextedOnce ==
    /\ \A i \in Proposals : proposed[i].texts <= 1
    /\ \A i, j \in Proposals :
          i # j /\ proposed[i].source = proposed[j].source => proposed[i].texts + proposed[j].texts <= 1
=============================================================================
