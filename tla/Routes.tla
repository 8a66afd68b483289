------------------------------- MODULE Routes -------------------------------
(***************************************************************************)
(* A standing route: a block of recurring houses the office prices and     *)
(* offers to one subcontractor, who takes it or declines, and the visits   *)
(* generated for it (services/routes.py, modules/routes/router.py,         *)
(* accept_route and decline_route of modules/crew/router.py, the route     *)
(* lookup of generate_jobs in modules/recurring/router.py).                *)
(*                                                                         *)
(* Accepting and declining lock the row and read it under the lock.  The   *)
(* office's requests load it without a lock and write, at their commit,    *)
(* the columns they changed.                                               *)
(***************************************************************************)
EXTENDS Integers, Sequences, FiniteSets, FiniteSetsExt

CONSTANTS
    Houses,      \* recurring schedules
    Subs,        \* the subcontractors that can take it
    NoSub,
    Rates,       \* what the block can pay, in cents
    Lengths,     \* scheduled minutes of a visit, 0 without a window
    Editors,     \* office requests that can be in flight at once
    RouteRaces   \* others commit between the load and the commit of one

ASSUME RouteAssumption ==
    /\ NoSub \notin Subs /\ RouteRaces \in BOOLEAN
    /\ IsFiniteSet(Houses)
    /\ Rates \subseteq Nat /\ Rates # {} /\ Lengths \subseteq Nat

VARIABLES
    route,     \* the row, with its members in drive order
    house,     \* per schedule: its length and whether it is active
    stop,      \* per schedule: the visit of the coming date
    editing,   \* office requests: the row as loaded
    taker      \* history: who took the route

routeVars == <<route, house, stop, editing, taker>>

Drives == {s \in UNION {[1..n -> Houses] : n \in 0..Cardinality(Houses)} :
              \A i, j \in DOMAIN s : s[i] = s[j] => i = j}
Route == [status: {"absent", "draft", "offered", "active", "ended"}, owner: Subs \cup {NoSub},
          accepted: BOOLEAN, rate: Rates, members: Drives]
NoRoute == [status |-> "absent", owner |-> NoSub, accepted |-> FALSE,
            rate |-> CHOOSE r \in Rates : TRUE, members |-> <<>>]

\* A visit of the house's own crew is for nobody here and pays no share.
Stop == [made: BOOLEAN, who: Subs \cup {NoSub}, pay: Nat]
NoStop == [made |-> FALSE, who |-> NoSub, pay |-> 0]
NotEditing == [on |-> FALSE, seen |-> NoRoute]

RouteTypeOK ==
    /\ route \in Route
    /\ house \in [Houses -> [minutes: Lengths, active: BOOLEAN]]
    /\ stop \in [Houses -> Stop]
    /\ editing \in [Editors -> [on: BOOLEAN, seen: Route]]
    /\ taker \in Subs \cup {NoSub}

RouteInit ==
    /\ route = NoRoute
    /\ house \in [Houses -> [minutes: Lengths, active: {TRUE}]]
    /\ stop = [h \in Houses |-> NoStop]
    /\ editing = [e \in Editors |-> NotEditing]
    /\ taker = NoSub

-----------------------------------------------------------------------------
(* What the block pays, house by house *)

Members(row) == {row.members[i] : i \in DOMAIN row.members}

\* By minutes, or evenly when one of the houses has none.
Weight(row, i) ==
    IF \A h \in Members(row) : house[h].minutes > 0 THEN house[row.members[i]].minutes ELSE 1

\* Mutation: every share is rounded by itself.
SplitRateRounded(row) ==
    LET total == MapThenSumSet(LAMBDA i : Weight(row, i), DOMAIN row.members)
    IN [i \in DOMAIN row.members |-> (row.rate * Weight(row, i)) \div total]

\* Each share rounded down, the last takes the remainder.
SplitRate(row) ==
    LET n == Len(row.members)
        total == MapThenSumSet(LAMBDA i : Weight(row, i), 1..n)
        floor == [i \in 1..n |-> (row.rate * Weight(row, i)) \div total]
    IN [i \in 1..n |-> IF i < n THEN floor[i]
                       ELSE row.rate - MapThenSumSet(LAMBDA k : floor[k], 1..(n - 1))]

Share(row, h) == MapThenSumSet(LAMBDA i : IF row.members[i] = h THEN SplitRate(row)[i] ELSE 0,
                               DOMAIN row.members)

\* validate_offerable
Blocked(row) ==
    \/ row.rate = 0 \/ row.members = <<>>
    \/ \E h \in Members(row) : ~house[h].active \/ house[h].minutes = 0

-----------------------------------------------------------------------------
(* The office *)

NobodyEdits == RouteRaces \/ \A e \in Editors : ~editing[e].on

CreateRoute ==
    /\ NobodyEdits /\ route.status = "absent"
    /\ \E rate \in Rates, ms \in Drives :
          route' = [NoRoute EXCEPT !.status = "draft", !.rate = rate, !.members = ms]
    /\ UNCHANGED <<house, stop, editing, taker>>

LoadRoute(e) ==
    /\ NobodyEdits /\ ~editing[e].on /\ route.status # "absent"
    /\ editing' = [editing EXCEPT ![e] = [on |-> TRUE, seen |-> route]]
    /\ UNCHANGED <<route, house, stop, taker>>

\* The commit of a request that made `new` of the row it loaded.
Commits(e, new) ==
    /\ editing[e].on /\ route.status # "absent"
    /\ route' = [k \in DOMAIN route |-> IF new[k] # editing[e].seen[k] THEN new[k] ELSE route[k]]
    /\ editing' = [editing EXCEPT ![e] = NotEditing]
    /\ UNCHANGED <<house, stop, taker>>

\* offer_route: it names an intended owner, and can be sent again to another.
Offer(e, c) ==
    LET seen == editing[e].seen
    IN /\ seen.status \in {"draft", "offered"} /\ ~Blocked(seen)
       /\ Commits(e, [seen EXCEPT !.owner = c, !.status = "offered", !.accepted = FALSE])

\* update_route: the rate or the houses; visits made already keep their share.
UpdateRoute(e) ==
    LET seen == editing[e].seen
    IN /\ seen.status # "ended"
       /\ \/ \E rate \in Rates : Commits(e, [seen EXCEPT !.rate = rate])
          \/ \E ms \in Drives : Commits(e, [seen EXCEPT !.members = ms])

EndRoute(e) ==
    /\ editing[e].seen.status # "ended"
    /\ Commits(e, [editing[e].seen EXCEPT !.status = "ended"])

\* delete_route
DeleteDraft(e) ==
    /\ editing[e].on /\ editing[e].seen.status = "draft"
    /\ route' = NoRoute
    /\ editing' = [editing EXCEPT ![e] = NotEditing]
    /\ UNCHANGED <<house, stop, taker>>

\* 4xx, or the request is lost.
EditRefused(e) ==
    /\ editing[e].on
    /\ editing' = [editing EXCEPT ![e] = NotEditing]
    /\ UNCHANGED <<route, house, stop, taker>>

\* A series is paused or resumed, or its window is changed.
HouseChanges(h) ==
    /\ NobodyEdits
    /\ \E row \in [minutes: Lengths, active: BOOLEAN] :
          row # house[h] /\ house' = [house EXCEPT ![h] = row]
    /\ UNCHANGED <<route, stop, editing, taker>>

-----------------------------------------------------------------------------
(* The subcontractor *)

\* accept_route
AcceptRoute(c) ==
    /\ NobodyEdits
    /\ route.status = "offered" /\ route.owner = c /\ ~Blocked(route)
    /\ route' = [route EXCEPT !.status = "active", !.accepted = TRUE]
    /\ taker' = c
    /\ UNCHANGED <<house, stop, editing>>

\* Mutation: a declined route has a status of its own.
DeclineForGood(c) ==
    /\ NobodyEdits
    /\ route.status = "offered" /\ route.owner = c
    /\ route' = [route EXCEPT !.status = "declined", !.owner = NoSub]
    /\ UNCHANGED <<house, stop, editing, taker>>

\* decline_route: back to the office.
DeclineRoute(c) ==
    /\ NobodyEdits
    /\ route.status = "offered" /\ route.owner = c
    /\ route' = [route EXCEPT !.status = "draft", !.owner = NoSub]
    /\ UNCHANGED <<house, stop, editing, taker>>

-----------------------------------------------------------------------------
(* The visits of the coming date, one series after the other *)

\* Mutation: the person it was offered to gets the visits.
GenerateForOffered(h) ==
    LET share == Share(route, h)
        priced == route.owner # NoSub /\ share > 0
    IN /\ NobodyEdits /\ house[h].active /\ ~stop[h].made
       /\ stop' = [stop EXCEPT ![h] = IF priced THEN [made |-> TRUE, who |-> route.owner, pay |-> share]
                                      ELSE [NoStop EXCEPT !.made = TRUE]]
       /\ UNCHANGED <<route, house, editing, taker>>

\* The route is looked up once per generate_jobs.
GenerateStop(h) ==
    LET share == Share(route, h)
        priced == route.status = "active" /\ route.owner # NoSub /\ share > 0
    IN /\ NobodyEdits /\ house[h].active /\ ~stop[h].made
       /\ stop' = [stop EXCEPT ![h] = IF priced THEN [made |-> TRUE, who |-> route.owner, pay |-> share]
                                      ELSE [NoStop EXCEPT !.made = TRUE]]
       /\ UNCHANGED <<route, house, editing, taker>>

\* That date is over.
NextDate ==
    /\ \E h \in Houses : stop[h].made
    /\ stop' = [h \in Houses |-> NoStop]
    /\ UNCHANGED <<route, house, editing, taker>>

RouteNext ==
    \/ CreateRoute \/ NextDate
    \/ \E e \in Editors : \/ LoadRoute(e) \/ UpdateRoute(e) \/ EndRoute(e) \/ DeleteDraft(e)
                          \/ EditRefused(e) \/ \E c \in Subs : Offer(e, c)
    \/ \E c \in Subs : AcceptRoute(c) \/ DeclineRoute(c)
    \/ \E h \in Houses : HouseChanges(h) \/ GenerateStop(h)

RouteSpec == RouteInit /\ [][RouteNext]_routeVars

-----------------------------------------------------------------------------
(* Properties *)

\* "OFFERED, NEVER ASSIGNED" (services/routes.py): a route that generates
\* belongs to the person who took it, and so does every visit priced from it,
\* however often it was offered, declined, offered to another, edited or
\* deleted before, and whatever the office did to it since.
OwnerTookIt ==
    /\ route.status = "active" => route.owner = taker /\ route.accepted
    /\ \A h \in Houses : stop[h].who \in {NoSub, taker}

\* "The shares sum EXACTLY to the block rate": for every drive order, with and
\* without windows, whichever house the remainder falls on, and nobody owes a share.
SharesAddUp ==
    /\ route.members # <<>> =>
          MapThenSumSet(LAMBDA h : Share(route, h), Members(route)) = route.rate
    /\ \A h \in Members(route) : Share(route, h) >= 0
=============================================================================
