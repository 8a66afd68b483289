---------------------------- MODULE PayoutLedger ----------------------------
(***************************************************************************)
(* What the payout ledger promises, as a sub or a bookkeeper would say it: *)
(* work is owed, paid while it is owed and only once, then settled; money  *)
(* that came home makes it owed again.  No requests, no reads before       *)
(* writes, no lost answers, no keys.  SubPayouts implements it unless a    *)
(* send stamps, or pays for, a row that was moved since it looked.         *)
(***************************************************************************)
CONSTANTS
    Work,      \* the pieces of work somebody may be owed for
    Payments   \* the payments that can be made

VARIABLES
    entry,     \* the ledger entry of a piece of work
    made,      \* the payments made for it
    home       \* the payments that came back

ledger == <<entry, made, home>>

LedgerTypeOK ==
    /\ entry \in [Work -> {"none", "open", "closed"}]
    /\ made \in [Work -> SUBSET Payments]
    /\ home \subseteq Payments

Init ==
    /\ entry = [w \in Work |-> "none"]
    /\ made = [w \in Work |-> {}]
    /\ home = {}

Moves(W, from, to) ==
    /\ \A w \in W : entry[w] = from
    /\ entry' = [w \in Work |-> IF w \in W THEN to ELSE entry[w]]
    /\ UNCHANGED <<made, home>>

\* A payment of this work came home, so a person is deciding about it.
CameHome(w) == made[w] \cap home # {}

Owe(W) == Moves(W, "none", "open")
Settle(W) == Moves(W, "open", "closed")
Reopen(W) == (\A w \in W : CameHome(w)) /\ Moves(W, "closed", "open")

\* Money leaves for open work only, and once, as long as none came home.
Pay(w, p) ==
    /\ entry[w] = "open"
    /\ made[w] = {} \/ CameHome(w)
    /\ \A v \in Work : p \notin made[v]
    /\ made' = [made EXCEPT ![w] = @ \cup {p}]
    /\ UNCHANGED <<entry, home>>

Return(p) ==
    /\ \E w \in Work : p \in made[w]
    /\ home' = home \cup {p}
    /\ UNCHANGED <<entry, made>>

Next ==
    \/ \E W \in SUBSET Work : Owe(W) \/ Settle(W) \/ Reopen(W)
    \/ \E w \in Work, p \in Payments : Pay(w, p)
    \/ \E p \in Payments : Return(p)

Spec == Init /\ [][Next]_ledger
=============================================================================
