---------------------------- MODULE RequestInbox ----------------------------
(***************************************************************************)
(* The inbox of website and Facebook requests: upsert_lead of              *)
(* modules/intake/normalize.py and the office's endpoints in               *)
(* modules/intake/router.py.                                               *)
(*                                                                         *)
(* One visit posts several times, from several endpoints and servers, and  *)
(* each post may be delivered again.  A post looks for the request of the  *)
(* same visit under a lock on each of its identifiers and folds itself in, *)
(* or opens a new request.  The locks are held to the end of the           *)
(* transaction; the row it folds into is not locked.                       *)
(*                                                                         *)
(* An email address or a phone number is a number, the key of its lock;    *)
(* 0 is none given.  `home` is the name with the whole address.            *)
(***************************************************************************)
EXTENDS Integers, FiniteSets

CONSTANTS
    Forms,     \* what a visitor can post
    Posts,     \* posts that can be worked on at once
    Requests,  \* ids of rows
    NoKey, NoHome, NoRequest,
    MaxKey,    \* the keys of locks are 64-bit integers
    SharedRow  \* two posts may fold into one row before either commits

ASSUME InboxAssumption ==
    /\ SharedRow \in BOOLEAN /\ Forms # {} /\ MaxKey \in Nat
    /\ \A f \in Forms : f.email \in 0..MaxKey /\ f.phone \in 0..MaxKey
    /\ \A f, g \in Forms : f.email = g.phone => f.email = 0

VARIABLES
    inbox,     \* lead_intakes
    posting,   \* per post in flight: how far it is, and the row as loaded
    locked,    \* per post: the advisory locks it holds
    answered   \* history: the row a key was answered with, unless it had another key

inboxVars == <<inbox, posting, locked, answered>>

Of(field) == {f[field] : f \in Forms}
InboxKeys == Of("key") \ {NoKey}

\* age: inside the 5 minutes, inside the 24 hours, or older.
Row == [age: {"none", "fresh", "recent", "old"}, archived: BOOLEAN, email: Of("email") \cup {0},
        phone: Of("phone") \cup {0}, home: Of("home") \cup {NoHome}, key: InboxKeys \cup {NoKey}]
NoRow == [age |-> "none", archived |-> FALSE, email |-> 0, phone |-> 0, home |-> NoHome, key |-> NoKey]

\* The columns a post can write on a row that is there.
Columns == [email: Of("email") \cup {0}, phone: Of("phone") \cup {0},
            home: Of("home") \cup {NoHome}, key: InboxKeys \cup {NoKey}]
Loaded(row) == [email |-> row.email, phone |-> row.phone, home |-> row.home, key |-> row.key]

\* `by` says how the row was found; only a match by name and address fills in contacts.
Posting == [pc: {"idle", "posted", "locking", "folding", "opening"}, form: Forms,
            by: {"key", "contact", "home"}, row: Requests \cup {NoRequest}, seen: Columns]
NotPosting == [pc |-> "idle", form |-> CHOOSE f \in Forms : TRUE, by |-> "key",
               row |-> NoRequest, seen |-> Loaded(NoRow)]

InboxTypeOK ==
    /\ inbox \in [Requests -> Row]
    /\ posting \in [Posts -> Posting]
    /\ locked \in [Posts -> SUBSET (Of("email") \cup Of("phone"))]
    /\ answered \in [InboxKeys -> SUBSET Requests]

InboxInit ==
    /\ inbox = [r \in Requests |-> NoRow]
    /\ posting = [p \in Posts |-> NotPosting]
    /\ locked = [p \in Posts |-> {}]
    /\ answered = [k \in InboxKeys |-> {}]

-----------------------------------------------------------------------------
Rows == {r \in Requests : inbox[r].age # "none"}
Form(p) == posting[p].form
OnRow(p, r) == posting[p].pc = "folding" /\ posting[p].row = r

\* The commit, the rollback and the end of the session release the locks.
Done(p) == posting' = [posting EXCEPT ![p] = NotPosting] /\ locked' = [locked EXCEPT ![p] = {}]

\* A key is answered with a row that carries it, or that had none.
Answers(p, r, seenKey) ==
    /\ Done(p)
    /\ answered' = [k \in InboxKeys |->
            IF k = Form(p).key /\ seenKey \in {k, NoKey} THEN answered[k] \cup {r} ELSE answered[k]]

Post(p, f) ==
    /\ posting[p].pc = "idle"
    /\ posting' = [posting EXCEPT ![p] = [NotPosting EXCEPT !.pc = "posted", !.form = f]]
    /\ UNCHANGED <<inbox, locked, answered>>

Fold(p, r, by) ==
    /\ SharedRow \/ \A q \in Posts \ {p} : ~OnRow(q, r)
    /\ posting' = [posting EXCEPT ![p].pc = "folding", ![p].by = by, ![p].row = r, ![p].seen = Loaded(inbox[r])]

\* The short-circuit, before any lock.
WithKey(p) == {r \in Rows : Form(p).key # NoKey /\ inbox[r].key = Form(p).key}

FindByKey(p) ==
    /\ posting[p].pc = "posted"
    /\ IF WithKey(p) # {} THEN \E r \in WithKey(p) : Fold(p, r, "key")
       ELSE posting' = [posting EXCEPT ![p].pc = "locking"]
    /\ UNCHANGED <<inbox, locked, answered>>

\* Mutation: one lock for the pair of identifiers (here, for the first of them).
OneLockForBoth(f) == IF f.email # 0 THEN {f.email} ELSE {f.phone} \ {0}

\* _contact_lock_keys: one per identifier.
LockKeys(f) == {f.email, f.phone} \ {0}
LocksLeft(p) == LockKeys(Form(p)) \ locked[p]

\* Mutation: the locks are taken in the order of a set.
AnyLockLeft(p) == LocksLeft(p)

\* In ascending order.
NextLocks(p) == {k \in LocksLeft(p) : \A j \in LocksLeft(p) : k <= j}

Holders(k) == {p \in Posts : k \in locked[p]}

Lock(p) ==
    /\ posting[p].pc = "locking"
    /\ \E k \in NextLocks(p) : Holders(k) = {} /\ locked' = [locked EXCEPT ![p] = @ \cup {k}]
    /\ UNCHANGED <<inbox, posting, answered>>

\* _find_recent_duplicate: email or phone, within 5 minutes.
SameContact(f) ==
    {r \in Rows : inbox[r].age = "fresh" /\ LockKeys(f) \cap {inbox[r].email, inbox[r].phone} # {}}

\* _find_recent_name_address_duplicate: within 24 hours, not archived.
SameHome(f) ==
    {r \in Rows : inbox[r].age # "old" /\ ~inbox[r].archived /\ f.home # NoHome /\ inbox[r].home = f.home}

Look(p) ==
    /\ posting[p].pc = "locking" /\ LocksLeft(p) = {}
    /\ IF SameContact(Form(p)) # {} THEN \E r \in SameContact(Form(p)) : Fold(p, r, "contact")
       ELSE IF SameHome(Form(p)) # {} THEN \E r \in SameHome(Form(p)) : Fold(p, r, "home")
       ELSE posting' = [posting EXCEPT ![p].pc = "opening"]
    /\ UNCHANGED <<inbox, locked, answered>>

-----------------------------------------------------------------------------
(* Folding a post into the row it found *)

Fill(old, new, none) == IF old = none THEN new ELSE old

\* Mutation: the key of the latest post is the one that is kept.
AdoptLatest(row, f) == IF f.key # NoKey THEN f.key ELSE row.key

\* The row adopts the key of the post only when it has none.
Adopt(row, f) == Fill(row.key, f.key, NoKey)

\* _backfill_lead, and what upsert_lead adds to it.
Folded(row, f, by) ==
    [row EXCEPT !.home = Fill(@, f.home, NoHome),
                !.key = IF by = "key" THEN @ ELSE Adopt(row, f),
                !.email = IF by = "home" THEN Fill(@, f.email, 0) ELSE @,
                !.phone = IF by = "home" THEN Fill(@, f.phone, 0) ELSE @]

\* The columns that changed on the row as loaded.
Written(row, seen, new) ==
    [row EXCEPT !.email = IF new.email # seen.email THEN new.email ELSE @,
                !.phone = IF new.phone # seen.phone THEN new.phone ELSE @,
                !.home = IF new.home # seen.home THEN new.home ELSE @,
                !.key = IF new.key # seen.key THEN new.key ELSE @]

\* The commit: a row that is gone, or a key that another row has by now, is a 500.
CommitFold(p) ==
    LET r == posting[p].row
        seen == posting[p].seen
        new == Folded(seen, Form(p), posting[p].by)
        clash == new.key # seen.key /\ \E q \in Rows \ {r} : inbox[q].key = new.key
    IN /\ posting[p].pc = "folding"
       /\ IF new # seen /\ (r \notin Rows \/ clash) THEN Done(p) /\ UNCHANGED <<inbox, answered>>
          ELSE /\ inbox' = [inbox EXCEPT ![r] = Written(@, seen, new)]
               /\ IF r \in Rows THEN Answers(p, r, seen.key) ELSE Done(p) /\ UNCHANGED answered

\* The insert, with an id of its own; when UNIQUE refuses the key, the winner's row is the answer.
Open(p) ==
    /\ posting[p].pc = "opening"
    /\ IF WithKey(p) # {}
       THEN (\E r \in WithKey(p) : Answers(p, r, Form(p).key)) /\ UNCHANGED inbox
       ELSE \E r \in {r \in Requests \ Rows : \A q \in Posts : ~OnRow(q, r)} :
              /\ inbox' = [inbox EXCEPT ![r] = [age |-> "fresh", archived |-> FALSE, email |-> Form(p).email,
                              phone |-> Form(p).phone, home |-> Form(p).home, key |-> Form(p).key]]
              /\ Answers(p, r, Form(p).key)

\* The process dies or the request fails; the sender may post again.
PostFails(p) ==
    /\ posting[p].pc # "idle"
    /\ Done(p)
    /\ UNCHANGED <<inbox, answered>>

-----------------------------------------------------------------------------
(* Time and the office *)

RowBecomes(r, row) == inbox' = [inbox EXCEPT ![r] = row] /\ UNCHANGED <<posting, locked>>

Ages(r) ==
    /\ inbox[r].age \in {"fresh", "recent"}
    /\ RowBecomes(r, [inbox[r] EXCEPT !.age = IF @ = "fresh" THEN "recent" ELSE "old"])
    /\ UNCHANGED answered

\* update_intake, with a status that archives the request or brings it back.
Archives(r) ==
    /\ r \in Rows
    /\ RowBecomes(r, [inbox[r] EXCEPT !.archived = ~@])
    /\ UNCHANGED answered

\* delete_intake
DeleteIntake(r) ==
    /\ r \in Rows
    /\ RowBecomes(r, NoRow)
    /\ answered' = [k \in InboxKeys |-> answered[k] \ {r}]

InboxNext ==
    \/ \E p \in Posts :
        \/ \E f \in Forms : Post(p, f)
        \/ FindByKey(p) \/ Lock(p) \/ Look(p) \/ CommitFold(p) \/ Open(p) \/ PostFails(p)
    \/ \E r \in Requests : Ages(r) \/ Archives(r) \/ DeleteIntake(r)

InboxSpec == InboxInit /\ [][InboxNext]_inboxVars

-----------------------------------------------------------------------------
(* Properties *)

\* "two near-simultaneous calls from one visit can't both ... insert": posts
\* that share an email or a phone, from any endpoint and with any other
\* identifier, never leave two requests inside the five minutes.
OneRequestPerVisit ==
    \A r, s \in Requests : r # s /\ inbox[r].age = "fresh" /\ inbox[s].age = "fresh" =>
        {inbox[r].email, inbox[r].phone} \cap {inbox[s].email, inbox[s].phone} \subseteq {0}

\* A sender that was answered may deliver the post again hours later: while
\* the request it was answered with is there, its key is still recorded on
\* it, whatever else was folded into that request.
AnsweredKeyIsKnown == \A k \in InboxKeys : \A r \in answered[k] : inbox[r].key = k

\* "required to avoid an ABBA deadlock": among any posts that are taking
\* locks, one can go on without the others.
Awaits(p) == IF posting[p].pc = "locking" THEN UNION {Holders(k) : k \in NextLocks(p)} ELSE {}
NoLockCycle ==
    \A S \in (SUBSET Posts) \ {{}} : \E p \in S : Awaits(p) \cap S = {}
=============================================================================
