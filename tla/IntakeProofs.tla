---------------------------- MODULE IntakeProofs ----------------------------
(***************************************************************************)
(* What a visitor's answers become: a visit has one request, the key its   *)
(* sender was answered with stays on it, posts never wait for each other   *)
(* in a cycle, a quote that was put away has no job, and a yes is told the *)
(* customer once.  For any forms and any number of posts and requests.     *)
(***************************************************************************)
EXTENDS RequestInbox, QuoteToJob, FiniteSetTheorems, WellFoundedInduction, TLAPS

-----------------------------------------------------------------------------
(* Requests from the website *)

Contacts(r) == {inbox[r].email, inbox[r].phone}
Fresh(r) == inbox[r].age = "fresh"

\* Who may put its contacts on a row.
MayWrite(p) == posting[p].pc = "opening" \/ (posting[p].pc = "folding" /\ posting[p].by = "home")

\* It holds their locks since it found no fresh row that has them.
Apart(p) ==
    MayWrite(p) =>
        /\ LockKeys(Form(p)) \subseteq locked[p]
        /\ \A r \in Requests : Fresh(r) => LockKeys(Form(p)) \cap Contacts(r) = {}

\* Locks are taken from below.
Ascends(p) ==
    /\ posting[p].pc \in {"idle", "posted"} => locked[p] = {}
    /\ posting[p].pc = "locking" => \A k \in locked[p], j \in LocksLeft(p) : k < j

LocksExclude == \A p, q \in Posts : p # q => locked[p] \cap locked[q] = {}

InboxInv ==
    /\ InboxTypeOK
    /\ LocksExclude
    /\ \A p \in Posts : Apart(p) /\ Ascends(p)
    /\ OneRequestPerVisit

-----------------------------------------------------------------------------
(* Rows and posts *)

LEMMA BlankRows ==
    /\ NoRow \in Row /\ NoRow.age = "none" /\ Loaded(NoRow) \in Columns
    /\ NotPosting \in Posting /\ NotPosting.pc = "idle" /\ NotPosting.form \in Forms
<1>1. NoRow \in Row /\ NoRow.age = "none" /\ Loaded(NoRow) \in Columns
  BY DEF NoRow, Row, Loaded, Columns
<1>2. PICK some \in Forms : TRUE
  BY InboxAssumption
<1>3. (CHOOSE f \in Forms : TRUE) \in Forms
  BY <1>2
<1> QED BY <1>1, <1>3 DEF NotPosting, Posting

LEMMA KeysOfForms ==
    ASSUME NEW f \in Forms
    PROVE  /\ f.email \in Of("email") /\ f.phone \in Of("phone") /\ f.home \in Of("home")
           /\ f.key \in InboxKeys \cup {NoKey}
           /\ LockKeys(f) \subseteq Of("email") \cup Of("phone")
           /\ LockKeys(f) \subseteq 0..MaxKey
BY InboxAssumption DEF Of, LockKeys, InboxKeys

LEMMA LoadedType ==
    ASSUME NEW row \in Row
    PROVE  Loaded(row) \in Columns
BY DEF Row, Loaded, Columns

\* What folding a form into a row as loaded leaves, and what of it is stored.
LEMMA FoldedType ==
    ASSUME NEW seen \in Columns, NEW f \in Forms, NEW by \in {"key", "contact", "home"}
    PROVE  /\ Folded(seen, f, by) \in Columns
           /\ Folded(seen, f, by).email = seen.email \/ (by = "home" /\ Folded(seen, f, by).email = f.email)
           /\ Folded(seen, f, by).phone = seen.phone \/ (by = "home" /\ Folded(seen, f, by).phone = f.phone)
<1> DEFINE home == Fill(seen.home, f.home, NoHome)
           key == IF by = "key" THEN seen.key ELSE Adopt(seen, f)
           email == IF by = "home" THEN Fill(seen.email, f.email, 0) ELSE seen.email
           phone == IF by = "home" THEN Fill(seen.phone, f.phone, 0) ELSE seen.phone
<1>1. /\ seen.email \in Of("email") \cup {0} /\ seen.phone \in Of("phone") \cup {0}
      /\ seen.home \in Of("home") \cup {NoHome} /\ seen.key \in InboxKeys \cup {NoKey}
      /\ seen = [email |-> seen.email, phone |-> seen.phone, home |-> seen.home, key |-> seen.key]
  BY DEF Columns
<1>2. /\ home \in Of("home") \cup {NoHome} /\ key \in InboxKeys \cup {NoKey}
      /\ email \in Of("email") \cup {0} /\ phone \in Of("phone") \cup {0}
      /\ email = seen.email \/ (by = "home" /\ email = f.email)
      /\ phone = seen.phone \/ (by = "home" /\ phone = f.phone)
  BY <1>1, KeysOfForms DEF Fill, Adopt
<1>3. Folded(seen, f, by) = [seen EXCEPT !.home = home, !.key = key, !.email = email, !.phone = phone]
  BY DEF Folded
<1> HIDE DEF home, key, email, phone
<1>4. Folded(seen, f, by) = [email |-> email, phone |-> phone, home |-> home, key |-> key]
  BY <1>1, <1>3
<1> QED BY <1>2, <1>4 DEF Columns

LEMMA WrittenType ==
    ASSUME NEW row \in Row, NEW seen \in Columns, NEW new \in Columns
    PROVE  /\ Written(row, seen, new) \in Row /\ Written(row, seen, new).age = row.age
           /\ \/ Written(row, seen, new).email = row.email
              \/ new.email # seen.email /\ Written(row, seen, new).email = new.email
           /\ \/ Written(row, seen, new).phone = row.phone
              \/ new.phone # seen.phone /\ Written(row, seen, new).phone = new.phone
<1> DEFINE email == IF new.email # seen.email THEN new.email ELSE row.email
           phone == IF new.phone # seen.phone THEN new.phone ELSE row.phone
           home == IF new.home # seen.home THEN new.home ELSE row.home
           key == IF new.key # seen.key THEN new.key ELSE row.key
<1>1. /\ email \in Of("email") \cup {0} /\ phone \in Of("phone") \cup {0}
      /\ home \in Of("home") \cup {NoHome} /\ key \in InboxKeys \cup {NoKey}
      /\ email = row.email \/ (new.email # seen.email /\ email = new.email)
      /\ phone = row.phone \/ (new.phone # seen.phone /\ phone = new.phone)
  BY DEF Row, Columns
<1>2. Written(row, seen, new) = [row EXCEPT !.email = email, !.phone = phone, !.home = home, !.key = key]
  BY DEF Written
<1> HIDE DEF email, phone, home, key
<1>3. /\ Written(row, seen, new) \in Row /\ Written(row, seen, new).age = row.age
      /\ Written(row, seen, new).email = email /\ Written(row, seen, new).phone = phone
  BY <1>1, <1>2 DEF Row
<1> QED BY <1>1, <1>3

-----------------------------------------------------------------------------
(* Steps *)

\* A post that moves on while the rows stay.
LEMMA PostMoves ==
    ASSUME InboxInv, NEW p \in Posts, NEW now \in Posting, NEW holds \in SUBSET (Of("email") \cup Of("phone")),
           posting' = [posting EXCEPT ![p] = now], locked' = [locked EXCEPT ![p] = holds],
           UNCHANGED inbox, answered' \in [InboxKeys -> SUBSET Requests],
           \A q \in Posts \ {p} : locked[q] \cap holds = {},
           Apart(p)', Ascends(p)'
    PROVE  InboxInv'
<1>1. /\ posting' \in [Posts -> Posting] /\ locked' \in [Posts -> SUBSET (Of("email") \cup Of("phone"))]
      /\ posting'[p] = now /\ locked'[p] = holds
      /\ \A q \in Posts \ {p} : posting'[q] = posting[q] /\ locked'[q] = locked[q]
  BY DEF InboxInv, InboxTypeOK
<1>2. InboxTypeOK'
  BY <1>1 DEF InboxInv, InboxTypeOK
<1>3. LocksExclude'
  BY <1>1 DEF InboxInv, LocksExclude
<1>4. ASSUME NEW q \in Posts \ {p} PROVE Apart(q)' /\ Ascends(q)'
  BY <1>1, ZenonT(40) DEF InboxInv, Apart, Ascends, MayWrite, Form, LocksLeft, Contacts, Fresh
<1>5. OneRequestPerVisit'
  BY DEF InboxInv, OneRequestPerVisit
<1> QED BY <1>2, <1>3, <1>4, <1>5 DEF InboxInv

Ends(p) == posting'[p].pc = "idle" /\ locked'[p] = {}
StaysOrEnds(p) == Ends(p) \/ (posting'[p] = posting[p] /\ locked'[p] = locked[p])

\* A row that is written: it stays as fresh, and gets no contacts but those of
\* a post that holds their locks and ends.
LEMMA RowMoves ==
    ASSUME InboxInv, InboxTypeOK', NEW r \in Requests, NEW given,
           \A s \in Requests \ {r} : inbox'[s] = inbox[s],
           Fresh(r)' => Contacts(r)' \subseteq (IF Fresh(r) THEN Contacts(r) ELSE {0}) \cup given \cup {0},
           \A q \in Posts : StaysOrEnds(q),
           given = {} \/ \E p \in Posts : Ends(p) /\ MayWrite(p) /\ given \subseteq LockKeys(Form(p))
    PROVE  InboxInv'
<1>1. LocksExclude'
  BY DEF InboxInv, LocksExclude, StaysOrEnds, Ends
<1>2. \A s \in Requests : Fresh(s) => given \cap Contacts(s) = {}
  BY DEF InboxInv, Apart
<1>3. ASSUME NEW q \in Posts, posting'[q].pc # "idle"
      PROVE  Apart(q)' /\ Ascends(q)'
  <2>1. posting'[q] = posting[q] /\ locked'[q] = locked[q]
    BY <1>3 DEF StaysOrEnds, Ends
  <2>2. Ascends(q)'
    BY <2>1 DEF InboxInv, Ascends, LocksLeft, Form
  <2>3. ASSUME MayWrite(q) PROVE LockKeys(Form(q)) \cap given = {}
    <3>1. LockKeys(Form(q)) \subseteq locked[q]
      BY <2>3 DEF InboxInv, Apart
    <3>2. given = {} \/ \E p \in Posts \ {q} : given \subseteq locked[p]
      BY <1>3 DEF InboxInv, Apart, Ends
    <3> QED BY <3>1, <3>2 DEF InboxInv, LocksExclude
  <2>4. 0 \notin LockKeys(Form(q))
    BY DEF LockKeys
  <2>5. ASSUME MayWrite(q), NEW s \in Requests, Fresh(s)'
        PROVE  LockKeys(Form(q)) \cap Contacts(s)' = {}
    <3>1. \A x \in Requests : Fresh(x) => LockKeys(Form(q)) \cap Contacts(x) = {}
      BY <2>5 DEF InboxInv, Apart
    <3>2. CASE s # r
      BY <2>5, <3>1, <3>2 DEF Fresh, Contacts
    <3>3. CASE s = r
      BY <2>3, <2>4, <2>5, <3>1, <3>3
    <3> QED BY <3>2, <3>3
  <2>6. Apart(q)'
    BY <2>1, <2>5 DEF InboxInv, Apart, MayWrite, Form
  <2> QED BY <2>2, <2>6
<1>4. ASSUME NEW q \in Posts, posting'[q].pc = "idle"
      PROVE  Apart(q)' /\ Ascends(q)'
  BY <1>4 DEF Apart, MayWrite, Ascends, InboxInv, StaysOrEnds, Ends
<1>5. OneRequestPerVisit'
  <2>1. \A s, x \in Requests : s # x /\ Fresh(s) /\ Fresh(x) => Contacts(s) \cap Contacts(x) \subseteq {0}
    BY DEF InboxInv, OneRequestPerVisit, Fresh, Contacts
  <2>2. ASSUME NEW s \in Requests \ {r}, Fresh(s)', Fresh(r)'
        PROVE  Contacts(s)' \cap Contacts(r)' \subseteq {0}
    <3>1. Fresh(s) /\ Contacts(s)' = Contacts(s)
      BY <2>2 DEF Fresh, Contacts
    <3>2. given \cap Contacts(s) = {}
      BY <1>2, <3>1
    <3>3. Fresh(r) => Contacts(s) \cap Contacts(r) \subseteq {0}
      BY <2>1, <3>1
    <3> QED BY <2>2, <3>1, <3>2, <3>3
  <2>3. (\A s, x \in Requests : s # x /\ Fresh(s) /\ Fresh(x) => Contacts(s) \cap Contacts(x) \subseteq {0})'
    BY <2>1, <2>2 DEF Fresh, Contacts
  <2> QED BY <2>3 DEF OneRequestPerVisit, Fresh, Contacts
<1> QED BY <1>1, <1>3, <1>4, <1>5 DEF InboxInv

\* A post that has found a row to fold into.
LEMMA FoundRow ==
    ASSUME InboxInv, NEW p \in Posts, NEW r \in Requests, NEW by \in {"key", "contact", "home"},
           Fold(p, r, by), UNCHANGED <<inbox, locked, answered>>,
           by = "home" => /\ LockKeys(Form(p)) \subseteq locked[p]
                          /\ \A x \in Requests : Fresh(x) => LockKeys(Form(p)) \cap Contacts(x) = {}
    PROVE  InboxInv'
<1> DEFINE now == [posting[p] EXCEPT !.pc = "folding", !.by = by, !.row = r, !.seen = Loaded(inbox[r])]
<1>1. /\ posting[p] \in Posting /\ Loaded(inbox[r]) \in Columns
      /\ locked \in [Posts -> SUBSET (Of("email") \cup Of("phone"))]
  BY LoadedType DEF InboxInv, InboxTypeOK
<1>2. now \in Posting /\ now.pc = "folding" /\ now.by = by /\ now.form = posting[p].form
  BY <1>1 DEF Posting
<1>3. posting' = [posting EXCEPT ![p] = now]
  BY DEF Fold
<1> HIDE DEF now
<1>4. posting'[p] = now /\ locked' = [locked EXCEPT ![p] = locked[p]]
  BY <1>1, <1>3 DEF InboxInv, InboxTypeOK
<1>5. Apart(p)' /\ Ascends(p)'
  BY <1>2, <1>4 DEF Apart, Ascends, MayWrite, Form, Contacts, Fresh
<1>6. answered' \in [InboxKeys -> SUBSET Requests] /\ \A q \in Posts \ {p} : locked[q] \cap locked[p] = {}
  BY DEF InboxInv, InboxTypeOK, LocksExclude
<1> QED BY <1>1, <1>2, <1>3, <1>4, <1>5, <1>6, PostMoves

\* A post that goes on with nothing found.
LEMMA GoesOn ==
    ASSUME InboxInv, NEW p \in Posts, UNCHANGED <<inbox, locked, answered>>,
           \/ posting[p].pc = "posted" /\ posting' = [posting EXCEPT ![p].pc = "locking"]
           \/ /\ posting' = [posting EXCEPT ![p].pc = "opening"]
              /\ LockKeys(Form(p)) \subseteq locked[p]
              /\ \A x \in Requests : Fresh(x) => LockKeys(Form(p)) \cap Contacts(x) = {}
    PROVE  InboxInv'
<1>1. /\ posting[p] \in Posting /\ locked \in [Posts -> SUBSET (Of("email") \cup Of("phone"))]
      /\ answered' \in [InboxKeys -> SUBSET Requests] /\ posting \in [Posts -> Posting]
  BY DEF InboxInv, InboxTypeOK
<1>2. ASSUME NEW pc \in {"locking", "opening"}, posting' = [posting EXCEPT ![p].pc = pc],
             pc = "locking" => locked[p] = {},
             pc = "opening" =>
                /\ LockKeys(Form(p)) \subseteq locked[p]
                /\ \A x \in Requests : Fresh(x) => LockKeys(Form(p)) \cap Contacts(x) = {}
      PROVE  InboxInv'
  <2> DEFINE now == [posting[p] EXCEPT !.pc = pc]
  <2>1. now \in Posting /\ now.pc = pc /\ now.form = posting[p].form
    BY <1>1 DEF Posting
  <2>2. posting' = [posting EXCEPT ![p] = now]
    BY <1>2
  <2> HIDE DEF now
  <2>3. posting'[p] = now /\ locked' = [locked EXCEPT ![p] = locked[p]]
    BY <1>1, <2>2
  <2>4. Apart(p)' /\ Ascends(p)'
    BY <1>2, <2>1, <2>3 DEF Apart, Ascends, MayWrite, Form, Contacts, Fresh
  <2>5. \A q \in Posts \ {p} : locked[q] \cap locked[p] = {}
    BY DEF InboxInv, LocksExclude
  <2> QED BY <1>1, <2>1, <2>2, <2>3, <2>4, <2>5, PostMoves
<1> QED BY <1>2 DEF InboxInv, Ascends

\* A post that ends, and what it was answered with.
LEMMA DoneFrame ==
    ASSUME InboxTypeOK, NEW p \in Posts, Done(p)
    PROVE  /\ posting' \in [Posts -> Posting] /\ locked' \in [Posts -> SUBSET (Of("email") \cup Of("phone"))]
           /\ posting'[p].pc = "idle" /\ locked'[p] = {}
           /\ \A q \in Posts \ {p} : posting'[q] = posting[q] /\ locked'[q] = locked[q]
BY BlankRows DEF InboxTypeOK, Done

LEMMA AnswersType ==
    ASSUME InboxTypeOK, NEW p \in Posts, NEW r \in Requests, NEW seenKey, Answers(p, r, seenKey)
    PROVE  Done(p) /\ answered' \in [InboxKeys -> SUBSET Requests]
BY DEF InboxTypeOK, Answers

LEMMA PostSteps ==
    ASSUME InboxInv, NEW p \in Posts,
           \/ \E f \in Forms : Post(p, f)
           \/ FindByKey(p) \/ Lock(p) \/ Look(p) \/ CommitFold(p) \/ Open(p) \/ PostFails(p)
    PROVE  InboxInv'
<1>0. /\ InboxTypeOK /\ posting[p] \in Posting /\ Form(p) \in Forms
      /\ posting \in [Posts -> Posting] /\ inbox \in [Requests -> Row]
      /\ locked \in [Posts -> SUBSET (Of("email") \cup Of("phone"))]
      /\ answered \in [InboxKeys -> SUBSET Requests]
  BY DEF InboxInv, InboxTypeOK, Form, Posting
<1>1. ASSUME NEW f \in Forms, Post(p, f)
      PROVE  InboxInv'
  <2> DEFINE now == [NotPosting EXCEPT !.pc = "posted", !.form = f]
  <2>1. now \in Posting /\ now.pc = "posted"
    BY BlankRows DEF Posting
  <2>2. posting' = [posting EXCEPT ![p] = now] /\ UNCHANGED <<inbox, locked, answered>>
    BY <1>1 DEF Post
  <2> HIDE DEF now
  <2>3. posting'[p] = now /\ locked[p] = {} /\ locked' = [locked EXCEPT ![p] = {}]
    BY <1>0, <1>1, <2>2 DEF Post, InboxInv, Ascends
  <2>4. Apart(p)' /\ Ascends(p)'
    BY <1>0, <2>1, <2>3 DEF Apart, Ascends, MayWrite
  <2>5. {} \in SUBSET (Of("email") \cup Of("phone")) /\ \A q \in Posts \ {p} : locked[q] \cap {} = {}
    OBVIOUS
  <2> QED BY <1>0, <2>1, <2>2, <2>3, <2>4, <2>5, PostMoves
<1>2. CASE FindByKey(p)
  <2>1. CASE WithKey(p) # {}
    <3>1. PICK r \in WithKey(p) : Fold(p, r, "key") /\ UNCHANGED <<inbox, locked, answered>>
      BY <1>2, <2>1 DEF FindByKey
    <3>2. r \in Requests
      BY DEF WithKey, Rows
    <3> QED BY <3>1, <3>2, FoundRow
  <2>2. CASE WithKey(p) = {}
    BY <1>2, <2>2, GoesOn DEF FindByKey
  <2> QED BY <2>1, <2>2
<1>3. CASE Lock(p)
  <2>1. PICK k \in NextLocks(p) :
            /\ Holders(k) = {} /\ locked' = [locked EXCEPT ![p] = @ \cup {k}]
            /\ posting[p].pc = "locking" /\ UNCHANGED <<inbox, posting, answered>>
    BY <1>3 DEF Lock
  <2>2. k \in LockKeys(Form(p)) /\ k \in LocksLeft(p) /\ \A j \in LocksLeft(p) : k <= j
    BY DEF NextLocks, LocksLeft
  <2>3. locked[p] \cup {k} \in SUBSET (Of("email") \cup Of("phone"))
    BY <1>0, <2>2, KeysOfForms
  <2>4. posting' = [posting EXCEPT ![p] = posting[p]] /\ locked'[p] = locked[p] \cup {k}
    BY <1>0, <2>1
  <2>5. \A j \in LocksLeft(p)' : j \in LocksLeft(p) /\ j # k
    BY <2>1, <2>4 DEF LocksLeft, Form
  <2>6. LocksLeft(p) \subseteq 0..MaxKey /\ MaxKey \in Nat
    BY <1>0, KeysOfForms, InboxAssumption DEF LocksLeft
  <2>7. Ascends(p)'
    <3>1. \A i \in locked[p], j \in LocksLeft(p) : i < j
      BY <2>1 DEF InboxInv, Ascends
    <3>2. \A j \in LocksLeft(p)' : k < j
      BY <2>2, <2>5, <2>6
    <3> QED BY <2>1, <2>4, <2>5, <3>1, <3>2 DEF Ascends
  <2>8. Apart(p)'
    BY <2>1 DEF Apart, MayWrite
  <2>9. \A q \in Posts \ {p} : locked[q] \cap (locked[p] \cup {k}) = {}
    BY <2>1 DEF InboxInv, LocksExclude, Holders
  <2>10. locked' = [locked EXCEPT ![p] = locked[p] \cup {k}]
    BY <2>1
  <2> QED BY <1>0, <2>1, <2>3, <2>4, <2>7, <2>8, <2>9, <2>10, PostMoves
<1>4. CASE Look(p)
  <2>1. LockKeys(Form(p)) \subseteq locked[p] /\ UNCHANGED <<inbox, locked, answered>>
    BY <1>4 DEF Look, LocksLeft
  <2>2. ASSUME SameContact(Form(p)) = {}
        PROVE  \A x \in Requests : Fresh(x) => LockKeys(Form(p)) \cap Contacts(x) = {}
    BY <2>2 DEF SameContact, Rows, Fresh, Contacts
  <2>3. CASE SameContact(Form(p)) # {}
    <3>1. PICK r \in SameContact(Form(p)) : Fold(p, r, "contact")
      BY <1>4, <2>3 DEF Look
    <3>2. r \in Requests
      BY DEF SameContact, Rows
    <3> QED BY <2>1, <3>1, <3>2, FoundRow
  <2>4. CASE SameContact(Form(p)) = {} /\ SameHome(Form(p)) # {}
    <3>1. PICK r \in SameHome(Form(p)) : Fold(p, r, "home")
      BY <1>4, <2>4 DEF Look
    <3>2. r \in Requests
      BY DEF SameHome, Rows
    <3> QED BY <2>1, <2>2, <2>4, <3>1, <3>2, FoundRow
  <2>5. CASE SameContact(Form(p)) = {} /\ SameHome(Form(p)) = {}
    BY <1>4, <2>1, <2>2, <2>5, GoesOn DEF Look
  <2> QED BY <2>3, <2>4, <2>5
\* Whoever ends leaves the others as they were.
<1>5. ASSUME Done(p)
      PROVE  Ends(p) /\ \A q \in Posts : StaysOrEnds(q)
  BY <1>0, <1>5, DoneFrame DEF StaysOrEnds, Ends
<1>6. ASSUME Done(p), UNCHANGED inbox, answered' \in [InboxKeys -> SUBSET Requests]
      PROVE  InboxInv'
  <2>1. posting' = [posting EXCEPT ![p] = NotPosting] /\ locked' = [locked EXCEPT ![p] = {}]
    BY <1>6 DEF Done
  <2>2. Apart(p)' /\ Ascends(p)'
    BY <1>0, <1>6, DoneFrame DEF Apart, Ascends, MayWrite
  <2>3. {} \in SUBSET (Of("email") \cup Of("phone")) /\ \A q \in Posts \ {p} : locked[q] \cap {} = {}
    OBVIOUS
  <2> QED BY <1>6, <2>1, <2>2, <2>3, BlankRows, PostMoves
<1>7. CASE CommitFold(p)
  <2> DEFINE r == posting[p].row
             seen == posting[p].seen
             by == posting[p].by
             new == Folded(seen, Form(p), by)
             clash == new.key # seen.key /\ \E q \in Rows \ {r} : inbox[q].key = new.key
             row == Written(inbox[r], seen, new)
  <2>1. seen \in Columns /\ by \in {"key", "contact", "home"} /\ posting[p].pc = "folding"
    BY <1>0, <1>7 DEF Posting, CommitFold
  <2>2. CASE new # seen /\ (r \notin Rows \/ clash)
    BY <1>0, <1>6, <1>7, <2>2 DEF CommitFold
  <2>3. CASE ~(new # seen /\ (r \notin Rows \/ clash))
    <3>1. /\ inbox' = [inbox EXCEPT ![r] = row]
          /\ IF r \in Rows THEN Answers(p, r, seen.key) ELSE Done(p) /\ UNCHANGED answered
      BY <1>7, <2>3 DEF CommitFold
    <3>2. Done(p) /\ answered' \in [InboxKeys -> SUBSET Requests]
      BY <1>0, <3>1, AnswersType DEF Rows
    <3>3. CASE r \notin Requests
      <4>1. inbox' = inbox
        BY <1>0, <3>1, <3>3
      <4> QED BY <1>6, <3>2, <4>1
    <3>4. ASSUME NEW k \in Requests, k = r
          PROVE  InboxInv'
      <4>1. /\ new \in Columns
            /\ new.email = seen.email \/ (by = "home" /\ new.email = Form(p).email)
            /\ new.phone = seen.phone \/ (by = "home" /\ new.phone = Form(p).phone)
        BY <1>0, <2>1, FoldedType
      <4> HIDE DEF new
      <4>2. /\ row \in Row /\ row.age = inbox[k].age
            /\ row.email = inbox[k].email \/ (by = "home" /\ row.email = Form(p).email)
            /\ row.phone = inbox[k].phone \/ (by = "home" /\ row.phone = Form(p).phone)
        BY <1>0, <2>1, <3>4, <4>1, WrittenType
      <4> HIDE DEF row
      <4> DEFINE given == IF by = "home" THEN LockKeys(Form(p)) ELSE {}
      <4>3. /\ inbox' \in [Requests -> Row] /\ inbox'[k] = row
            /\ \A s \in Requests \ {k} : inbox'[s] = inbox[s]
        BY <1>0, <3>1, <3>4, <4>2
      <4>4. InboxTypeOK'
        BY <1>0, <3>2, <4>3, DoneFrame DEF InboxTypeOK
      <4>5. Fresh(k)' => Contacts(k)' \subseteq (IF Fresh(k) THEN Contacts(k) ELSE {0}) \cup given \cup {0}
        <5>1. Fresh(k)' => Fresh(k)
          BY <4>2, <4>3 DEF Fresh
        <5>2. row.email \in {inbox[k].email, 0} \cup given /\ row.phone \in {inbox[k].phone, 0} \cup given
          BY <4>2 DEF LockKeys
        <5> QED BY <4>3, <5>1, <5>2 DEF Contacts
      <4>6. given = {} \/ \E q \in Posts : Ends(q) /\ MayWrite(q) /\ given \subseteq LockKeys(Form(q))
        BY <1>5, <2>1, <3>2 DEF MayWrite
      <4> HIDE DEF given
      <4> QED BY <1>5, <3>2, <3>4, <4>3, <4>4, <4>5, <4>6, RowMoves
    <3> QED BY <3>3, <3>4
  <2> QED BY <2>2, <2>3
<1>8. CASE Open(p)
  <2>1. CASE WithKey(p) # {}
    <3>1. PICK r \in WithKey(p) : Answers(p, r, Form(p).key) /\ UNCHANGED inbox
      BY <1>8, <2>1 DEF Open
    <3>2. r \in Requests
      BY DEF WithKey, Rows
    <3> QED BY <1>0, <1>6, <3>1, <3>2, AnswersType
  <2>2. CASE WithKey(p) = {}
    <3> DEFINE row == [age |-> "fresh", archived |-> FALSE, email |-> Form(p).email,
                       phone |-> Form(p).phone, home |-> Form(p).home, key |-> Form(p).key]
    <3>1. PICK r \in Requests \ Rows : inbox' = [inbox EXCEPT ![r] = row] /\ Answers(p, r, Form(p).key)
      BY <1>8, <2>2 DEF Open
    <3>2. row \in Row /\ row.email = Form(p).email /\ row.phone = Form(p).phone
      BY <1>0, KeysOfForms DEF Row
    <3> HIDE DEF row
    <3>3. /\ inbox' \in [Requests -> Row] /\ inbox'[r] = row
          /\ \A s \in Requests \ {r} : inbox'[s] = inbox[s]
      BY <1>0, <3>1, <3>2
    <3>4. Done(p) /\ answered' \in [InboxKeys -> SUBSET Requests]
      BY <1>0, <3>1, AnswersType
    <3>5. InboxTypeOK'
      BY <1>0, <3>3, <3>4, DoneFrame DEF InboxTypeOK
    <3>6. Contacts(r)' \subseteq LockKeys(Form(p)) \cup {0}
      BY <3>2, <3>3 DEF Contacts, LockKeys
    <3>7. Ends(p) /\ MayWrite(p) /\ LockKeys(Form(p)) \subseteq LockKeys(Form(p))
      BY <1>5, <1>8, <3>4 DEF Open, MayWrite
    <3> QED BY <1>5, <3>3, <3>4, <3>5, <3>6, <3>7, RowMoves
  <2> QED BY <2>1, <2>2
<1>9. CASE PostFails(p)
  BY <1>0, <1>6, <1>9 DEF PostFails
<1> QED BY <1>1, <1>2, <1>3, <1>4, <1>7, <1>8, <1>9

LEMMA RowSteps ==
    ASSUME InboxInv, NEW r \in Requests, Ages(r) \/ Archives(r) \/ DeleteIntake(r)
    PROVE  InboxInv'
<1>0. InboxTypeOK /\ inbox[r] \in Row
  BY DEF InboxInv, InboxTypeOK
<1>1. ASSUME NEW row \in Row, RowBecomes(r, row), answered' \in [InboxKeys -> SUBSET Requests],
             row.age = "fresh" => /\ inbox[r].age = "fresh"
                                  /\ row.email = inbox[r].email /\ row.phone = inbox[r].phone
      PROVE  InboxInv'
  <2>1. /\ inbox' \in [Requests -> Row] /\ inbox'[r] = row
        /\ \A s \in Requests \ {r} : inbox'[s] = inbox[s]
        /\ UNCHANGED <<posting, locked>>
    BY <1>0, <1>1 DEF RowBecomes, InboxTypeOK
  <2>2. InboxTypeOK'
    BY <1>0, <1>1, <2>1 DEF InboxTypeOK
  <2>3. Fresh(r)' => Contacts(r)' \subseteq (IF Fresh(r) THEN Contacts(r) ELSE {0}) \cup {} \cup {0}
    BY <1>1, <2>1 DEF Fresh, Contacts
  <2>4. \A q \in Posts : StaysOrEnds(q)
    BY <2>1 DEF StaysOrEnds
  <2> QED BY <2>1, <2>2, <2>3, <2>4, RowMoves
<1>2. CASE Ages(r)
  <2> DEFINE age == IF inbox[r].age = "fresh" THEN "recent" ELSE "old"
             row == [inbox[r] EXCEPT !.age = age]
  <2>1. RowBecomes(r, row) /\ UNCHANGED answered
    BY <1>2 DEF Ages
  <2>2. row \in Row /\ row.age # "fresh"
    BY <1>0 DEF Row
  <2> HIDE DEF row
  <2> QED BY <1>0, <1>1, <2>1, <2>2 DEF InboxTypeOK
<1>3. CASE Archives(r)
  <2> DEFINE archived == ~inbox[r].archived
             row == [inbox[r] EXCEPT !.archived = archived]
  <2>1. RowBecomes(r, row) /\ UNCHANGED answered
    BY <1>3 DEF Archives
  <2>2. /\ row \in Row /\ row.age = inbox[r].age
        /\ row.email = inbox[r].email /\ row.phone = inbox[r].phone
    <3>1. archived \in BOOLEAN
      OBVIOUS
    <3> HIDE DEF archived
    <3> QED BY <1>0, <3>1 DEF Row
  <2> HIDE DEF row
  <2> QED BY <1>0, <1>1, <2>1, <2>2 DEF InboxTypeOK
<1>4. CASE DeleteIntake(r)
  BY <1>0, <1>1, <1>4, BlankRows DEF DeleteIntake, InboxTypeOK
<1> QED BY <1>2, <1>3, <1>4

-----------------------------------------------------------------------------
(* The theorems *)

LEMMA InboxInvHolds == InboxSpec => []InboxInv
<1>1. ASSUME InboxInit PROVE InboxInv
  <2>1. InboxTypeOK
    BY <1>1, BlankRows DEF InboxInit, InboxTypeOK
  <2>2. OneRequestPerVisit /\ LocksExclude
    BY <1>1, BlankRows DEF InboxInit, OneRequestPerVisit, LocksExclude
  <2>3. \A p \in Posts : Apart(p) /\ Ascends(p)
    BY <1>1, BlankRows DEF InboxInit, Apart, Ascends, MayWrite
  <2> QED BY <2>1, <2>2, <2>3 DEF InboxInv
<1>2. ASSUME InboxInv, [InboxNext]_inboxVars PROVE InboxInv'
  <2>1. CASE \E p \in Posts :
               \/ \E f \in Forms : Post(p, f)
               \/ FindByKey(p) \/ Lock(p) \/ Look(p) \/ CommitFold(p) \/ Open(p) \/ PostFails(p)
    BY <1>2, <2>1, PostSteps
  <2>2. CASE \E r \in Requests : Ages(r) \/ Archives(r) \/ DeleteIntake(r)
    BY <1>2, <2>2, RowSteps
  <2>3. CASE UNCHANGED inboxVars
    BY <1>2, <2>3 DEF inboxVars, InboxInv, InboxTypeOK, LocksExclude, OneRequestPerVisit, Apart,
                      Ascends, MayWrite, Form, LocksLeft, Contacts, Fresh
  <2> QED BY <1>2, <2>1, <2>2, <2>3 DEF InboxNext
<1> QED BY <1>1, <1>2, PTL DEF InboxSpec

\* Two posts that share an email or a phone never leave two requests inside the
\* five minutes, whatever identifiers each has besides and whatever is folded,
\* fails or is deleted meanwhile: the locks of _lock_contact_for_upsert, one per
\* identifier, cover upsert_lead from the look to the commit.
THEOREM VisitHasOneRequest == InboxSpec => []OneRequestPerVisit
BY InboxInvHolds, PTL DEF InboxInv

\* Posts that take locks never wait for each other in a cycle: _contact_lock_keys
\* sorts the keys, and whoever waits for the greatest key waits for a post that
\* needs none.
THEOREM LocksNeverCycle == InboxSpec => []NoLockCycle
<1>1. ASSUME InboxInv, NEW S \in SUBSET Posts, S # {},
             \A p \in S : Awaits(p) \cap S # {}
      PROVE  FALSE
  <2>1. ASSUME NEW p \in S
        PROVE  posting[p].pc = "locking" /\ \E k \in NextLocks(p) : Holders(k) \cap S # {}
    BY <1>1, <2>1 DEF Awaits
  <2> DEFINE Wanted == {k \in 0..MaxKey : \E p \in S : k \in NextLocks(p) /\ Holders(k) \cap S # {}}
             Above == {n \in Nat : \E k \in Wanted : n = MaxKey - k}
             Less == OpToRel(<, Nat)
  <2>2. \A p \in S : NextLocks(p) \subseteq 0..MaxKey
    BY <1>1, KeysOfForms DEF InboxInv, InboxTypeOK, Posting, Form, NextLocks, LocksLeft
  <2>3. MaxKey \in Nat
    BY InboxAssumption
  <2>4. \A k \in Wanted : \E j \in Wanted : k < j
    <3> SUFFICES ASSUME NEW k \in Wanted PROVE \E j \in Wanted : k < j
      OBVIOUS
    <3>1. PICK q \in S : k \in locked[q]
      BY DEF Holders
    <3>2. PICK j \in NextLocks(q) : Holders(j) \cap S # {}
      BY <2>1
    <3>3. j \in Wanted
      BY <2>2, <3>2
    <3>4. k < j
      BY <1>1, <2>1, <3>1, <3>2 DEF InboxInv, Ascends, NextLocks
    <3> QED BY <3>3, <3>4
  <2>5. Wanted # {}
    BY <1>1, <2>1, <2>2
  <2>6. Above # {} /\ Above \subseteq Nat
    <3>1. PICK k \in Wanted : TRUE
      BY <2>5
    <3>2. MaxKey - k \in Nat
      BY <2>3
    <3> QED BY <3>1, <3>2
  <2>7. \A n \in Above : \E m \in Above : m < n
    BY <2>3, <2>4
  <2> HIDE DEF Wanted, Above
  <2>8. \E n \in Above : \A m \in Above : ~(<<m, n>> \in Less)
    BY <2>6, NatLessThanWellFounded, WFMin
  <2>9. \A m, n \in Nat : m < n => <<m, n>> \in Less
    BY DEF OpToRel
  <2> QED BY <2>6, <2>7, <2>8, <2>9
<1>2. InboxInv => NoLockCycle
  BY <1>1 DEF NoLockCycle
<1> QED BY <1>2, InboxInvHolds, PTL

-----------------------------------------------------------------------------
(* The key a request is known by.  A fold works on a copy of its row; while no *)
(* other post folds into that row (`OneFolder`), the copy's key is the row's   *)
(* (`CopyHasKey`), so the fold neither overwrites a key nor leaves one off.    *)

OneFolder ==
    \A p, q \in Posts, r \in Requests : OnRow(p, r) /\ OnRow(q, r) => p = q

CopyHasKey ==
    \A p \in Posts, r \in Requests :
        OnRow(p, r) /\ inbox[r].age # "none" => posting[p].seen.key = inbox[r].key

\* A row found by its key has the key of the post.
FoundByItsKey ==
    \A p \in Posts : posting[p].pc = "folding" /\ posting[p].by = "key" =>
        posting[p].seen.key = Form(p).key /\ Form(p).key # NoKey

DeletedHasNoKey == \A r \in Requests : inbox[r].age = "none" => inbox[r].key = NoKey

KeyInv ==
    /\ OneFolder /\ CopyHasKey /\ FoundByItsKey /\ DeletedHasNoKey
    /\ AnsweredKeyIsKnown

\* Every post stays, or ends.
OthersStay(p) == \A q \in Posts \ {p} : posting'[q] = posting[q]

\* A post that starts, waits, finds nothing or ends, while the rows stay.
LEMMA KeyPostMoves ==
    ASSUME KeyInv, NEW p \in Posts, OthersStay(p), posting'[p].pc # "folding",
           UNCHANGED inbox, AnsweredKeyIsKnown'
    PROVE  KeyInv'
<1>1. \A q \in Posts : posting'[q].pc = "folding" => posting'[q] = posting[q]
  BY DEF OthersStay
<1>2. OneFolder' /\ CopyHasKey' /\ FoundByItsKey'
  BY <1>1 DEF KeyInv, OneFolder, CopyHasKey, FoundByItsKey, OnRow, Form
<1> QED BY <1>2 DEF KeyInv, DeletedHasNoKey

\* A row that is written while nobody else folds into it, or that keeps its key.
LEMMA KeyRowMoves ==
    ASSUME KeyInv, NEW r \in Requests, \A s \in Requests \ {r} : inbox'[s] = inbox[s],
           \A q \in Posts : posting'[q].pc = "folding" => posting'[q] = posting[q],
           \/ inbox'[r].age = "none" /\ inbox'[r].key = NoKey
           \/ inbox[r].age # "none" /\ inbox'[r].age # "none" /\ inbox'[r].key = inbox[r].key
           \/ inbox'[r].age # "none" /\ \A q \in Posts : ~OnRow(q, r)',
           AnsweredKeyIsKnown'
    PROVE  KeyInv'
<1>1. OneFolder' /\ FoundByItsKey'
  BY DEF KeyInv, OneFolder, FoundByItsKey, OnRow, Form
<1>2. CopyHasKey'
  <2> SUFFICES ASSUME NEW q \in Posts, NEW s \in Requests, OnRow(q, s)', inbox'[s].age # "none"
               PROVE  posting'[q].seen.key = inbox'[s].key
    BY DEF CopyHasKey
  <2>1. posting'[q] = posting[q] /\ OnRow(q, s)
    BY DEF OnRow
  <2>2. CASE s # r
    BY <2>1, <2>2 DEF KeyInv, CopyHasKey
  <2>3. CASE s = r
    BY <2>1, <2>3 DEF KeyInv, CopyHasKey
  <2> QED BY <2>2, <2>3
<1>3. DeletedHasNoKey'
  BY DEF KeyInv, DeletedHasNoKey
<1> QED BY <1>1, <1>2, <1>3 DEF KeyInv

LEMMA KeyFold ==
    ASSUME ~SharedRow, InboxInv, KeyInv, NEW p \in Posts, NEW r \in Requests,
           NEW by \in {"key", "contact", "home"}, Fold(p, r, by),
           by = "key" => Form(p).key # NoKey /\ inbox[r].key = Form(p).key,
           UNCHANGED <<inbox, answered>>
    PROVE  KeyInv'
<1> DEFINE now == [posting[p] EXCEPT !.pc = "folding", !.by = by, !.row = r, !.seen = Loaded(inbox[r])]
<1>1. posting[p] \in Posting /\ posting \in [Posts -> Posting]
  BY DEF InboxInv, InboxTypeOK
<1>2. posting' = [posting EXCEPT ![p] = now] /\ \A q \in Posts \ {p} : ~OnRow(q, r)
  BY DEF Fold
<1>3. /\ now.pc = "folding" /\ now.by = by /\ now.row = r /\ now.form = posting[p].form
      /\ now.seen = Loaded(inbox[r]) /\ now.seen.key = inbox[r].key
  BY <1>1 DEF Posting, Loaded
<1> HIDE DEF now
<1>4. posting'[p] = now /\ \A q \in Posts \ {p} : posting'[q] = posting[q]
  BY <1>1, <1>2
<1>5. OneFolder'
  BY <1>2, <1>3, <1>4 DEF KeyInv, OneFolder, OnRow
<1>6. CopyHasKey'
  BY <1>3, <1>4 DEF KeyInv, CopyHasKey, OnRow
<1>7. FoundByItsKey'
  BY <1>3, <1>4 DEF KeyInv, FoundByItsKey, Form
<1> QED BY <1>5, <1>6, <1>7 DEF KeyInv, DeletedHasNoKey, AnsweredKeyIsKnown

\* What a post is answered with carries its key.
LEMMA KeyAnswer ==
    ASSUME InboxInv, KeyInv, NEW p \in Posts, NEW r \in Requests, NEW seenKey,
           Answers(p, r, seenKey),
           \A k \in InboxKeys : \A s \in answered[k] : inbox'[s].key = k,
           Form(p).key \in InboxKeys /\ seenKey \in {Form(p).key, NoKey} =>
              inbox'[r].key = Form(p).key
    PROVE  AnsweredKeyIsKnown'
BY DEF AnsweredKeyIsKnown, Answers, InboxInv, InboxTypeOK

\* What folding does to a key.
LEMMA FoldedKey ==
    ASSUME NEW seen \in Columns, NEW f \in Forms, NEW by \in {"key", "contact", "home"},
           NEW row \in Row, row.key = seen.key
    PROVE  LET new == Folded(seen, f, by)
               after == Written(row, seen, new).key
           IN /\ new.key = IF by = "key" \/ seen.key # NoKey THEN seen.key ELSE f.key
              /\ after = new.key
<1> DEFINE home == Fill(seen.home, f.home, NoHome)
           key == IF by = "key" THEN seen.key ELSE Adopt(seen, f)
           email == IF by = "home" THEN Fill(seen.email, f.email, 0) ELSE seen.email
           phone == IF by = "home" THEN Fill(seen.phone, f.phone, 0) ELSE seen.phone
           new == [seen EXCEPT !.home = home, !.key = key, !.email = email, !.phone = phone]
<1>1. Folded(seen, f, by) = new
  BY DEF Folded
<1>2. key = IF by = "key" \/ seen.key # NoKey THEN seen.key ELSE f.key
  BY DEF Adopt, Fill
<1> HIDE DEF home, key, email, phone
<1>3. new.key = key
  BY DEF Columns
<1> HIDE DEF new
<1> DEFINE a == IF new.email # seen.email THEN new.email ELSE row.email
           b == IF new.phone # seen.phone THEN new.phone ELSE row.phone
           c == IF new.home # seen.home THEN new.home ELSE row.home
           d == IF new.key # seen.key THEN new.key ELSE row.key
<1>4. Written(row, seen, new) = [row EXCEPT !.email = a, !.phone = b, !.home = c, !.key = d]
  BY DEF Written
<1>5. d = new.key
  OBVIOUS
<1> HIDE DEF a, b, c, d
<1>6. Written(row, seen, new).key = d
  BY <1>4 DEF Row
<1> QED BY <1>1, <1>2, <1>3, <1>5, <1>6

\* One step of one post.
LEMMA PostKeepsKeys ==
    ASSUME ~SharedRow, InboxInv, KeyInv, NEW p \in Posts,
           \/ \E f \in Forms : Post(p, f)
           \/ FindByKey(p) \/ Lock(p) \/ Look(p) \/ CommitFold(p) \/ Open(p) \/ PostFails(p)
    PROVE  KeyInv'
<1>0. /\ posting[p] \in Posting /\ Form(p) \in Forms /\ Form(p).key \in InboxKeys \cup {NoKey}
      /\ posting \in [Posts -> Posting] /\ inbox \in [Requests -> Row]
  BY KeysOfForms DEF InboxInv, InboxTypeOK, Form, Posting
<1>1. ASSUME NEW now, posting' = [posting EXCEPT ![p] = now], now.pc # "folding",
             UNCHANGED <<inbox, answered>>
      PROVE  KeyInv'
  BY <1>0, <1>1, KeyPostMoves DEF OthersStay, KeyInv, AnsweredKeyIsKnown
<1>2. CASE \E f \in Forms : Post(p, f)
  <2>1. PICK f \in Forms : Post(p, f)
    BY <1>2
  <2> DEFINE now == [NotPosting EXCEPT !.pc = "posted", !.form = f]
  <2>2. now.pc = "posted" /\ posting' = [posting EXCEPT ![p] = now]
    BY <2>1 DEF Post, NotPosting
  <2> HIDE DEF now
  <2> QED BY <1>1, <2>1, <2>2 DEF Post
\* A post that found nothing goes on.
<1>3. ASSUME NEW pc \in {"locking", "opening"}, posting' = [posting EXCEPT ![p].pc = pc],
             UNCHANGED <<inbox, answered>>
      PROVE  KeyInv'
  <2> DEFINE now == [posting[p] EXCEPT !.pc = pc]
  <2>1. now.pc = pc /\ posting' = [posting EXCEPT ![p] = now]
    BY <1>0, <1>3 DEF Posting
  <2> HIDE DEF now
  <2> QED BY <1>1, <1>3, <2>1
<1>4. CASE FindByKey(p)
  <2>1. ASSUME NEW r \in WithKey(p), Fold(p, r, "key") PROVE KeyInv'
    BY <1>4, <2>1, KeyFold DEF FindByKey, WithKey, Rows
  <2> QED BY <1>3, <1>4, <2>1 DEF FindByKey
<1>5. CASE Lock(p)
  BY <1>0, <1>5, KeyPostMoves
     DEF Lock, OthersStay, KeyInv, AnsweredKeyIsKnown
<1>6. CASE Look(p)
  <2>1. ASSUME NEW r \in Requests, NEW by \in {"contact", "home"}, Fold(p, r, by) PROVE KeyInv'
    BY <1>6, <2>1, KeyFold DEF Look
  <2> QED BY <1>3, <1>6, <2>1 DEF Look, SameContact, SameHome, Rows
<1>7. ASSUME Done(p), UNCHANGED <<inbox, answered>>
      PROVE  KeyInv'
  BY <1>1, <1>7, BlankRows DEF Done
<1>8. ASSUME Done(p)
      PROVE  /\ posting'[p].pc = "idle" /\ OthersStay(p)
             /\ \A q \in Posts : posting'[q].pc = "folding" => posting'[q] = posting[q]
  <2>1. posting'[p].pc = "idle" /\ OthersStay(p)
    BY <1>0, <1>8, BlankRows DEF Done, OthersStay
  <2> QED BY <2>1 DEF OthersStay
<1>9. \A k \in InboxKeys, s \in Requests : s \in answered[k] => inbox[s].key = k /\ inbox[s].age # "none"
  BY DEF KeyInv, AnsweredKeyIsKnown, DeletedHasNoKey, InboxKeys
<1>10. CASE CommitFold(p)
  <2> DEFINE r == posting[p].row
             seen == posting[p].seen
             by == posting[p].by
             new == Folded(seen, Form(p), by)
             clash == new.key # seen.key /\ \E q \in Rows \ {r} : inbox[q].key = new.key
             row == Written(inbox[r], seen, new)
  <2>1. seen \in Columns /\ by \in {"key", "contact", "home"} /\ posting[p].pc = "folding"
    BY <1>0, <1>10 DEF Posting, CommitFold
  <2>2. CASE new # seen /\ (r \notin Rows \/ clash)
    BY <1>7, <1>10, <2>2 DEF CommitFold
  <2>3. CASE ~(new # seen /\ (r \notin Rows \/ clash)) /\ r \notin Rows
    <3>1. /\ inbox' = [inbox EXCEPT ![r] = row] /\ Done(p) /\ UNCHANGED answered /\ new = seen
      BY <1>10, <2>3 DEF CommitFold
    <3>2. r \in Requests => row = inbox[r]
      <4> HIDE DEF new
      <4>1. row = [inbox[r] EXCEPT !.email = @, !.phone = @, !.home = @, !.key = @]
        BY <3>1 DEF Written
      <4> QED BY <1>0, <4>1 DEF Row
    <3> HIDE DEF row
    <3>3. inbox' = inbox
      BY <1>0, <3>1, <3>2
    <3> QED BY <1>7, <3>1, <3>3
  <2>4. CASE ~(new # seen /\ (r \notin Rows \/ clash)) /\ r \in Rows
    <3>1. /\ inbox' = [inbox EXCEPT ![r] = row] /\ Answers(p, r, seen.key)
      BY <1>10, <2>4 DEF CommitFold
    <3>2. r \in Requests /\ inbox[r].age # "none" /\ inbox[r] \in Row /\ OnRow(p, r)
      BY <1>0, <2>1, <2>4 DEF Rows, OnRow
    <3>3. seen.key = inbox[r].key
      BY <3>2 DEF KeyInv, CopyHasKey
    <3>4. /\ row.key = IF by = "key" \/ seen.key # NoKey THEN seen.key ELSE Form(p).key
      BY <1>0, <2>1, <3>2, <3>3, FoldedKey
    <3>5. row.age = inbox[r].age
      <4>1. new \in Columns
        BY <1>0, <2>1, FoldedType
      <4> HIDE DEF new
      <4> QED BY <2>1, <3>2, <4>1, WrittenType, SMTT(30)
    <3> HIDE DEF row
    <3>6. inbox'[r] = row /\ \A s \in Requests \ {r} : inbox'[s] = inbox[s]
      BY <1>0, <3>1, <3>2
    <3>7. \A k \in InboxKeys : \A s \in answered[k] : inbox'[s].key = k
      <4> SUFFICES ASSUME NEW k \in InboxKeys, NEW s \in answered[k] PROVE inbox'[s].key = k
        OBVIOUS
      <4>1. s \in Requests /\ inbox[s].key = k /\ k # NoKey
        BY <1>9 DEF InboxInv, InboxTypeOK, InboxKeys
      <4> QED BY <3>3, <3>4, <3>6, <4>1
    <3>8. Form(p).key \in InboxKeys /\ seen.key \in {Form(p).key, NoKey} => inbox'[r].key = Form(p).key
      <4>1. by = "key" => seen.key = Form(p).key
        BY <2>1 DEF KeyInv, FoundByItsKey
      <4> QED BY <3>4, <3>6, <4>1
    <3>9. AnsweredKeyIsKnown'
      BY <3>1, <3>2, <3>7, <3>8, KeyAnswer
    <3>10. Done(p)
      BY <3>1 DEF Answers
    <3>11. PICK x \in Requests : x = r
      BY <3>2
    <3>12. \A q \in Posts : ~OnRow(q, x)'
      <4>1. \A q \in Posts \ {p} : ~OnRow(q, x)
        BY <3>2, <3>11 DEF KeyInv, OneFolder
      <4> QED BY <1>8, <3>10, <4>1 DEF OnRow, OthersStay
    <3>13. inbox'[x].age # "none" /\ \A s \in Requests \ {x} : inbox'[s] = inbox[s]
      BY <3>2, <3>5, <3>6, <3>11
    <3> QED BY <1>8, <3>9, <3>10, <3>12, <3>13, KeyRowMoves
  <2> QED BY <2>2, <2>3, <2>4
<1>11. CASE Open(p)
  <2>1. CASE WithKey(p) # {}
    <3>1. PICK r \in WithKey(p) : Answers(p, r, Form(p).key) /\ UNCHANGED inbox
      BY <1>11, <2>1 DEF Open
    <3>2. r \in Requests /\ inbox[r].key = Form(p).key
      BY DEF WithKey, Rows
    <3>3. \A k \in InboxKeys : \A s \in answered[k] : inbox'[s].key = k
      BY <3>1 DEF KeyInv, AnsweredKeyIsKnown
    <3>4. AnsweredKeyIsKnown'
      BY <3>1, <3>2, <3>3, KeyAnswer
    <3> QED BY <1>8, <3>1, <3>4, KeyPostMoves DEF Answers
  <2>2. CASE WithKey(p) = {}
    <3> DEFINE row == [age |-> "fresh", archived |-> FALSE, email |-> Form(p).email,
                       phone |-> Form(p).phone, home |-> Form(p).home, key |-> Form(p).key]
    <3>1. PICK r \in {r \in Requests \ Rows : \A q \in Posts : ~OnRow(q, r)} :
             inbox' = [inbox EXCEPT ![r] = row] /\ Answers(p, r, Form(p).key)
      BY <1>11, <2>2 DEF Open
    <3>2. r \in Requests /\ inbox[r].age = "none" /\ \A q \in Posts : ~OnRow(q, r)
      BY DEF Rows
    <3>3. row.key = Form(p).key /\ row.age = "fresh"
      OBVIOUS
    <3> HIDE DEF row
    <3>4. inbox'[r] = row /\ \A s \in Requests \ {r} : inbox'[s] = inbox[s]
      BY <1>0, <3>1, <3>2
    <3>5. \A k \in InboxKeys : \A s \in answered[k] : inbox'[s].key = k
      <4> SUFFICES ASSUME NEW k \in InboxKeys, NEW s \in answered[k] PROVE inbox'[s].key = k
        OBVIOUS
      <4>1. s \in Requests /\ inbox[s].key = k /\ inbox[s].age # "none"
        BY <1>9 DEF InboxInv, InboxTypeOK
      <4> QED BY <3>2, <3>4, <4>1
    <3>6. AnsweredKeyIsKnown'
      BY <3>1, <3>2, <3>3, <3>4, <3>5, KeyAnswer
    <3>7. Done(p)
      BY <3>1 DEF Answers
    <3>8. \A q \in Posts : ~OnRow(q, r)'
      BY <1>8, <3>2, <3>7 DEF OnRow
    <3> QED BY <1>8, <3>2, <3>3, <3>4, <3>6, <3>7, <3>8, KeyRowMoves
  <2> QED BY <2>1, <2>2
<1>12. CASE PostFails(p)
  BY <1>7, <1>12 DEF PostFails
<1> QED BY <1>2, <1>4, <1>5, <1>6, <1>10, <1>11, <1>12

\* Time and the office.
LEMMA OfficeKeepsKeys ==
    ASSUME InboxInv, KeyInv, NEW r \in Requests, Ages(r) \/ Archives(r) \/ DeleteIntake(r)
    PROVE  KeyInv'
<1>0. inbox \in [Requests -> Row] /\ inbox[r] \in Row
  BY DEF InboxInv, InboxTypeOK
<1>1. ASSUME NEW row, RowBecomes(r, row), row.key = inbox[r].key, row.age # "none",
             inbox[r].age # "none", UNCHANGED answered
      PROVE  KeyInv'
  <2>1. inbox'[r] = row /\ \A s \in Requests \ {r} : inbox'[s] = inbox[s]
    BY <1>0, <1>1 DEF RowBecomes
  <2>2. AnsweredKeyIsKnown'
    BY <1>1, <2>1 DEF KeyInv, AnsweredKeyIsKnown, InboxInv, InboxTypeOK
  <2> QED BY <1>1, <2>1, <2>2, KeyRowMoves DEF RowBecomes
<1>2. CASE Ages(r)
  <2> DEFINE age == IF inbox[r].age = "fresh" THEN "recent" ELSE "old"
             row == [inbox[r] EXCEPT !.age = age]
  <2>1. RowBecomes(r, row) /\ UNCHANGED answered /\ inbox[r].age # "none"
    BY <1>2 DEF Ages
  <2>2. row.age # "none" /\ row.key = inbox[r].key
    BY <1>0 DEF Row
  <2> HIDE DEF row
  <2> QED BY <1>1, <2>1, <2>2
<1>3. CASE Archives(r)
  <2> DEFINE archived == ~inbox[r].archived
             row == [inbox[r] EXCEPT !.archived = archived]
  <2>1. RowBecomes(r, row) /\ UNCHANGED answered /\ inbox[r].age # "none"
    BY <1>3 DEF Archives, Rows
  <2>2. row.age = inbox[r].age /\ row.key = inbox[r].key
    BY <1>0 DEF Row
  <2> HIDE DEF row
  <2> QED BY <1>1, <2>1, <2>2
<1>4. CASE DeleteIntake(r)
  <2>1. /\ inbox'[r] = NoRow /\ \A s \in Requests \ {r} : inbox'[s] = inbox[s]
        /\ UNCHANGED posting
        /\ answered' = [k \in InboxKeys |-> answered[k] \ {r}]
    BY <1>0, <1>4 DEF DeleteIntake, RowBecomes
  <2>2. NoRow.age = "none" /\ NoRow.key = NoKey
    BY DEF NoRow
  <2>3. AnsweredKeyIsKnown'
    BY <2>1 DEF KeyInv, AnsweredKeyIsKnown, InboxInv, InboxTypeOK
  <2> QED BY <2>1, <2>2, <2>3, KeyRowMoves
<1> QED BY <1>2, <1>3, <1>4

\* While a request is there, the key its sender was answered with is recorded on
\* it, whatever else is folded into it and however often posts fail: a fold
\* adopts a key only on a row that has none (_backfill_lead).
THEOREM AnsweredKeyStays ==
    ASSUME ~SharedRow
    PROVE  InboxSpec => []AnsweredKeyIsKnown
<1>1. InboxInit => KeyInv
  <2> SUFFICES ASSUME InboxInit PROVE KeyInv
    OBVIOUS
  <2>1. \A p \in Posts : posting[p].pc = "idle"
    BY BlankRows DEF InboxInit
  <2> QED BY <2>1 DEF InboxInit, NoRow, KeyInv, OneFolder, CopyHasKey, FoundByItsKey, DeletedHasNoKey,
                      AnsweredKeyIsKnown, OnRow
<1>2. InboxInv /\ KeyInv /\ [InboxNext]_inboxVars => KeyInv'
  <2> SUFFICES ASSUME InboxInv, KeyInv, [InboxNext]_inboxVars PROVE KeyInv'
    OBVIOUS
  <2>1. CASE UNCHANGED inboxVars
    BY <2>1 DEF inboxVars, KeyInv, OneFolder, CopyHasKey, FoundByItsKey, DeletedHasNoKey,
                AnsweredKeyIsKnown, OnRow, Form
  <2> QED BY <2>1, PostKeepsKeys, OfficeKeepsKeys DEF InboxNext
<1>3. KeyInv => AnsweredKeyIsKnown
  BY DEF KeyInv
<1> QED BY <1>1, <1>2, <1>3, InboxInvHolds, PTL DEF InboxSpec

-----------------------------------------------------------------------------
(* How a quote becomes a job *)

\* The rows and requests keep their types; the count of acceptances is a bound.
QuoteShape ==
    /\ quote \in Quote
    /\ quoteJob \in QuoteJob
    /\ asked \in [QuoteRequests -> Asked]

Linking == \E r \in QuoteRequests : asked[r].pc = "linking"

\* A purged quote never has a job; an archived one has a job only while the
\* request that made it is about to write `converted`.
PutAway ==
    /\ quote.status = "gone" => quoteJob = "none"
    /\ quote.status = "archived" /\ ~Linking => quoteJob = "none"

PutAwayInv == QuoteShape /\ PutAway

-----------------------------------------------------------------------------
(* Typing *)

\* A draft is a quote, and a request without one is at rest.
LEMMA DraftType == \A linked \in BOOLEAN : Draft(linked) \in Quote
BY DEF Draft, Quote, QuoteStatus

LEMMA AskedNothingType == AskedNothing \in Asked /\ AskedNothing.pc = "idle"
BY DraftType DEF AskedNothing, Asked, QuoteOps

\* What a handler writes is a quote.
LEMMA WriteType ==
    ASSUME QuoteShape, NEW r \in QuoteRequests, NEW status \in QuoteStatus, Write(r, status)
    PROVE  /\ quote' \in Quote
           /\ quote'.status = quote.status \/ quote'.status = status
BY DEF Write, QuoteShape, Quote

\* A request that ends or goes on keeps its shape, and only its own changes.
LEMMA AskedType ==
    ASSUME QuoteShape, NEW r \in QuoteRequests
    PROVE  /\ Replied(r) => /\ asked' \in [QuoteRequests -> Asked]
                            /\ asked'[r].pc = "idle"
                            /\ \A s \in QuoteRequests \ {r} : asked'[s] = asked[s]
           /\ \A pc \in {"converting", "booking", "linking"}, newly \in BOOLEAN :
                 GoOn(r, pc, newly) =>
                    /\ asked' \in [QuoteRequests -> Asked]
                    /\ asked'[r].pc = pc
                    /\ \A s \in QuoteRequests \ {r} : asked'[s] = asked[s]
<1> USE DEF QuoteShape
<1>1. ASSUME Replied(r)
      PROVE  /\ asked' \in [QuoteRequests -> Asked]
             /\ asked'[r].pc = "idle"
             /\ \A s \in QuoteRequests \ {r} : asked'[s] = asked[s]
  BY <1>1, AskedNothingType DEF Replied
<1>2. ASSUME NEW pc \in {"converting", "booking", "linking"}, NEW newly \in BOOLEAN, GoOn(r, pc, newly)
      PROVE  /\ asked' \in [QuoteRequests -> Asked]
             /\ asked'[r].pc = pc
             /\ \A s \in QuoteRequests \ {r} : asked'[s] = asked[s]
  <2> DEFINE next == [AskedNothing EXCEPT !.op = asked[r].op, !.pc = pc, !.newly = newly]
  <2>1. next \in Asked /\ next.pc = pc
    BY AskedNothingType DEF Asked
  <2>2. asked' = [asked EXCEPT ![r] = next]
    BY <1>2 DEF GoOn
  <2> HIDE DEF next
  <2> QED BY <2>1, <2>2
<1> QED BY <1>1, <1>2

-----------------------------------------------------------------------------
(* The invariant *)

\* A step of a request that makes no job and does not archive.
LEMMA HarmlessStep ==
    ASSUME PutAwayInv, NEW r \in QuoteRequests, quoteJob' = quoteJob, quote' \in Quote,
           asked' \in [QuoteRequests -> Asked],
           \A s \in QuoteRequests \ {r} : asked'[s] = asked[s],
           asked[r].pc = "linking" => quote'.status \notin {"archived"},
           \/ quote'.status = quote.status
           \/ quote'.status \notin {"archived", "gone"}
    PROVE  PutAwayInv'
BY DEF PutAwayInv, PutAway, QuoteShape, Linking

\* One step of one request.
LEMMA RequestKeepsPutAway ==
    ASSUME ~TornBookings, PutAwayInv, NEW r \in QuoteRequests,
           \/ \E op \in QuoteOps : LoadQuote(r, op)
           \/ Refused(r) \/ Send(r) \/ TooLate(r) \/ Accept(r) \/ FinalizeAccept(r)
           \/ ScheduleYes(r) \/ Book(r) \/ BookFails(r) \/ Link(r) \/ Convert(r)
           \/ Decline(r) \/ RequestChanges(r) \/ Archive(r) \/ QuoteProcessDies(r)
    PROVE  PutAwayInv'
<1> USE DEF PutAwayInv
<1>0. /\ quote \in Quote /\ asked[r] \in Asked /\ asked[r].newly \in BOOLEAN
      /\ Seen(r) \in Quote /\ Seen(r).status \in QuoteStatus
  BY DEF QuoteShape, Asked, Seen, Quote
<1>1. CASE \E op \in QuoteOps : LoadQuote(r, op)
  <2>1. PICK op \in QuoteOps : LoadQuote(r, op)
    BY <1>1
  <2> DEFINE next == [AskedNothing EXCEPT !.op = op, !.pc = "loaded", !.seen = quote]
  <2>2. next \in Asked /\ asked[r].pc = "idle"
    BY <1>0, <2>1, AskedNothingType DEF Asked, LoadQuote
  <2>3. asked' = [asked EXCEPT ![r] = next]
    BY <2>1 DEF LoadQuote
  <2> HIDE DEF next
  <2>4. /\ asked' \in [QuoteRequests -> Asked]
        /\ \A s \in QuoteRequests \ {r} : asked'[s] = asked[s]
    BY <2>2, <2>3 DEF QuoteShape
  <2> QED BY <1>0, <2>1, <2>2, <2>4, HarmlessStep DEF LoadQuote
<1>2. CASE Refused(r) \/ BookFails(r)
  BY <1>0, <1>2, AskedType, HarmlessStep DEF Refused, BookFails, At
<1>3. CASE Send(r) \/ TooLate(r) \/ Decline(r) \/ RequestChanges(r)
  <2>1. asked[r].pc = "loaded" /\ Replied(r) /\ quoteJob' = quoteJob
    BY <1>3 DEF Send, TooLate, Decline, RequestChanges, Allowed, At
  <2>2. \/ quote' = quote
        \/ \E status \in {"sent", "expired", "declined", "changes_requested", Seen(r).status} :
              Write(r, status)
    BY <1>3 DEF Send, TooLate, Decline, RequestChanges
  <2>3. /\ quote' \in Quote
        /\ quote'.status = quote.status \/ quote'.status \notin {"archived", "gone"}
    <3>1. CASE quote' = quote
      BY <1>0, <3>1
    <3>2. CASE Write(r, Seen(r).status)
      BY <1>0, <3>2 DEF Write
    <3>3. CASE \E status \in {"sent", "expired", "declined", "changes_requested"} : Write(r, status)
      BY <3>3, WriteType DEF QuoteStatus
    <3> QED BY <2>2, <3>1, <3>2, <3>3
  <2> QED BY <2>1, <2>3, AskedType, HarmlessStep
<1>4. CASE Accept(r)
  <2>1. asked[r].pc = "loaded" /\ Write(r, "accepted") /\ quoteJob' = quoteJob
    BY <1>4 DEF Accept, Allowed, At
  <2>2. Replied(r) \/ GoOn(r, "converting", TRUE)
    BY <1>4 DEF Accept
  <2>3. /\ quote' \in Quote
        /\ quote'.status = quote.status \/ quote'.status \notin {"archived", "gone"}
    BY <2>1, WriteType DEF QuoteStatus
  <2> QED BY <2>1, <2>2, <2>3, AskedType, HarmlessStep
<1>5. CASE ScheduleYes(r)
  <2>1. /\ asked[r].pc = "loaded" /\ quoteJob' = quoteJob
        /\ \E newly \in BOOLEAN : GoOn(r, "booking", newly)
    <3>1. GoOn(r, "booking", Seen(r).status \in {"draft", "sent", "viewed"})
      BY <1>5 DEF ScheduleYes
    <3>2. asked[r].pc = "loaded" /\ quoteJob' = quoteJob
      BY <1>5 DEF ScheduleYes, Allowed, At
    <3>3. (Seen(r).status \in {"draft", "sent", "viewed"}) \in BOOLEAN
      OBVIOUS
    <3> QED BY <3>1, <3>2, <3>3
  <2>2. Write(r, "accepted") \/ Write(r, Seen(r).status)
    BY <1>5 DEF ScheduleYes
  <2>3. /\ quote' \in Quote
        /\ quote'.status = quote.status \/ quote'.status \notin {"archived", "gone"}
    <3>1. CASE Write(r, Seen(r).status)
      BY <1>0, <3>1 DEF Write
    <3>2. CASE Write(r, "accepted")
      BY <3>2, WriteType DEF QuoteStatus
    <3> QED BY <2>2, <3>1, <3>2
  <2> QED BY <2>1, <2>3, AskedType, HarmlessStep
\* A conversion writes the job and `converted` together.
<1>6. ASSUME Converted, Replied(r)
      PROVE  PutAwayInv'
  <2>1. quote' \in Quote /\ quote'.status = "converted" /\ quoteJob' \in QuoteJob
    BY <1>0, <1>6 DEF Converted, Quote, QuoteStatus, QuoteShape, QuoteJob
  <2> QED BY <1>6, <2>1, AskedType DEF PutAway, QuoteShape
<1>7. CASE FinalizeAccept(r)
  <2>1. CASE Converted
    BY <1>6, <1>7, <2>1 DEF FinalizeAccept
  <2>2. CASE UNCHANGED <<quote, quoteJob>>
    BY <1>0, <1>7, <2>2, AskedType, HarmlessStep DEF FinalizeAccept
  <2> QED BY <1>7, <2>1, <2>2 DEF FinalizeAccept
\* A job made for a quote that is still there leaves its request linking.
<1>8. ASSUME GoOn(r, "linking", asked[r].newly) \/ GoOn(r, "linking", FALSE),
             quote' = quote, quote.status # "gone", quoteJob' = "scheduled"
      PROVE  PutAwayInv'
  <2>1. asked' \in [QuoteRequests -> Asked] /\ asked'[r].pc = "linking"
    BY <1>0, <1>8, AskedType
  <2> QED BY <1>8, <2>1 DEF PutAway, QuoteShape, QuoteJob, Linking
<1>9. CASE Book(r)
  <2>1. CASE quoteJob # "none"
    <3>1. /\ quoteJob' \in QuoteJob /\ quote' = quote /\ Replied(r) /\ asked[r].pc = "booking"
          /\ quoteJob' # "none"
      BY <1>9, <2>1 DEF Book, At, QuoteShape, QuoteJob
    <3>2. Linking' = Linking
      BY <3>1, AskedType DEF Linking
    <3> QED BY <2>1, <3>1, <3>2, AskedType DEF PutAway, QuoteShape
  <2>2. CASE quoteJob = "none"
    BY <1>8, <1>9, <2>2 DEF Book
  <2> QED BY <2>1, <2>2
<1>10. CASE Link(r)
  <2>1. Replied(r) /\ quoteJob' = quoteJob
    BY <1>10 DEF Link
  <2>2. /\ quote' \in Quote /\ quote'.status \in {"converted", "gone"}
        /\ quote'.status = quote.status \/ quote'.status = "converted"
    BY <1>0, <1>10 DEF Link, Quote, QuoteStatus
  <2> QED BY <2>1, <2>2, AskedType, HarmlessStep
<1>11. CASE Convert(r)
  <2>1. CASE Converted /\ Replied(r)
    BY <1>6, <2>1
  <2>2. CASE ~(Converted /\ Replied(r))
    BY <1>8, <1>11, <2>2 DEF Convert
  <2> QED BY <2>1, <2>2
<1>12. CASE Archive(r)
  <2>1. asked[r].pc = "loaded" /\ Replied(r) /\ quoteJob' = quoteJob
    BY <1>12 DEF Archive, Allowed, At
  <2>2. CASE quoteJob # "none"
    BY <1>0, <1>12, <2>1, <2>2, AskedType, HarmlessStep DEF Archive
  <2>3. CASE quoteJob = "none"
    <3>1. quote' \in Quote
      BY <1>12, <2>3, WriteType DEF Archive, QuoteStatus
    <3> QED BY <2>1, <2>3, <3>1, AskedType DEF PutAway, QuoteShape
  <2> QED BY <2>2, <2>3
<1>13. CASE QuoteProcessDies(r)
  BY <1>0, <1>13, AskedType, HarmlessStep DEF QuoteProcessDies
<1> QED BY <1>1, <1>2, <1>3, <1>4, <1>5, <1>7, <1>9, <1>10, <1>11, <1>12, <1>13

\* A quote that is archived or purged has no job, whatever accepts, bookings,
\* declines and deletions overlap with the archiving: for any number of requests,
\* unless the process dies between the two commits of create_job.
THEOREM PutAwayHasNoJob ==
    ASSUME ~TornBookings
    PROVE  QuoteSpec => []ArchivedHasNoJob
<1>1. QuoteInit => PutAwayInv
  BY DraftType, AskedNothingType DEF QuoteInit, PutAwayInv, PutAway, QuoteShape, QuoteJob
<1>2. PutAwayInv /\ [QuoteNext]_quoteVars => PutAwayInv'
  <2> SUFFICES ASSUME PutAwayInv, [QuoteNext]_quoteVars PROVE PutAwayInv'
    OBVIOUS
  <2> USE DEF PutAwayInv
  <2>1. CASE UNCHANGED quoteVars
    BY <2>1 DEF quoteVars, PutAway, QuoteShape, Linking
  <2>2. CASE \E r \in QuoteRequests :
                \/ \E op \in QuoteOps : LoadQuote(r, op)
                \/ Refused(r) \/ Send(r) \/ TooLate(r) \/ Accept(r) \/ FinalizeAccept(r)
                \/ ScheduleYes(r) \/ Book(r) \/ BookFails(r) \/ Link(r) \/ Convert(r)
                \/ Decline(r) \/ RequestChanges(r) \/ Archive(r) \/ QuoteProcessDies(r)
    BY <2>2, RequestKeepsPutAway
  <2>3. ASSUME NEW q \in Quote, QuoteBecomes(q), q.status # "archived" \/ q.status = quote.status,
               q.status = "gone" => quoteJob = "none"
        PROVE  PutAwayInv'
    BY <2>3 DEF QuoteBecomes, PutAway, QuoteShape, Linking
  <2>4. CASE View \/ Expire \/ PurgeQuote \/ PatchQuote \/ DatePasses
    <3>1. quote \in Quote
      BY DEF QuoteShape
    <3>2. CASE View
      BY <2>3, <3>1, <3>2 DEF View, Quote, QuoteStatus
    <3>3. CASE Expire
      BY <2>3, <3>1, <3>3 DEF Expire, Quote, QuoteStatus
    <3>4. CASE PurgeQuote
      BY <2>3, <3>1, <3>4 DEF PurgeQuote, Quote, QuoteStatus
    <3>5. CASE PatchQuote
      BY <2>3, <3>1, <3>5 DEF PatchQuote, Quote, QuoteStatus
    <3>6. CASE DatePasses
      BY <2>3, <3>1, <3>6 DEF DatePasses, Quote
    <3> QED BY <2>4, <3>2, <3>3, <3>4, <3>5, <3>6
  <2>5. CASE NewQuote
    BY <2>5, DraftType DEF NewQuote, PutAway, QuoteShape, Draft
  <2>6. CASE JobLives
    BY <2>6 DEF JobLives, PutAway, QuoteShape, QuoteJob, Linking
  <2> QED BY <2>1, <2>2, <2>4, <2>5, <2>6 DEF QuoteNext
<1>3. PutAwayInv => ArchivedHasNoJob
  BY DEF PutAwayInv, PutAway, Linking, ArchivedHasNoJob
<1> QED BY <1>1, <1>2, <1>3, PTL DEF QuoteSpec

-----------------------------------------------------------------------------
(* One announcement per acceptance.  Each request that made the acceptance it  *)
(* is working on is entitled to one announcement (`EachHasItsYes`); while a    *)
(* load and its commit do not overlap with others, a request decides on the    *)
(* row as it is (`LoadedIsTheRow`), so it never takes an old yes for its own.  *)

Entitled == {r \in QuoteRequests : asked[r].newly}

EachHasItsYes == yes \in Int /\ Cardinality(Entitled) <= yes

LoadedIsTheRow ==
    /\ \A r \in QuoteRequests : asked[r].pc = "loaded" => Seen(r) = quote /\ ~asked[r].newly
    /\ \A r, q \in QuoteRequests : asked[r].pc = "loaded" /\ asked[q].pc = "loaded" => r = q

\* Who converts made the acceptance, and who is at rest is owed nothing.
NewsIsOwn ==
    \A r \in QuoteRequests :
        /\ asked[r].pc = "converting" => asked[r].newly
        /\ asked[r].pc = "idle" => ~asked[r].newly

YesInv == QuoteShape /\ EachHasItsYes /\ LoadedIsTheRow /\ NewsIsOwn

\* The types do not depend on who dies when.
LEMMA ShapeStep == QuoteShape /\ [QuoteNext]_quoteVars => QuoteShape'
<1> SUFFICES ASSUME QuoteShape, [QuoteNext]_quoteVars PROVE QuoteShape'
  OBVIOUS
<1>0. quote \in Quote /\ quoteJob \in QuoteJob /\ "scheduled" \in QuoteJob /\ "unscheduled" \in QuoteJob
  BY DEF QuoteShape, QuoteJob
<1>1. ASSUME NEW r \in QuoteRequests,
             \/ \E op \in QuoteOps : LoadQuote(r, op)
             \/ Refused(r) \/ Send(r) \/ TooLate(r) \/ Accept(r) \/ FinalizeAccept(r)
             \/ ScheduleYes(r) \/ Book(r) \/ BookFails(r) \/ Link(r) \/ Convert(r)
             \/ Decline(r) \/ RequestChanges(r) \/ Archive(r) \/ QuoteProcessDies(r)
      PROVE  QuoteShape'
  <2>0. asked[r] \in Asked /\ asked[r].newly \in BOOLEAN /\ Seen(r).status \in QuoteStatus
    BY DEF QuoteShape, Asked, Seen, Quote
  <2>1. ASSUME NEW op \in QuoteOps, LoadQuote(r, op) PROVE QuoteShape'
    <3> DEFINE next == [AskedNothing EXCEPT !.op = op, !.pc = "loaded", !.seen = quote]
    <3>1. next \in Asked
      BY <1>0, AskedNothingType DEF Asked
    <3>2. asked' = [asked EXCEPT ![r] = next] /\ UNCHANGED <<quote, quoteJob>>
      BY <2>1 DEF LoadQuote
    <3> HIDE DEF next
    <3> QED BY <3>1, <3>2 DEF QuoteShape
  <2>2. ASSUME \/ Replied(r)
               \/ \E pc \in {"converting", "booking", "linking"}, newly \in BOOLEAN : GoOn(r, pc, newly)
        PROVE  asked' \in [QuoteRequests -> Asked]
    BY <2>2, AskedType
  <2>3. ASSUME NEW status \in QuoteStatus, Write(r, status) PROVE quote' \in Quote
    BY <2>3, WriteType
  <2>4. Converted => quote' \in Quote /\ quoteJob' \in QuoteJob
    BY <1>0 DEF Converted, Quote, QuoteStatus
  <2>5. CASE Refused(r) \/ BookFails(r) \/ QuoteProcessDies(r)
    BY <1>0, <2>2, <2>5 DEF Refused, BookFails, QuoteProcessDies, QuoteShape
  <2>6. CASE Send(r)
    <3>1. UNCHANGED quote \/ Write(r, "sent") \/ Write(r, Seen(r).status)
      BY <2>6 DEF Send
    <3> QED BY <1>0, <2>0, <2>2, <2>3, <2>6, <3>1 DEF Send, QuoteShape, QuoteStatus
  <2>7. CASE TooLate(r) \/ Decline(r)
    BY <1>0, <2>2, <2>3, <2>7 DEF TooLate, Decline, QuoteShape, QuoteStatus
  <2>8. CASE Accept(r)
    BY <1>0, <2>2, <2>3, <2>8 DEF Accept, QuoteShape, QuoteStatus
  <2>9. CASE FinalizeAccept(r)
    BY <1>0, <2>2, <2>4, <2>9 DEF FinalizeAccept, QuoteShape
  <2>10. CASE ScheduleYes(r)
    <3>1. Write(r, "accepted") \/ Write(r, Seen(r).status)
      BY <2>10 DEF ScheduleYes
    <3>2. \E newly \in BOOLEAN : GoOn(r, "booking", newly)
      <4>1. GoOn(r, "booking", Seen(r).status \in {"draft", "sent", "viewed"})
        BY <2>10 DEF ScheduleYes
      <4>2. (Seen(r).status \in {"draft", "sent", "viewed"}) \in BOOLEAN
        OBVIOUS
      <4> QED BY <4>1, <4>2
    <3> QED BY <1>0, <2>0, <2>2, <2>3, <2>10, <3>1, <3>2 DEF ScheduleYes, QuoteShape, QuoteStatus
  <2>11. CASE Book(r)
    BY <1>0, <2>0, <2>2, <2>11 DEF Book, QuoteShape
  <2>12. CASE Link(r)
    BY <1>0, <2>2, <2>12 DEF Link, QuoteShape, Quote, QuoteStatus
  <2>13. CASE Convert(r)
    BY <1>0, <2>2, <2>4, <2>13 DEF Convert, QuoteShape
  <2>14. CASE RequestChanges(r)
    <3>1. Write(r, "changes_requested") \/ Write(r, Seen(r).status)
      BY <2>14 DEF RequestChanges
    <3> QED BY <1>0, <2>0, <2>2, <2>3, <2>14, <3>1 DEF RequestChanges, QuoteShape, QuoteStatus
  <2>15. CASE Archive(r)
    BY <1>0, <2>2, <2>3, <2>15 DEF Archive, QuoteShape, QuoteStatus
  <2> QED BY <1>1, <2>1, <2>5, <2>6, <2>7, <2>8, <2>9, <2>10, <2>11, <2>12, <2>13, <2>14, <2>15
<1>2. CASE View \/ Expire \/ PurgeQuote \/ PatchQuote \/ DatePasses
  BY <1>0, <1>2
     DEF View, Expire, PurgeQuote, PatchQuote, DatePasses, QuoteBecomes, QuoteShape, Quote, QuoteStatus
<1>3. CASE NewQuote
  BY <1>3, DraftType DEF NewQuote, QuoteShape
<1>4. CASE JobLives
  BY <1>4 DEF JobLives, QuoteShape, QuoteJob
<1>5. CASE UNCHANGED quoteVars
  BY <1>5 DEF quoteVars, QuoteShape
<1> QED BY <1>1, <1>2, <1>3, <1>4, <1>5 DEF QuoteNext

\* One request's entitlement changes the count by one.
LEMMA EntitledCount ==
    ASSUME QuoteShape, QuoteShape', NEW r \in QuoteRequests,
           \A s \in QuoteRequests \ {r} : asked'[s] = asked[s]
    PROVE  /\ Cardinality(Entitled) \in Nat /\ Cardinality(Entitled') \in Nat
           /\ asked'[r].newly = asked[r].newly => Cardinality(Entitled') = Cardinality(Entitled)
           /\ asked'[r].newly /\ ~asked[r].newly => Cardinality(Entitled') = Cardinality(Entitled) + 1
           /\ ~asked'[r].newly /\ asked[r].newly => Cardinality(Entitled') = Cardinality(Entitled) - 1
<1>1. IsFiniteSet(QuoteRequests) /\ Entitled \subseteq QuoteRequests /\ Entitled' \subseteq QuoteRequests
  BY QuoteAssumption DEF Entitled
<1>2. IsFiniteSet(Entitled) /\ IsFiniteSet(Entitled')
  BY <1>1, FS_Subset
<1>3. Cardinality(Entitled) \in Nat /\ Cardinality(Entitled') \in Nat
  BY <1>2, FS_CardinalityType
<1>4. asked'[r].newly = asked[r].newly => Entitled' = Entitled
  BY DEF Entitled
<1>5. asked'[r].newly /\ ~asked[r].newly => r \notin Entitled /\ Entitled' = Entitled \cup {r}
  BY DEF Entitled
<1>6. ~asked'[r].newly /\ asked[r].newly => r \in Entitled /\ Entitled' = Entitled \ {r}
  BY DEF Entitled
<1>7. r \notin Entitled => Cardinality(Entitled \cup {r}) = Cardinality(Entitled) + 1
  BY <1>2, FS_AddElement
<1>8. r \in Entitled => Cardinality(Entitled \ {r}) = Cardinality(Entitled) - 1
  BY <1>2, FS_RemoveElement
<1> QED BY <1>3, <1>4, <1>5, <1>6, <1>7, <1>8

\* A request that commits, with what it does to the count of acceptances.
LEMMA YesCommit ==
    ASSUME YesInv, QuoteShape', NEW r \in QuoteRequests,
           \A s \in QuoteRequests \ {r} : asked'[s] = asked[s],
           asked'[r].pc # "loaded",
           asked'[r].pc = "converting" => asked'[r].newly,
           asked'[r].pc = "idle" => ~asked'[r].newly,
           quote' = quote \/ \A q \in QuoteRequests \ {r} : asked[q].pc # "loaded",
           \/ yes' = yes /\ (asked'[r].newly => asked[r].newly)
           \/ yes' = yes - 1 /\ asked[r].newly /\ ~asked'[r].newly
           \/ yes' = yes + 1
    PROVE  YesInv'
<1>1. LoadedIsTheRow'
  BY DEF YesInv, LoadedIsTheRow, Seen
<1>2. NewsIsOwn'
  BY DEF YesInv, NewsIsOwn
<1>3. asked[r].newly \in BOOLEAN /\ asked'[r].newly \in BOOLEAN
  BY DEF YesInv, QuoteShape, Asked
<1>4. EachHasItsYes'
  BY <1>3, EntitledCount DEF YesInv, EachHasItsYes
<1> QED BY <1>1, <1>2, <1>4 DEF YesInv

\* One step of one request.  With ~Races a commit finds nobody else loaded.
LEMMA RequestKeepsYes ==
    ASSUME ~Races, YesInv, QuoteShape', NEW r \in QuoteRequests,
           \/ \E op \in QuoteOps : LoadQuote(r, op)
           \/ Refused(r) \/ Send(r) \/ TooLate(r) \/ Accept(r) \/ FinalizeAccept(r)
           \/ ScheduleYes(r) \/ Book(r) \/ BookFails(r) \/ Link(r) \/ Convert(r)
           \/ Decline(r) \/ RequestChanges(r) \/ Archive(r) \/ QuoteProcessDies(r)
    PROVE  YesInv'
<1>0. /\ QuoteShape /\ asked \in [QuoteRequests -> Asked] /\ asked[r].newly \in BOOLEAN
      /\ AskedNothing.pc = "idle" /\ ~AskedNothing.newly
  BY DEF YesInv, QuoteShape, Asked, AskedNothing
<1>a. Turn(r) => \A q \in QuoteRequests \ {r} : asked[q].pc # "loaded"
  BY DEF Turn
<1>b. asked[r].pc = "loaded" => /\ \A q \in QuoteRequests \ {r} : asked[q].pc # "loaded"
                                /\ Seen(r) = quote /\ ~asked[r].newly
  BY DEF YesInv, LoadedIsTheRow
<1>c. ASSUME Replied(r)
      PROVE  /\ \A s \in QuoteRequests \ {r} : asked'[s] = asked[s]
             /\ asked'[r].pc = "idle" /\ ~asked'[r].newly
  BY <1>0, <1>c DEF Replied
<1>d. ASSUME NEW pc \in {"converting", "booking", "linking"}, NEW newly \in BOOLEAN,
             GoOn(r, pc, newly)
      PROVE  /\ \A s \in QuoteRequests \ {r} : asked'[s] = asked[s]
             /\ asked'[r].pc = pc /\ asked'[r].newly = newly
  <2> DEFINE next == [AskedNothing EXCEPT !.op = asked[r].op, !.pc = pc, !.newly = newly]
  <2>1. next.pc = pc /\ next.newly = newly
    BY DEF AskedNothing
  <2>2. asked' = [asked EXCEPT ![r] = next]
    BY <1>d DEF GoOn
  <2> HIDE DEF next
  <2> QED BY <1>0, <2>1, <2>2
<1>1. ASSUME NEW op \in QuoteOps, LoadQuote(r, op) PROVE YesInv'
  <2> DEFINE next == [AskedNothing EXCEPT !.op = op, !.pc = "loaded", !.seen = quote]
  <2>1. next.pc = "loaded" /\ next.seen = quote /\ ~next.newly
    BY DEF AskedNothing
  <2>2. /\ asked' = [asked EXCEPT ![r] = next] /\ asked[r].pc = "idle" /\ Turn(r)
        /\ UNCHANGED <<quote, yes>>
    BY <1>1 DEF LoadQuote
  <2> HIDE DEF next
  <2>3. asked'[r] = next /\ \A s \in QuoteRequests \ {r} : asked'[s] = asked[s]
    BY <1>0, <2>2
  <2>4. asked'[r].newly = asked[r].newly
    BY <1>0, <2>1, <2>2, <2>3, QuoteShape' DEF YesInv, NewsIsOwn, QuoteShape, Asked
  <2>5. EachHasItsYes'
    BY <1>0, <2>2, <2>3, <2>4, EntitledCount DEF YesInv, EachHasItsYes
  <2>6. LoadedIsTheRow'
    BY <1>a, <2>1, <2>2, <2>3 DEF YesInv, LoadedIsTheRow, Seen
  <2>7. NewsIsOwn'
    BY <2>1, <2>3 DEF YesInv, NewsIsOwn
  <2> QED BY <2>5, <2>6, <2>7 DEF YesInv
\* Nothing new, and the quote alone or written with nobody else loaded.
<1>2. ASSUME Replied(r), UNCHANGED yes, quote' = quote \/ asked[r].pc = "loaded" PROVE YesInv'
  BY <1>b, <1>c, <1>2, YesCommit
<1>3. CASE \/ Refused(r) \/ Send(r) \/ TooLate(r) \/ BookFails(r) \/ Decline(r)
           \/ RequestChanges(r) \/ Archive(r) \/ QuoteProcessDies(r)
  BY <1>2, <1>3
     DEF Refused, Send, TooLate, BookFails, Decline, RequestChanges, Archive, QuoteProcessDies,
         Allowed, At
<1>4. CASE Accept(r)
  <2>1. /\ asked[r].pc = "loaded"
        /\ IF quote.linked
           THEN /\ yes' = IF NewYes THEN yes + 1 ELSE yes
                /\ GoOn(r, "converting", TRUE)
           ELSE /\ yes' = IF NewYes THEN yes ELSE yes - 1
                /\ Replied(r)
    BY <1>4 DEF Accept, Allowed, At
  <2>2. NewYes
    <3>1. \E op \in {"accept", "officeAccept"} : Seen(r).status \notin Refusal(op)
      BY <1>4 DEF Accept, Allowed
    <3> QED BY <1>b, <2>1, <3>1 DEF Refusal, NewYes, Won
  <2>3. CASE GoOn(r, "converting", TRUE) /\ yes' = yes + 1
    BY <1>b, <1>d, <2>1, <2>3, YesCommit
  <2>4. CASE Replied(r) /\ yes' = yes
    BY <1>2, <2>1, <2>4
  <2> QED BY <2>1, <2>2, <2>3, <2>4
<1>5. CASE FinalizeAccept(r)
  <2>1. Turn(r) /\ Replied(r) /\ yes' = yes - 1 /\ asked[r].pc = "converting"
    BY <1>5 DEF FinalizeAccept
  <2>2. asked[r].newly
    BY <2>1 DEF YesInv, NewsIsOwn
  <2> QED BY <1>a, <1>c, <2>1, <2>2, YesCommit
<1>6. CASE ScheduleYes(r)
  <2> DEFINE newly == Seen(r).status \in {"draft", "sent", "viewed"}
  <2>1. /\ asked[r].pc = "loaded" /\ GoOn(r, "booking", newly)
        /\ yes' = IF newly /\ NewYes THEN yes + 1 ELSE yes
    BY <1>6 DEF ScheduleYes, Allowed, At
  <2>2. newly => NewYes
    BY <1>b, <2>1 DEF NewYes, Won
  <2>3. newly \in BOOLEAN
    OBVIOUS
  <2> HIDE DEF newly
  <2>4. /\ \A s \in QuoteRequests \ {r} : asked'[s] = asked[s]
        /\ asked'[r].pc = "booking" /\ asked'[r].newly = newly
    BY <1>d, <2>1, <2>3
  <2>5. CASE newly
    BY <1>b, <2>1, <2>2, <2>4, <2>5, YesCommit
  <2>6. CASE ~newly
    BY <1>b, <2>1, <2>4, <2>6, YesCommit
  <2> QED BY <2>5, <2>6
\* The news is told by the request that made the acceptance.
<1>7. ASSUME Heard(asked[r].newly), Replied(r), quote' = quote \/ Turn(r) PROVE YesInv'
  <2>1. CASE asked[r].newly
    BY <1>a, <1>c, <1>7, <2>1, YesCommit DEF Heard
  <2>2. CASE ~asked[r].newly
    BY <1>a, <1>c, <1>7, <2>2, YesCommit DEF Heard
  <2> QED BY <2>1, <2>2
<1>8. CASE Book(r)
  <2>1. CASE quoteJob # "none"
    BY <1>7, <1>8, <2>1 DEF Book
  <2>2. CASE quoteJob = "none"
    <3>1. GoOn(r, "linking", asked[r].newly) /\ UNCHANGED <<quote, yes>>
      BY <1>8, <2>2 DEF Book
    <3>2. /\ \A s \in QuoteRequests \ {r} : asked'[s] = asked[s]
          /\ asked'[r].pc = "linking" /\ asked'[r].newly = asked[r].newly
      BY <1>0, <1>d, <3>1
    <3> QED BY <3>1, <3>2, YesCommit
  <2> QED BY <2>1, <2>2
<1>9. CASE Link(r)
  BY <1>7, <1>9 DEF Link
<1>10. CASE Convert(r)
  <2>1. asked[r].pc = "loaded" /\ UNCHANGED yes
    BY <1>10 DEF Convert, Allowed, At
  <2>2. CASE Replied(r)
    BY <1>2, <2>1, <2>2
  <2>3. CASE GoOn(r, "linking", FALSE)
    <3>1. /\ \A s \in QuoteRequests \ {r} : asked'[s] = asked[s]
          /\ asked'[r].pc = "linking" /\ asked'[r].newly = FALSE
      BY <1>d, <2>3
    <3> QED BY <1>b, <2>1, <3>1, YesCommit
  <2> QED BY <1>10, <2>2, <2>3 DEF Convert
<1> QED BY <1>1, <1>3, <1>4, <1>5, <1>6, <1>8, <1>9, <1>10

\* _finalize_quote_accept runs at most once per acceptance, for any number of
\* requests and whoever dies between its transactions, while no two requests
\* overlap between loading the quote and committing.
THEOREM YesAnnouncedOnce ==
    ASSUME ~Races
    PROVE  QuoteSpec => []AnnouncedOnce
<1>1. ASSUME QuoteInit PROVE QuoteShape /\ YesInv
  <2>1. QuoteShape /\ \A r \in QuoteRequests : asked[r].pc = "idle" /\ ~asked[r].newly
    BY <1>1, DraftType, AskedNothingType DEF QuoteInit, QuoteShape, QuoteJob, AskedNothing
  <2>2. Entitled = {} /\ Cardinality({}) = 0
    BY <2>1, FS_EmptySet DEF Entitled
  <2>3. EachHasItsYes
    BY <1>1, <2>2 DEF QuoteInit, EachHasItsYes
  <2> QED BY <2>1, <2>3 DEF YesInv, LoadedIsTheRow, NewsIsOwn
<1>2. YesInv /\ [QuoteNext]_quoteVars => YesInv'
  <2> SUFFICES ASSUME YesInv, [QuoteNext]_quoteVars PROVE YesInv'
    OBVIOUS
  <2>0. QuoteShape'
    BY ShapeStep DEF YesInv
  <2>1. ASSUME NEW r \in QuoteRequests,
               \/ \E op \in QuoteOps : LoadQuote(r, op)
               \/ Refused(r) \/ Send(r) \/ TooLate(r) \/ Accept(r) \/ FinalizeAccept(r)
               \/ ScheduleYes(r) \/ Book(r) \/ BookFails(r) \/ Link(r) \/ Convert(r)
               \/ Decline(r) \/ RequestChanges(r) \/ Archive(r) \/ QuoteProcessDies(r)
        PROVE  YesInv'
    BY <2>0, <2>1, RequestKeepsYes
  \* What happens around the quote waits until nobody is loaded.
  <2>2. ASSUME UNCHANGED <<asked, yes>>, quote' = quote \/ Quiet PROVE YesInv'
    <3>1. Entitled' = Entitled
      BY <2>2 DEF Entitled
    <3>2. quote' = quote \/ \A r \in QuoteRequests : asked[r].pc # "loaded"
      BY <2>2 DEF Quiet
    <3> QED BY <2>0, <2>2, <3>1, <3>2 DEF YesInv, EachHasItsYes, LoadedIsTheRow, NewsIsOwn, Seen
  <2>3. CASE View \/ Expire \/ PurgeQuote \/ PatchQuote \/ DatePasses
    BY <2>2, <2>3 DEF View, Expire, PurgeQuote, PatchQuote, DatePasses, QuoteBecomes
  <2>4. CASE JobLives
    BY <2>2, <2>4 DEF JobLives
  <2>5. CASE NewQuote
    <3>1. /\ UNCHANGED asked /\ yes' = 0
          /\ \A r \in QuoteRequests : asked[r].pc = "idle" /\ ~asked[r].newly
      BY <2>5 DEF NewQuote, YesInv, NewsIsOwn
    <3>2. Entitled' = {} /\ Cardinality({}) = 0
      BY <3>1, FS_EmptySet DEF Entitled
    <3>3. EachHasItsYes'
      BY <3>1, <3>2 DEF EachHasItsYes
    <3> QED BY <2>0, <3>1, <3>3 DEF YesInv, LoadedIsTheRow, NewsIsOwn
  <2>6. CASE UNCHANGED quoteVars
    BY <2>2, <2>6 DEF quoteVars
  <2> QED BY <2>1, <2>3, <2>4, <2>5, <2>6 DEF QuoteNext
<1>3. YesInv => AnnouncedOnce
  <2> SUFFICES ASSUME YesInv PROVE yes >= 0
    BY DEF AnnouncedOnce
  <2>1. IsFiniteSet(Entitled)
    BY QuoteAssumption, FS_Subset DEF Entitled
  <2>2. Cardinality(Entitled) \in Nat
    BY <2>1, FS_CardinalityType
  <2> QED BY <2>2 DEF YesInv, EachHasItsYes
<1> QED BY <1>1, <1>2, <1>3, PTL DEF QuoteSpec
=============================================================================
