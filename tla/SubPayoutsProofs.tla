-------------------------- MODULE SubPayoutsProofs --------------------------
(***************************************************************************)
(* What holds of the payout ledger for every set of rows, requests and     *)
(* transfers, whatever overlaps.  Typing, references and the way back into *)
(* the batch need nothing.  "Nobody is paid twice", the order of the       *)
(* statuses and the refinement of PayoutLedger each leave out one kind of  *)
(* step: a handler that writes or pays on a row somebody else has moved    *)
(* since it looked.  One office request at a time takes no such step, so   *)
(* there all of it holds outright (last section).                          *)
(***************************************************************************)
EXTENDS SubPayouts, TLAPS

-----------------------------------------------------------------------------
(* Typing *)

\* The columns a flush leaves in a row are columns.
LEMMA FlushType ==
    ASSUME NEW current \in Row, NEW loaded \in Row, NEW new \in Row
    PROVE  Flush(current, loaded, new) \in Row
BY DEF Flush, Row

\* So is a row with another way of paying it.
LEMMA MethodType ==
    ASSUME NEW r \in Row, NEW method \in Methods
    PROVE  [r EXCEPT !.method = method] \in Row
BY DEF Row

\* The resting state of a request is well typed,
LEMMA IdleType == Idle \in Request /\ Idle.pc = "idle"
BY DEF Idle, Request, NothingSeen, Absent, Row, Refs, Statuses, Methods

\* and so is a fresh record, in every phase that carries no more.
LEMMA AtType ==
    ASSUME NEW pc \in {"idle", "listed", "csv", "planned", "sending", "answered", "marking"},
           NEW W \in SUBSET Work
    PROVE  At(pc, W) \in Request /\ At(pc, W).pc = pc
BY DEF At, Idle, Request, NothingSeen, Absent, Row, Refs, Statuses, Methods

\* What a session loaded is rows.
LEMMA LoadedType ==
    ASSUME TypeOK, NEW W \in SUBSET Work
    PROVE  Loaded(W) \in [Work -> Row]
BY DEF TypeOK, Loaded, Absent, Row, Refs, Statuses, Methods

\* The rest of a loop is a well typed request.
LEMMA ContinueType ==
    ASSUME NEW W \in SUBSET Work
    PROVE  Continue(W) \in Request /\ Continue(W).pc \in {"idle", "sending"}
BY IdleType, AtType DEF Continue

\* Every variable keeps its type, in one step of the office.
LEMMA OfficeType ==
    ASSUME TypeOK, NEW q \in Requests, Office(q)
    PROVE  TypeOK'
<1> USE DEF TypeOK
<1>0. /\ req[q] \in Request /\ (req[q].pc = "marking" => req[q].to # "none")
      /\ req[q].todo \in SUBSET Work
      /\ req[q].seen \in [Work -> Row] /\ req[q].answer \in Refs
  BY DEF Request
<1>1. ASSUME NEW W \in SUBSET Work, NEW to \in {"sent", "paid", "void"}, BeginMark(q, W, to)
      PROVE  TypeOK'
  <2>1. [At("marking", W) EXCEPT !.seen = Loaded(W), !.to = to]
          \in {r \in Request : r.pc = "marking" => r.to # "none"}
    BY LoadedType DEF At, Idle, Request, NothingSeen, Absent, Row, Refs
  <2> QED BY <1>1, <2>1 DEF BeginMark, stripe
<1>2. CASE Mark(q)
  BY <1>1, <1>2 DEF Mark
<1>3. CASE MarkCommit(q)
  <2>1. \A w \in req[q].todo : Marked(req[q].seen[w], req[q].to) \in Row
    <3> SUFFICES ASSUME NEW w \in req[q].todo
                 PROVE  Marked(req[q].seen[w], req[q].to) \in Row
      OBVIOUS
    <3>1. req[q].to \in {"sent", "paid", "void"}
      BY <1>0, <1>3 DEF MarkCommit, Request
    <3>2. req[q].seen[w] \in Row
      BY <1>0
    <3> QED BY <3>1, <3>2 DEF Marked, Row, Statuses, Methods
  <2>2. row' \in [Work -> Row]
    BY <1>0, <1>3, <2>1, FlushType DEF MarkCommit
  <2> QED BY <1>3, <2>2, IdleType DEF MarkCommit, stripe
<1>4. CASE SendList(q)
  BY <1>4, AtType DEF SendList, stripe
<1>5. CASE SendManual(q)
  BY <1>0, <1>1, <1>5 DEF SendManual
<1>6. CASE SendPlan(q)
  <2>1. ASSUME NEW W \in SUBSET Work
        PROVE  [At("planned", W) EXCEPT !.seen = Loaded(W)]
          \in {r \in Request : r.pc = "planned"}
    BY LoadedType DEF At, Idle, Request, NothingSeen, Absent, Row, Refs
  <2>2. PICK W \in SUBSET Work :
          req' = [req EXCEPT ![q] = IF W = {} THEN Idle
                                    ELSE [At("planned", W) EXCEPT !.seen = Loaded(W)]]
    <3>1. PICK blocked \in SUBSET req[q].todo :
            LET sendable == {w \in req[q].todo \ blocked : ~Unclear(row[w])} IN
            req' = [req EXCEPT ![q] = IF sendable = {} THEN Idle
                                      ELSE [At("planned", sendable) EXCEPT !.seen = Loaded(sendable)]]
      BY <1>6 DEF SendPlan
    <3>2. {w \in req[q].todo \ blocked : ~Unclear(row[w])} \in SUBSET Work
      BY <1>0
    <3> QED BY <3>1, <3>2
  <2> QED BY <1>0, <1>6, <2>1, <2>2, IdleType DEF SendPlan, stripe
<1>7. CASE SendRefuse(q) \/ Crash(q)
  BY <1>7, IdleType DEF SendRefuse, Crash, stripe
<1>8. CASE SendStamp(q)
  <2>1. \A w \in req[q].todo : [req[q].seen[w] EXCEPT !.method = "stripe"] \in Row
    BY <1>0, MethodType DEF Methods
  <2>2. row' \in [Work -> Row]
    BY <1>0, <1>8, <2>1, FlushType DEF SendStamp
  <2> QED BY <1>0, <1>8, <2>2, AtType DEF SendStamp, stripe
<1>9. ASSUME NEW w \in Work, NEW id \in TransferIds, StripeTransfers(id, w, row[w].ref)
      PROVE  /\ paidFor' \in [TransferIds -> Work \cup {NoWork}]
             /\ keys' \subseteq Key
             /\ reversed' = reversed /\ events' = events
  <2>1. row[w].ref \in Refs
    BY DEF Row
  <2> QED BY <1>9, <2>1 DEF StripeTransfers, stripe, Key, Refs
<1>10. ASSUME NEW w \in Work, NEW answer \in Refs
       PROVE  Answered(q, w, answer) \in Request /\ Answered(q, w, answer).pc = "answered"
  BY <1>0, LoadedType DEF Answered, At, Idle, Request, NothingSeen, Absent, Row, Refs
<1>11. CASE TransferOk(q)
  BY <1>0, <1>9, <1>10, <1>11 DEF TransferOk, Refs
<1>12. CASE TransferRefused(q)
  BY <1>0, <1>10, <1>12 DEF TransferRefused, Refs, stripe
<1>13. CASE TransferLost(q)
  <2>1. PICK w \in req[q].todo :
          /\ \/ \E id \in TransferIds : StripeTransfers(id, w, row[w].ref)
             \/ UNCHANGED stripe
          /\ req' = [req EXCEPT ![q] = Continue(req[q].todo \ {w})]
    BY <1>13 DEF TransferLost
  <2>2. /\ Continue(req[q].todo \ {w}) \in Request
        /\ Continue(req[q].todo \ {w}).pc \in {"idle", "sending"}
    BY <1>0, ContinueType
  <2>3. CASE UNCHANGED stripe
    BY <1>13, <2>1, <2>2, <2>3 DEF TransferLost, stripe
  <2>4. CASE \E id \in TransferIds : StripeTransfers(id, w, row[w].ref)
    BY <1>0, <1>9, <1>13, <2>1, <2>2, <2>4 DEF TransferLost
  <2> QED BY <2>1, <2>3, <2>4
<1>14. CASE RecordPaid(q)
  <2>1. ASSUME NEW loaded \in Row
        PROVE  [status |-> "paid", method |-> "stripe", ref |-> req[q].answer] \in Row
    BY <1>0 DEF Row, Statuses, Methods
  <2>2. row' \in [Work -> Row]
    <3>1. CASE req[q].cur \in Work
      BY <1>0, <1>14, <2>1, <3>1, FlushType DEF RecordPaid
    <3>2. CASE req[q].cur \notin Work
      BY <1>14, <3>2 DEF RecordPaid
    <3> QED BY <3>1, <3>2
  <2> QED BY <1>0, <1>14, <2>2, IdleType, ContinueType DEF RecordPaid, stripe
<1>15. CASE RecordRefused(q)
  <2>1. row' \in [Work -> Row]
    <3>1. CASE req[q].cur \in Work
      <4>1. [req[q].seen[req[q].cur] EXCEPT !.method = "none"] \in Row
        BY <1>0, <3>1, MethodType DEF Methods
      <4> QED BY <1>0, <1>15, <3>1, <4>1, FlushType DEF RecordRefused
    <3>2. CASE req[q].cur \notin Work
      BY <1>15, <3>2 DEF RecordRefused
    <3> QED BY <3>1, <3>2
  <2> QED BY <1>0, <1>15, <2>1, ContinueType DEF RecordRefused, stripe
<1> QED BY <1>2, <1>3, <1>4, <1>5, <1>6, <1>7, <1>8, <1>11, <1>12, <1>13, <1>14, <1>15 DEF Office

\* ... and in any step.
LEMMA TypeStep ==
    ASSUME TypeOK, [Next]_vars
    PROVE  TypeOK'
<1>1. CASE UNCHANGED vars
  BY <1>1 DEF vars, TypeOK
<1>2. CASE \E w \in Work : WorkChanges(w)
  BY <1>2 DEF TypeOK, WorkChanges, stripe
<1>3. CASE \E g \in Generators : GenerateRead(g)
  BY <1>3 DEF TypeOK, GenerateRead, stripe
<1>4. CASE \E g \in Generators : GenerateWrite(g)
  BY <1>4 DEF TypeOK, GenerateWrite, stripe, Absent, Row, Refs, Statuses, Methods
<1>5. CASE \E name \in {"manual", "stripe"} : ChooseRail(name)
  BY <1>5 DEF TypeOK, ChooseRail, stripe
<1>6. CASE \E q \in Requests : Office(q)
  BY <1>6, OfficeType
<1>7. CASE \E id \in TransferIds : Reverse(id)
  BY <1>7 DEF TypeOK, Reverse
<1>8. CASE \E id \in TransferIds : ReversalWebhook(id)
  BY <1>8 DEF TypeOK, ReversalWebhook, Row, Statuses
<1>9. CASE DayPasses
  BY <1>9 DEF TypeOK, DayPasses
<1> QED BY <1>1, <1>2, <1>3, <1>4, <1>5, <1>6, <1>7, <1>8, <1>9 DEF Next

\* Every variable keeps its type: the ledger's columns, the requests' records
\* and what Stripe remembers, for any number of overlapping requests.
THEOREM TypeCorrect == Spec => []TypeOK
<1>1. Init => TypeOK
  BY IdleType DEF Init, TypeOK, Absent, Row, Refs, Statuses, Methods
<1>2. TypeOK /\ [Next]_vars => TypeOK'
  BY TypeStep
<1> QED BY <1>1, <1>2, PTL DEF Spec

-----------------------------------------------------------------------------
(* References belong to their rows, whatever overlaps *)

\* Stripe's keys, the answers in flight and the references in the table all
\* name transfers made for the row they are attached to, and an event only
\* exists for a transfer that was reversed.
Grounded ==
    /\ ReferenceIsOurs
    /\ \A k \in keys : paidFor[k.id] = k.work
    /\ \A q \in Requests : req[q].answer # NoRef =>
           req[q].cur \in Work /\ paidFor[req[q].answer] = req[q].cur
    /\ \A id \in TransferIds : events[id] # "none" => id \in reversed

\* Stripe answers with a transfer of that row, and forgets none of the others.
LEMMA TransferIsOurs ==
    ASSUME TypeOK, Grounded,
           NEW w \in Work, NEW id \in TransferIds, StripeTransfers(id, w, row[w].ref)
    PROVE  /\ paidFor'[id] = w
           /\ \A other \in TransferIds : paidFor[other] # NoWork => paidFor'[other] = paidFor[other]
           /\ \A k \in keys' : paidFor'[k.id] = k.work
           /\ reversed' = reversed /\ events' = events
<1>1. CASE [work |-> w, ref |-> row[w].ref, id |-> id] \in keys /\ UNCHANGED stripe
  BY <1>1 DEF Grounded, stripe
<1>2. CASE /\ paidFor[id] = NoWork
           /\ paidFor' = [paidFor EXCEPT ![id] = w]
           /\ keys' = keys \cup {[work |-> w, ref |-> row[w].ref, id |-> id]}
           /\ UNCHANGED <<reversed, events>>
  <2>1. \A k \in keys : k.id \in TransferIds /\ k.work # NoWork
    BY SentinelAssumption DEF TypeOK, Key
  <2> QED BY <1>2, <2>1 DEF TypeOK, Grounded
<1> QED BY <1>1, <1>2 DEF StripeTransfers

\* Every step keeps references, answers, keys and events true to the transfers.
LEMMA GroundedStep ==
    ASSUME TypeOK, Grounded, [Next]_vars
    PROVE  Grounded'
<1> USE DEF TypeOK, Grounded, ReferenceIsOurs
<1>1. CASE UNCHANGED vars
  BY <1>1 DEF vars
<1>2. CASE \E w \in Work : WorkChanges(w)
  BY <1>2 DEF WorkChanges, stripe
<1>3. CASE \E g \in Generators : GenerateRead(g) \/ GenerateWrite(g)
  BY <1>3 DEF GenerateRead, GenerateWrite, stripe, Absent
<1>4. CASE \E name \in {"manual", "stripe"} : ChooseRail(name)
  BY <1>4 DEF ChooseRail, stripe
<1>5. ASSUME NEW q \in Requests, Office(q)
      PROVE  Grounded'
  <2>1. \A s \in Requests : s # q => req'[s] = req[s]
    BY <1>5 DEF Office, Mark, SendManual, BeginMark, MarkCommit, SendList, SendPlan,
                SendRefuse, SendStamp, TransferOk, TransferRefused, TransferLost,
                RecordPaid, RecordRefused, Crash
  <2>2. \A W \in SUBSET Work : \A pc : At(pc, W).answer = NoRef
    BY DEF At, Idle
  <2>3. Idle.answer = NoRef /\ \A W : Continue(W).answer = NoRef
    BY DEF Idle, At, Continue
  <2>4. TypeOK'
    BY <1>5, OfficeType
  <2>5. /\ req[q] \in Request /\ req[q].todo \in SUBSET Work /\ req[q].seen \in [Work -> Row]
        /\ req'[q] \in Request
    BY <2>4 DEF Request
  <2>6. ASSUME req'[q].answer = NoRef, UNCHANGED stripe,
               \A w \in Work : row'[w].ref = row[w].ref
        PROVE  Grounded'
    BY <2>1, <2>5, <2>6 DEF stripe
  <2>7. CASE Mark(q) \/ SendManual(q)
    BY <2>6, <2>7 DEF Mark, SendManual, BeginMark, At, Idle
  <2>8. CASE SendList(q) \/ SendRefuse(q) \/ Crash(q)
    <3>1. CASE SendList(q)
      <4> DEFINE pc == IF rail = "stripe" THEN "listed" ELSE "csv"
      <4>1. PICK W \in SUBSET {w \in Work : row[w].status = "due"} :
                  req' = [req EXCEPT ![q] = At(pc, W)]
        BY <3>1 DEF SendList
      <4>2. At(pc, W).answer = NoRef
        BY DEF At, Idle
      <4>3. row' = row /\ UNCHANGED stripe
        BY <3>1 DEF SendList
      <4> HIDE DEF pc
      <4> QED BY <2>6, <4>1, <4>2, <4>3
    <3>2. CASE SendRefuse(q)
      BY <2>3, <2>6, <3>2 DEF SendRefuse
    <3>3. CASE Crash(q)
      BY <2>3, <2>6, <3>3 DEF Crash
    <3> QED BY <2>8, <3>1, <3>2, <3>3
  <2>9. CASE SendPlan(q)
    BY <2>6, <2>9 DEF SendPlan, At, Idle
  <2>10. CASE MarkCommit(q)
    <3>1. \A w \in Work : row'[w].ref = row[w].ref
      BY <2>5, <2>10 DEF MarkCommit, Marked, Row, Flush
    <3>2. req' = [req EXCEPT ![q] = Idle] /\ UNCHANGED stripe
      BY <2>10 DEF MarkCommit
    <3> QED BY <2>3, <2>6, <3>1, <3>2
  <2>11. CASE SendStamp(q)
    <3>1. \A w \in Work : row'[w].ref = row[w].ref
      BY <2>5, <2>11 DEF SendStamp, Row, Flush
    <3>2. req' = [req EXCEPT ![q] = At("sending", req[q].todo)] /\ UNCHANGED stripe
      BY <2>11 DEF SendStamp
    <3> QED BY <2>2, <2>5, <2>6, <3>1, <3>2
  <2>12. CASE RecordRefused(q)
    <3>1. \A w \in Work : row'[w].ref = row[w].ref
      BY <2>5, <2>12 DEF RecordRefused, Row, Flush
    <3>2. req' = [req EXCEPT ![q] = Continue(req[q].todo \ {req[q].cur})] /\ UNCHANGED stripe
      BY <2>12 DEF RecordRefused
    <3> QED BY <2>3, <2>6, <3>1, <3>2
  <2>13. CASE TransferOk(q)
    <3>1. PICK w \in req[q].todo, id \in TransferIds :
            /\ StripeTransfers(id, w, row[w].ref)
            /\ req' = [req EXCEPT ![q] = Answered(q, w, id)]
      BY <2>13 DEF TransferOk
    <3>2. Answered(q, w, id).cur = w /\ Answered(q, w, id).answer = id
      BY DEF Answered, At, Idle
    <3>3. row' = row
      BY <2>13 DEF TransferOk
    <3> QED BY <2>1, <2>5, <3>1, <3>2, <3>3, TransferIsOurs, SentinelAssumption DEF Request, Refs, Row
  <2>14. CASE TransferRefused(q)
    BY <2>6, <2>14 DEF TransferRefused, Answered, At, Idle
  <2>15. CASE TransferLost(q)
    <3>1. PICK w \in req[q].todo :
            /\ \/ \E id \in TransferIds : StripeTransfers(id, w, row[w].ref)
               \/ UNCHANGED stripe
            /\ req' = [req EXCEPT ![q] = Continue(req[q].todo \ {w})]
      BY <2>15 DEF TransferLost
    <3>2. row' = row
      BY <2>15 DEF TransferLost
    <3>3. CASE UNCHANGED stripe
      BY <2>3, <2>6, <3>1, <3>2, <3>3
    <3>4. CASE \E id \in TransferIds : StripeTransfers(id, w, row[w].ref)
      BY <2>1, <2>3, <2>5, <3>1, <3>2, <3>4, TransferIsOurs, SentinelAssumption DEF Request, Refs, Row
    <3> QED BY <3>1, <3>3, <3>4
  <2>16. CASE RecordPaid(q)
    <3>1. UNCHANGED stripe
      BY <2>16 DEF RecordPaid
    <3>2. req'[q].answer = NoRef
      BY <2>3, <2>16 DEF RecordPaid
    <3>3. \A w \in Work : row'[w].ref # row[w].ref => w = req[q].cur /\ row'[w].ref = req[q].answer
      BY <2>16 DEF RecordPaid, Flush, Row
    <3>4. req[q].answer # NoRef
      BY <2>16 DEF RecordPaid
    <3> QED BY <2>1, <3>1, <3>2, <3>3, <3>4 DEF stripe
  <2> QED BY <1>5, <2>7, <2>8, <2>9, <2>10, <2>11, <2>12, <2>13, <2>14, <2>15, <2>16 DEF Office
<1>6. CASE \E id \in TransferIds : Reverse(id)
  BY <1>6 DEF Reverse
<1>7. CASE \E id \in TransferIds : ReversalWebhook(id)
  BY <1>7 DEF ReversalWebhook, Row
<1>8. CASE DayPasses
  BY <1>8 DEF DayPasses
<1> QED BY <1>1, <1>2, <1>3, <1>4, <1>5, <1>6, <1>7, <1>8 DEF Next

\* So they do in every reachable state.
LEMMA GroundedInvariant == Spec => [](TypeOK /\ Grounded)
<1>1. Init => Grounded
  <2>1. ASSUME Init PROVE Grounded
    BY <2>1 DEF Init, Grounded, ReferenceIsOurs, Absent, Idle
  <2> QED BY <2>1
<1>2. TypeOK /\ Grounded /\ [Next]_vars => Grounded'
  BY GroundedStep
<1> QED BY <1>1, <1>2, TypeCorrect, PTL DEF Spec

\* The reference on a row is a transfer Stripe made for that row, whatever
\* requests, webhooks and crashes interleave: a reversal reopens the right row.
THEOREM ReferencesAreOurs == Spec => []ReferenceIsOurs
<1>1. Grounded => ReferenceIsOurs
  BY DEF Grounded
<1> QED BY <1>1, GroundedInvariant, PTL

\* However stale the columns a handler works on, its flush never writes `due`.
LEMMA BackInBatchStep ==
    ASSUME TypeOK, Grounded, [Next]_vars, NEW w \in Work,
           row'[w].status = "due", row[w].status # "due"
    PROVE  \/ row[w].status = "absent"
           \/ row[w].status = "paid" /\ row[w].ref \in reversed
<1>1. CASE \E g \in Generators : GenerateWrite(g)
  BY <1>1 DEF GenerateWrite, Exists
<1>2. CASE \E id \in TransferIds : ReversalWebhook(id)
  BY <1>2 DEF ReversalWebhook, Grounded
<1>3. ASSUME NEW q \in Requests, Office(q)
      PROVE  FALSE
  <2>1. /\ req[q] \in Request /\ (req[q].pc = "marking" => req[q].to # "none")
        /\ req[q].seen \in [Work -> Row]
    BY DEF TypeOK, Request
  <2>2. CASE MarkCommit(q)
    <3>1. req[q].to \in {"sent", "paid", "void"}
      BY <2>1, <2>2 DEF MarkCommit, Request
    <3>2. Marked(req[q].seen[w], req[q].to).status = req[q].to
      BY <2>1 DEF Marked, Row
    <3> QED BY <2>2, <3>1, <3>2 DEF MarkCommit, Flush
  <2>3. CASE SendStamp(q)
    BY <2>1, <2>3 DEF SendStamp, Flush, Row
  <2>4. CASE RecordPaid(q)
    BY <2>4 DEF RecordPaid, Flush, TypeOK
  <2>5. CASE RecordRefused(q)
    BY <2>1, <2>5 DEF RecordRefused, Flush, TypeOK, Row
  <2>6. CASE UNCHANGED row
    BY <2>6
  <2> QED BY <1>3, <2>2, <2>3, <2>4, <2>5, <2>6
          DEF Office, Mark, SendManual, BeginMark, SendList, SendPlan, SendRefuse,
              TransferOk, TransferRefused, TransferLost, Crash
<1>4. CASE UNCHANGED row
  BY <1>4
<1> QED BY <1>1, <1>2, <1>3, <1>4
        DEF Next, vars, WorkChanges, GenerateRead, ChooseRail, Reverse, DayPasses

\* Only generating a row and the reversal of its own transfer make one payable,
\* whatever requests overlap.
THEOREM BackInBatch == Spec => BackInBatchOnlyByReversal
<1> DEFINE Step ==
      \A w \in Work : row'[w].status = "due" /\ row[w].status # "due" =>
          \/ row[w].status = "absent"
          \/ row[w].status = "paid" /\ row[w].ref \in reversed
<1>1. TypeOK /\ Grounded /\ [Next]_vars => [Step]_vars
  BY BackInBatchStep
<1> QED BY <1>1, GroundedInvariant, PTL DEF Spec, BackInBatchOnlyByReversal

\* A row is never deleted.
LEMMA RowsStay ==
    ASSUME TypeOK, [Next]_vars, NEW w \in Work, Exists(w)
    PROVE  Exists(w)'
<1>0. row[w] \in Row /\ row[w].status # "absent"
  BY DEF TypeOK, Exists
<1>1. ASSUME NEW q \in Requests, MarkCommit(q)
      PROVE  Exists(w)'
  <2>1. req[q].to \in {"sent", "paid", "void"} /\ req[q].seen[w] \in Row
    BY <1>1 DEF MarkCommit, TypeOK, Request
  <2>2. row'[w] = IF w \in req[q].todo
                  THEN Flush(row[w], req[q].seen[w], Marked(req[q].seen[w], req[q].to)) ELSE row[w]
    BY <1>1 DEF MarkCommit
  <2> QED BY <1>0, <2>1, <2>2 DEF Flush, Marked, Row, Exists
<1>2. ASSUME NEW q \in Requests, SendStamp(q)
      PROVE  Exists(w)'
  <2>1. req[q].seen[w] \in Row
    BY <1>2 DEF SendStamp, TypeOK, Request
  <2>2. row'[w] = IF w \in req[q].todo
                  THEN Flush(row[w], req[q].seen[w], [req[q].seen[w] EXCEPT !.method = "stripe"])
                  ELSE row[w]
    BY <1>2 DEF SendStamp
  <2> QED BY <1>0, <2>1, <2>2 DEF Flush, Row, Exists
<1>3. ASSUME NEW q \in Requests, RecordPaid(q) \/ RecordRefused(q)
      PROVE  Exists(w)'
  <2>1. req[q].seen[w] \in Row
    BY DEF TypeOK, Request
  <2>2. \/ row'[w] = row[w]
        \/ row'[w] = Flush(row[w], req[q].seen[w],
                          [status |-> "paid", method |-> "stripe", ref |-> req[q].answer])
        \/ row'[w] = Flush(row[w], req[q].seen[w], [req[q].seen[w] EXCEPT !.method = "none"])
    BY <1>3 DEF RecordPaid, RecordRefused, TypeOK
  <2> QED BY <1>0, <2>1, <2>2 DEF Flush, Row, Exists
<1>4. CASE \E g \in Generators : GenerateWrite(g)
  BY <1>0, <1>4 DEF GenerateWrite, Exists
<1>5. CASE \E id \in TransferIds : ReversalWebhook(id)
  BY <1>0, <1>5 DEF ReversalWebhook, Exists, Row
<1>6. CASE UNCHANGED row
  BY <1>6 DEF Exists
<1> QED BY <1>1, <1>2, <1>3, <1>4, <1>5, <1>6
        DEF Next, Office, vars, WorkChanges, GenerateRead, ChooseRail, Mark, SendList, SendManual,
            BeginMark, SendPlan, SendRefuse, TransferOk, TransferRefused, TransferLost, Crash,
            Reverse, DayPasses


\* A reference may be replaced, but is never taken off a row.
LEMMA RefsStay ==
    ASSUME TypeOK, [Next]_vars, NEW w \in Work, Exists(w), row[w].ref # NoRef
    PROVE  row'[w].ref # NoRef
<1>0. row[w] \in Row
  BY DEF TypeOK
<1>1. ASSUME NEW q \in Requests, MarkCommit(q) \/ SendStamp(q) \/ RecordPaid(q) \/ RecordRefused(q)
      PROVE  row'[w].ref # NoRef
  <2>1. req[q].seen[w] \in Row
    BY DEF TypeOK, Request
  <2>2. CASE MarkCommit(q)
    BY <1>0, <2>1, <2>2 DEF MarkCommit, Marked, Row, Flush
  <2>3. CASE SendStamp(q)
    BY <1>0, <2>1, <2>3 DEF SendStamp, Row, Flush
  <2>4. CASE RecordPaid(q)
    BY <1>0, <2>4 DEF RecordPaid, Row, Flush, TypeOK
  <2>5. CASE RecordRefused(q)
    BY <1>0, <2>1, <2>5 DEF RecordRefused, Row, Flush, TypeOK
  <2> QED BY <1>1, <2>2, <2>3, <2>4, <2>5
<1>2. CASE \E g \in Generators : GenerateWrite(g)
  BY <1>2 DEF GenerateWrite
<1>3. CASE \E id \in TransferIds : ReversalWebhook(id)
  BY <1>0, <1>3 DEF ReversalWebhook, Row
<1>4. CASE UNCHANGED row
  BY <1>4
<1> QED BY <1>1, <1>2, <1>3, <1>4
        DEF Next, Office, vars, WorkChanges, GenerateRead, ChooseRail, Mark, SendList, SendManual,
            BeginMark, SendPlan, SendRefuse, TransferOk, TransferRefused, TransferLost, Crash,
            Reverse, DayPasses

-----------------------------------------------------------------------------
(* What a session knows, whatever overlaps *)

\* What one step of the office makes of a request, r: what it picks is recorded, and
\* a copy it is going to write from is fresh.
Follows(q, r) ==
    /\ \A w \in r.todo : w \in req[q].todo \/ Exists(w)
    /\ r.pc = "listed" =>
         row' = row /\ \A w \in r.todo : row[w].status = "due"
    /\ r.pc = "planned" =>
         /\ row' = row /\ req[q].pc = "listed" /\ r.todo \subseteq req[q].todo
         /\ \A w \in r.todo : r.seen[w] = row[w] /\ ~Unclear(row[w])
    /\ r.pc = "marking" =>
         row' = row /\ \A w \in r.todo : r.seen[w] = row[w] /\ Markable(row[w], r.to)
    /\ r.pc = "answered" =>
         /\ row' = row /\ req[q].pc = "sending" /\ r.todo = req[q].todo
         /\ r.cur \in r.todo /\ r.seen[r.cur] = row[r.cur]
    /\ r.pc = "sending" =>
         /\ r.todo \subseteq req[q].todo
         /\ req[q].pc \in {"sending", "answered"} \/ SendStamp(q)

\* The columns of a fresh record.
LEMMA AtIs ==
    \A pc, W : /\ At(pc, W).pc = pc /\ At(pc, W).todo = W
               /\ At(pc, W).answer = NoRef /\ At(pc, W).cur = NoWork
BY DEF At, Idle

\* At rest nothing is in hand.
LEMMA IdleIs == Idle.pc = "idle" /\ Idle.todo = {} /\ Idle.answer = NoRef
BY DEF Idle

\* A request at rest follows any step; so does the rest of a loop.
LEMMA RestFollows ==
    ASSUME NEW q, NEW W \in SUBSET req[q].todo, req[q].pc \in {"sending", "answered"}
    PROVE  Follows(q, Idle) /\ Follows(q, Continue(W))
<1>1. Follows(q, Idle)
  BY IdleIs DEF Follows
<1>2. Follows(q, At("sending", W))
  BY AtIs DEF Follows
<1> QED BY <1>1, <1>2 DEF Continue

\* So does a mark that begins.
LEMMA MarkFollows ==
    ASSUME TypeOK, NEW q \in Requests, NEW W \in SUBSET Work, NEW to, BeginMark(q, W, to)
    PROVE  req' = [req EXCEPT ![q] = req'[q]] /\ Follows(q, req'[q])
<1> DEFINE r == [At("marking", W) EXCEPT !.seen = Loaded(W), !.to = to]
<1>1. r.pc = "marking" /\ r.todo = W /\ r.seen = Loaded(W) /\ r.to = to
  BY DEF At, Idle
<1>2. req' = [req EXCEPT ![q] = r] /\ row' = row /\ \A w \in W : Markable(row[w], to)
  BY DEF BeginMark
<1> HIDE DEF r
<1>3. req'[q] = r
  BY <1>2 DEF TypeOK
<1>4. \A w \in W : Loaded(W)[w] = row[w] /\ Exists(w)
  BY <1>2 DEF Loaded, Markable, Exists
<1> QED BY <1>1, <1>2, <1>3, <1>4 DEF Follows

\* The office moves one request, and as Follows says.
LEMMA OfficeMoves ==
    ASSUME TypeOK, NEW q \in Requests, Office(q)
    PROVE  req' = [req EXCEPT ![q] = req'[q]] /\ Follows(q, req'[q])
<1> DEFINE Moved == req' = [req EXCEPT ![q] = req'[q]] /\ Follows(q, req'[q])
           Only(r) == req' = [req EXCEPT ![q] = r]
<1> SUFFICES Moved
  OBVIOUS
<1>0. req[q].todo \in SUBSET Work
  BY DEF TypeOK, Request
<1>1. ASSUME NEW r, Only(r), Follows(q, r)
      PROVE  Moved
  BY <1>1 DEF TypeOK
<1>2. Follows(q, Idle)
  BY IdleIs DEF Follows
<1> HIDE DEF Moved, Only
<1>3. CASE Mark(q) \/ SendManual(q)
  BY <1>0, <1>3, MarkFollows DEF Mark, SendManual, Moved
<1>4. CASE MarkCommit(q) \/ SendRefuse(q) \/ Crash(q)
  BY <1>1, <1>2, <1>4 DEF MarkCommit, SendRefuse, Crash, Only
<1>5. CASE SendList(q)
  <2>1. PICK pc \in {"listed", "csv"}, W \in SUBSET {w \in Work : row[w].status = "due"} :
          Only(At(pc, W))
    BY <1>5 DEF SendList, Only
  <2>2. Follows(q, At(pc, W))
    BY <1>5, AtIs DEF Follows, Exists, SendList
  <2> QED BY <1>1, <2>1, <2>2
<1>6. CASE SendPlan(q)
  <2>1. PICK blocked \in SUBSET req[q].todo :
          LET sendable == {w \in req[q].todo \ blocked : ~Unclear(row[w])} IN
          req' = [req EXCEPT ![q] = IF sendable = {} THEN Idle
                                    ELSE [At("planned", sendable) EXCEPT !.seen = Loaded(sendable)]]
    BY <1>6 DEF SendPlan
  <2> DEFINE W == {w \in req[q].todo \ blocked : ~Unclear(row[w])}
             r == [At("planned", W) EXCEPT !.seen = Loaded(W)]
  <2>2. r.pc = "planned" /\ r.todo = W /\ r.seen = Loaded(W)
    BY DEF At, Idle
  <2>3. \A w \in W : w \in req[q].todo /\ Loaded(W)[w] = row[w] /\ ~Unclear(row[w])
    BY <1>0 DEF Loaded
  <2>4. row' = row /\ req[q].pc = "listed"
    BY <1>6 DEF SendPlan
  <2>5. Only(IF W = {} THEN Idle ELSE r)
    BY <2>1 DEF Only
  <2> HIDE DEF r, W
  <2>6. Follows(q, r)
    BY <2>2, <2>3, <2>4 DEF Follows
  <2> QED BY <1>1, <1>2, <2>5, <2>6
<1>7. CASE SendStamp(q)
  <2>1. Follows(q, At("sending", req[q].todo))
    BY <1>7, AtIs DEF Follows
  <2> QED BY <1>1, <1>7, <2>1 DEF SendStamp, Only
<1>8. ASSUME NEW w \in req[q].todo, NEW answer, row' = row, req[q].pc = "sending"
      PROVE  Follows(q, Answered(q, w, answer))
  <2>1. /\ Answered(q, w, answer).pc = "answered" /\ Answered(q, w, answer).todo = req[q].todo
        /\ Answered(q, w, answer).cur = w /\ Answered(q, w, answer).seen = Loaded({w})
    BY DEF Answered, At, Idle
  <2>2. Loaded({w})[w] = row[w]
    BY <1>0 DEF Loaded
  <2> QED BY <1>8, <2>1, <2>2 DEF Follows
<1>9. CASE TransferOk(q) \/ TransferRefused(q)
  BY <1>1, <1>8, <1>9 DEF TransferOk, TransferRefused, Only
<1>10. CASE TransferLost(q) \/ RecordPaid(q) \/ RecordRefused(q)
  <2>1. req[q].pc \in {"sending", "answered"}
    BY <1>10 DEF TransferLost, RecordPaid, RecordRefused
  <2>2. \A w : Follows(q, Continue(req[q].todo \ {w}))
    BY <2>1, RestFollows
  <2> QED BY <1>1, <1>2, <1>10, <2>2 DEF TransferLost, RecordPaid, RecordRefused, Only
<1> QED BY <1>3, <1>4, <1>5, <1>6, <1>7, <1>9, <1>10 DEF Office

\* Whatever a request is about is recorded, and so is whatever was paid for.
Recorded ==
    /\ \A q \in Requests : \A w \in req[q].todo : Exists(w)
    /\ \A q \in Requests : req[q].pc = "answered" => req[q].cur \in req[q].todo
    /\ \A w \in Work : ~Exists(w) => Transfers(w) = {}

\* A plan that found a row stamped found its reference too.
PlanSees ==
    \A q \in Requests : req[q].pc = "planned" => \A w \in req[q].todo :
        req[q].seen[w].method = "stripe" => row[w].ref # NoRef

\* The rows a request is going to write the status of, from its copies.
Copied(q) == CASE req[q].pc = "marking"  -> req[q].todo
               [] req[q].pc = "answered" -> {req[q].cur}
               [] OTHER                  -> {}

\* A copy of a row that is due says so, unless a transfer of it was reversed.
DueSeen ==
    \A q \in Requests : \A w \in Copied(q) :
        Unreversed(w) /\ row[w].status = "due" => req[q].seen[w].status = "due"

Books == TypeOK /\ Grounded /\ Recorded /\ PlanSees /\ DueSeen

\* A request only moves in a step of its own, as Follows says.
LEMMA RequestMoves ==
    ASSUME TypeOK, [Next]_vars, NEW q \in Requests, req'[q] # req[q]
    PROVE  Office(q) /\ Follows(q, req'[q])
<1>1. PICK s \in Requests : Office(s)
  <2>1. req' # req
    OBVIOUS
  <2> QED BY <2>1 DEF Next, vars, WorkChanges, GenerateRead, GenerateWrite, ChooseRail, Reverse,
                      ReversalWebhook, DayPasses
<1>2. s = q
  BY <1>1, OfficeMoves DEF TypeOK
<1> QED BY <1>1, <1>2, OfficeMoves

\* Money leaves only for a row of the request that asks for it.
LEMMA PaysWhatItHolds ==
    ASSUME TypeOK, [Next]_vars, NEW w \in Work, NEW id \in TransferIds,
           paidFor[id] # w, paidFor'[id] = w
    PROVE  \E q \in Requests : req[q].pc = "sending" /\ w \in req[q].todo
<1>1. PICK q \in Requests : TransferOk(q) \/ TransferLost(q)
  <2>1. paidFor' # paidFor
    OBVIOUS
  <2> QED BY <2>1 DEF Next, Office, vars, stripe, WorkChanges, GenerateRead, GenerateWrite,
                      ChooseRail, Mark, MarkCommit, SendList, SendManual, BeginMark, SendPlan,
                      SendRefuse, SendStamp, TransferRefused, RecordPaid, RecordRefused, Crash,
                      Reverse, ReversalWebhook, DayPasses
<1>2. PICK v \in req[q].todo, new \in TransferIds : StripeTransfers(new, v, row[v].ref)
  BY <1>1 DEF TransferOk, TransferLost, stripe
<1>3. paidFor' = [paidFor EXCEPT ![new] = v]
  BY <1>2 DEF StripeTransfers, stripe
<1>4. v = w
  BY <1>3 DEF TypeOK
<1> QED BY <1>1, <1>2, <1>4 DEF TransferOk, TransferLost

\* What Stripe holds for a row, and what came home, only grows.
LEMMA TransfersGrow ==
    ASSUME TypeOK, Grounded, [Next]_vars, NEW w \in Work
    PROVE  Transfers(w) \subseteq Transfers(w)' /\ (Unreversed(w)' => Unreversed(w))
<1>1. CASE \E q \in Requests : TransferOk(q) \/ TransferLost(q)
  <2>1. PICK q \in Requests : TransferOk(q) \/ TransferLost(q)
    BY <1>1
  <2>2. CASE UNCHANGED stripe
    BY <2>2 DEF stripe, Transfers, Unreversed
  <2>3. CASE \E v \in req[q].todo, id \in TransferIds : StripeTransfers(id, v, row[v].ref)
    <3>1. PICK v \in Work, id \in TransferIds : StripeTransfers(id, v, row[v].ref)
      BY <2>3 DEF TypeOK, Request
    <3>2. /\ \A other \in TransferIds : paidFor[other] # NoWork => paidFor'[other] = paidFor[other]
          /\ reversed' = reversed
      BY <3>1, TransferIsOurs
    <3>3. w # NoWork
      BY SentinelAssumption
    <3> QED BY <3>2, <3>3 DEF Transfers, Unreversed
  <2> QED BY <2>1, <2>2, <2>3 DEF TransferOk, TransferLost
<1>2. CASE paidFor' = paidFor /\ reversed \subseteq reversed'
  BY <1>2 DEF Transfers, Unreversed
<1> QED BY <1>1, <1>2
        DEF Next, Office, vars, stripe, WorkChanges, GenerateRead, GenerateWrite, ChooseRail, Mark,
            MarkCommit, SendList, SendManual, BeginMark, SendPlan, SendRefuse, SendStamp,
            TransferRefused, RecordPaid, RecordRefused, Crash, Reverse, ReversalWebhook, DayPasses

\* Nothing is picked, or paid, that is not on the books.
LEMMA RecordedStep ==
    ASSUME TypeOK, Grounded, Recorded, [Next]_vars
    PROVE  Recorded'
<1>0. TypeOK'
  BY TypeStep
<1>1. ASSUME NEW q \in Requests, NEW w \in req'[q].todo
      PROVE  Exists(w)'
  <2>1. w \in Work
    BY <1>0, <1>1 DEF TypeOK, Request
  <2>2. Exists(w)
    BY <1>1, RequestMoves DEF Recorded, Follows
  <2> QED BY <2>1, <2>2, RowsStay
<1>2. ASSUME NEW q \in Requests, req'[q].pc = "answered"
      PROVE  req'[q].cur \in req'[q].todo
  BY <1>2, RequestMoves DEF Recorded, Follows
<1>3. ASSUME NEW w \in Work, ~Exists(w)', NEW id \in TransferIds, paidFor'[id] = w
      PROVE  FALSE
  <2>1. ~Exists(w)
    BY <1>3, RowsStay
  <2>2. paidFor[id] # w
    BY <2>1 DEF Recorded, Transfers
  <2> QED BY <1>3, <2>1, <2>2, PaysWhatItHolds DEF Recorded
<1> QED BY <1>1, <1>2, <1>3 DEF Recorded, Transfers

\* A plan does not lose the reference it found.
LEMMA PlanSeesStep ==
    ASSUME TypeOK, Recorded, PlanSees, [Next]_vars
    PROVE  PlanSees'
<1> SUFFICES ASSUME NEW q \in Requests, req'[q].pc = "planned", NEW w \in req'[q].todo,
                    req'[q].seen[w].method = "stripe"
             PROVE  row'[w].ref # NoRef
  BY DEF PlanSees
<1>1. CASE req'[q] = req[q]
  <2>1. w \in Work /\ Exists(w) /\ row[w].ref # NoRef
    BY <1>1 DEF TypeOK, Request, Recorded, PlanSees
  <2> QED BY <2>1, RefsStay
<1>2. CASE req'[q] # req[q]
  BY <1>2, RequestMoves DEF Follows, Unclear
<1> QED BY <1>1, <1>2

\* Nor does a copy of a due row grow old, unless the row was settled since and
\* its money came home.
LEMMA DueSeenStep ==
    ASSUME TypeOK, Grounded, Recorded, DueSeen, [Next]_vars
    PROVE  DueSeen'
<1> SUFFICES ASSUME NEW q \in Requests, NEW w \in Copied(q)',
                    Unreversed(w)', row'[w].status = "due"
             PROVE  req'[q].seen[w].status = "due"
  BY DEF DueSeen
<1>1. CASE req'[q] = req[q]
  <2>1. w \in Copied(q) /\ w \in req[q].todo
    BY <1>1 DEF Copied, Recorded
  <2>2. w \in Work /\ Exists(w) /\ row[w] \in Row
    BY <2>1 DEF TypeOK, Request, Recorded
  <2>3. Unreversed(w)
    BY <2>2, TransfersGrow
  <2>4. row[w].ref \notin reversed
    BY <2>2, <2>3, SentinelAssumption
       DEF TypeOK, Grounded, ReferenceIsOurs, Unreversed, Transfers
  <2>5. row[w].status = "due"
    BY <2>2, <2>4, BackInBatchStep DEF Exists
  <2> QED BY <1>1, <2>1, <2>3, <2>5 DEF DueSeen
<1>2. CASE req'[q] # req[q]
  <2>1. Follows(q, req'[q])
    BY <1>2, RequestMoves
  <2>2. CASE req'[q].pc = "marking"
    BY <2>1, <2>2 DEF Follows, Copied
  <2>3. CASE req'[q].pc = "answered"
    BY <2>1, <2>3 DEF Follows, Copied
  <2> QED BY <2>2, <2>3 DEF Copied
<1> QED BY <1>1, <1>2

\* These facts hold in every reachable state.
LEMMA BooksInvariant == Spec => []Books
<1>1. Init => Recorded /\ PlanSees /\ DueSeen
  <2> SUFFICES ASSUME Init PROVE Recorded /\ PlanSees /\ DueSeen
    OBVIOUS
  <2>1. \A q \in Requests : req[q].pc = "idle" /\ req[q].todo = {}
    BY IdleIs DEF Init
  <2>2. \A w \in Work : Transfers(w) = {}
    BY SentinelAssumption DEF Init, Transfers
  <2> QED BY <2>1, <2>2 DEF Recorded, PlanSees, DueSeen, Copied
<1>2. TypeOK /\ Grounded /\ Recorded /\ [Next]_vars => Recorded'
  BY RecordedStep
<1>3. TypeOK /\ Recorded /\ PlanSees /\ [Next]_vars => PlanSees'
  BY PlanSeesStep
<1>4. TypeOK /\ Grounded /\ Recorded /\ DueSeen /\ [Next]_vars => DueSeen'
  BY DueSeenStep
<1> QED BY <1>1, <1>2, <1>3, <1>4, GroundedInvariant, PTL DEF Spec, Books

\* What a call to Stripe does to the transfers of a row.
LEMMA TransferEffect ==
    ASSUME TypeOK, NEW w \in Work, NEW id \in TransferIds, StripeTransfers(id, w, row[w].ref),
           Grounded
    PROVE  /\ \A v \in Work \ {w} : Transfers(v)' = Transfers(v) /\ Unreversed(v)' = Unreversed(v)
           /\ Unreversed(w)' => Unreversed(w)
           /\ Transfers(w) = {} => Transfers(w)' = {id}
<1>1. CASE [work |-> w, ref |-> row[w].ref, id |-> id] \in keys /\ UNCHANGED stripe
  <2>1. id \in Transfers(w)
    BY <1>1 DEF Transfers, Grounded
  <2> QED BY <1>1, <2>1 DEF Transfers, Unreversed, stripe
<1>2. CASE paidFor[id] = NoWork /\ paidFor' = [paidFor EXCEPT ![id] = w] /\ reversed' = reversed
  BY <1>2, SentinelAssumption DEF TypeOK, Transfers, Unreversed
<1> QED BY <1>1, <1>2 DEF StripeTransfers


-----------------------------------------------------------------------------
(* Nobody is paid twice, whatever overlaps *)

\* What a send may stamp: owed, and no other send is at it or never heard back.
Payable(r) == r.status = "due" /\ ~Unclear(r)

\* A send stamps a row that another send has stamped, or somebody has settled,
\* since it looked.
StampsTooLate ==
    \E q \in Requests : SendStamp(q) /\ \E w \in req[q].todo : ~Payable(row[w])

\* The rows a send has stamped and not come back about yet.
InHand(q) == IF req[q].pc \in {"sending", "answered"} THEN req[q].todo ELSE {}

\* The row whose transfer it has the id of.
Reported(q, w) == req[q].pc = "answered" /\ req[q].answer # NoRef /\ req[q].cur = w

\* A row whose money is out, or about to be, is not sent again; one send at a time
\* has it in hand, and until that hears back nothing was sent for it.
RowSafe(w) == Unreversed(w) =>
    /\ Transfers(w) # {} \/ (\E q \in Requests : w \in InHand(q)) => ~Payable(row[w])
    /\ \A q, s \in Requests : w \in InHand(q) /\ w \in InHand(s) => q = s
    /\ \A q \in Requests : w \in InHand(q) => Transfers(w) = {} \/ Reported(q, w)
    /\ \A id, other \in Transfers(w) : id = other

\* A stamp stays until its row is settled or its own send takes it off.
LEMMA StampStays ==
    ASSUME Books, Next, NEW w \in Work, Exists(w), Unreversed(w), ~Payable(row[w]),
           \A q \in Requests : RecordRefused(q) => req[q].cur # w
    PROVE  ~Payable(row'[w])
<1>0. TypeOK /\ Grounded /\ row[w] \in Row /\ row[w].status # "absent"
  BY DEF Books, TypeOK, Exists
<1>1. CASE row'[w] = row[w]
  BY <1>1
<1>2. ASSUME NEW q \in Requests, MarkCommit(q), w \in req[q].todo
      PROVE  row'[w].status # "due"
  <2>1. /\ req[q].seen[w] \in Row /\ req[q].to \in {"sent", "paid", "void"}
        /\ row'[w] = Flush(row[w], req[q].seen[w], Marked(req[q].seen[w], req[q].to))
    BY <1>0, <1>2 DEF MarkCommit, TypeOK, Request
  <2>2. row[w].status = "due" => req[q].seen[w].status = "due"
    BY <1>2 DEF Books, DueSeen, Copied, MarkCommit
  <2>3. Marked(req[q].seen[w], req[q].to).status = req[q].to
    BY <2>1 DEF Marked, Row
  <2> QED BY <2>1, <2>2, <2>3 DEF Flush
<1>3. ASSUME NEW q \in Requests, SendStamp(q)
      PROVE  ~Payable(row'[w])
  <2>1. req[q].seen[w] \in Row
    BY <1>0 DEF TypeOK, Request
  <2>2. /\ row'[w].status = row[w].status /\ row'[w].ref = row[w].ref
        /\ row'[w].method \in {row[w].method, "stripe"}
    BY <1>0, <1>3, <2>1 DEF SendStamp, Flush, Row
  <2> QED BY <2>2 DEF Payable, Unclear
<1>4. ASSUME NEW q \in Requests, RecordPaid(q), req[q].cur = w, row'[w] # row[w]
      PROVE  row'[w].status # "due"
  <2>1. row'[w] = Flush(row[w], req[q].seen[w],
                        [status |-> "paid", method |-> "stripe", ref |-> req[q].answer])
    BY <1>0, <1>4 DEF RecordPaid, TypeOK
  <2>2. row[w].status = "due" => req[q].seen[w].status = "due"
    BY <1>4 DEF Books, DueSeen, Copied, RecordPaid
  <2> QED BY <2>1, <2>2 DEF Flush
<1>5. CASE \E id \in TransferIds : ReversalWebhook(id)
  <2>1. PICK id \in TransferIds : ReversalWebhook(id)
    BY <1>5
  <2>2. row[w].ref # id
    BY <1>0, <2>1, SentinelAssumption
       DEF ReversalWebhook, Grounded, ReferenceIsOurs, Unreversed, Transfers
  <2> QED BY <1>1, <2>1, <2>2 DEF ReversalWebhook
<1>6. CASE \E g \in Generators : GenerateWrite(g)
  BY <1>1, <1>6 DEF GenerateWrite
<1>7. ASSUME NEW q \in Requests, MarkCommit(q) \/ RecordPaid(q) \/ RecordRefused(q)
      PROVE  ~Payable(row'[w])
  <2>1. CASE MarkCommit(q)
    BY <1>1, <1>2, <2>1 DEF MarkCommit, Payable
  <2>2. CASE RecordPaid(q)
    BY <1>0, <1>1, <1>4, <2>2 DEF RecordPaid, Payable, TypeOK
  <2>3. CASE RecordRefused(q)
    BY <1>0, <1>1, <2>3 DEF RecordRefused, TypeOK
  <2> QED BY <1>7, <2>1, <2>2, <2>3
<1>8. CASE UNCHANGED row
  BY <1>1, <1>8
<1> QED BY <1>3, <1>5, <1>6, <1>7, <1>8
        DEF Next, Office, WorkChanges, GenerateRead, ChooseRail, Mark, SendList, SendManual,
            BeginMark, SendPlan, SendRefuse, TransferOk, TransferRefused, TransferLost, Crash,
            Reverse, DayPasses

\* A step that pays nothing for a row, and takes it into nobody's hand.
LEMMA RowKept ==
    ASSUME NEW w \in Work, Books, RowSafe(w), Next, Transfers(w)' = Transfers(w),
           \A q \in Requests : RecordRefused(q) => req[q].cur # w,
           \A q \in Requests : w \in InHand(q)' =>
               w \in InHand(q) /\ (Reported(q, w) => Reported(q, w)')
    PROVE  RowSafe(w)'
<1> SUFFICES ASSUME Unreversed(w)'
             PROVE  /\ Transfers(w) # {} \/ (\E q \in Requests : w \in InHand(q)') =>
                          ~Payable(row'[w])
                    /\ \A q, s \in Requests : w \in InHand(q)' /\ w \in InHand(s)' => q = s
                    /\ \A q \in Requests : w \in InHand(q)' =>
                          Transfers(w) = {} \/ Reported(q, w)'
                    /\ \A id, other \in Transfers(w) : id = other
  BY DEF RowSafe
<1>1. Unreversed(w)
  BY TransfersGrow DEF Books
<1>2. Transfers(w) # {} \/ (\E q \in Requests : w \in InHand(q)) => Exists(w)
  BY DEF Books, Recorded, InHand
<1> QED BY <1>1, <1>2, StampStays DEF RowSafe

\* The stamp is on when the money may leave.
LEMMA StampTakesHold ==
    ASSUME NEW w \in Work, Books, RowSafe(w), NEW q \in Requests, SendStamp(q),
           w \in req[q].todo, ~StampsTooLate
    PROVE  RowSafe(w)'
<1>0. /\ TypeOK /\ Grounded /\ row[w] \in Row /\ req[q].seen[w] \in Row
      /\ req[q].pc = "planned" /\ UNCHANGED stripe
      /\ req' = [req EXCEPT ![q] = At("sending", req[q].todo)]
      /\ row'[w] = Flush(row[w], req[q].seen[w], [req[q].seen[w] EXCEPT !.method = "stripe"])
  BY DEF Books, TypeOK, Request, SendStamp
<1>1. Payable(row[w])
  BY DEF StampsTooLate
<1>2. Transfers(w)' = Transfers(w) /\ Unreversed(w)' = Unreversed(w)
  BY <1>0 DEF stripe, Transfers, Unreversed
<1> SUFFICES ASSUME Unreversed(w) PROVE RowSafe(w)'
  BY <1>2 DEF RowSafe
<1>3. Transfers(w) = {} /\ \A s \in Requests : w \notin InHand(s)
  BY <1>1 DEF RowSafe
<1>4. row[w].ref = NoRef
  BY <1>0, <1>3 DEF Grounded, ReferenceIsOurs, Transfers, Row, Refs
<1>5. row'[w].method = "stripe" /\ row'[w].ref = NoRef
  <2>1. req[q].seen[w].method # "stripe"
    BY <1>0, <1>4 DEF Books, PlanSees
  <2> QED BY <1>0, <1>4, <2>1 DEF Flush, Row
<1>6. ~Payable(row'[w])
  BY <1>5 DEF Payable, Unclear
<1>7. \A s \in Requests : w \in InHand(s)' => s = q
  BY <1>0, <1>3 DEF TypeOK, InHand
<1> QED BY <1>2, <1>3, <1>6, <1>7 DEF RowSafe

\* A refusal takes the stamp off a row nothing was sent for.
LEMMA RefusalLetsGo ==
    ASSUME NEW w \in Work, Books, RowSafe(w), NEW q \in Requests, RecordRefused(q),
           req[q].cur = w
    PROVE  RowSafe(w)'
<1>0. /\ TypeOK /\ req[q].pc = "answered" /\ req[q].answer = NoRef /\ w \in req[q].todo
      /\ req' = [req EXCEPT ![q] = Continue(req[q].todo \ {w})] /\ UNCHANGED stripe
  BY DEF RecordRefused, Books, Recorded
<1>1. Transfers(w)' = Transfers(w) /\ Unreversed(w)' = Unreversed(w)
  BY <1>0 DEF stripe, Transfers, Unreversed
<1> SUFFICES ASSUME Unreversed(w) PROVE RowSafe(w)'
  BY <1>1 DEF RowSafe
<1>2. w \in InHand(q) /\ ~Reported(q, w)
  BY <1>0 DEF InHand, Reported
<1>3. Transfers(w) = {} /\ \A s \in Requests : w \in InHand(s) => s = q
  BY <1>2 DEF RowSafe
<1>4. w \notin Continue(req[q].todo \ {w}).todo
  BY AtIs, IdleIs DEF Continue
<1>5. \A s \in Requests : w \notin InHand(s)'
  BY <1>0, <1>3, <1>4 DEF TypeOK, InHand
<1> QED BY <1>1, <1>3, <1>5 DEF RowSafe

\* Money leaves once for a row in hand, whether its send hears so or not.
LEMMA PaymentIsTheFirst ==
    ASSUME NEW w \in Work, Books, RowSafe(w), [Next]_vars, Transfers(w)' # Transfers(w)
    PROVE  RowSafe(w)'
<1>0. TypeOK /\ Grounded /\ row[w] \in Row
  BY DEF Books, TypeOK
<1>1. PICK new \in TransferIds : paidFor[new] # w /\ paidFor'[new] = w
  BY <1>0, TransfersGrow DEF Transfers
<1>2. PICK q \in Requests : TransferOk(q) \/ TransferLost(q)
  <2>1. paidFor' # paidFor
    BY <1>1
  <2> QED BY <2>1 DEF Next, Office, vars, stripe, WorkChanges, GenerateRead, GenerateWrite,
                      ChooseRail, Mark, MarkCommit, SendList, SendManual, BeginMark, SendPlan,
                      SendRefuse, SendStamp, TransferRefused, RecordPaid, RecordRefused, Crash,
                      Reverse, ReversalWebhook, DayPasses
<1>3. req[q].pc = "sending" /\ row' = row
  BY <1>2 DEF TransferOk, TransferLost
<1>4. PICK v \in req[q].todo, id \in TransferIds :
        /\ StripeTransfers(id, v, row[v].ref)
        /\ \/ req' = [req EXCEPT ![q] = Answered(q, v, id)]
           \/ req' = [req EXCEPT ![q] = Continue(req[q].todo \ {v})]
  BY <1>1, <1>2 DEF TransferOk, TransferLost, stripe
<1>5. v \in Work
  BY <1>0 DEF TypeOK, Request
<1>6. v = w
  BY <1>0, <1>1, <1>4, <1>5, TransferEffect DEF Transfers
<1> SUFFICES ASSUME Unreversed(w)' PROVE RowSafe(w)'
  BY DEF RowSafe
<1>7. Unreversed(w)
  BY <1>0, TransfersGrow
<1>8. w \in InHand(q) /\ ~Reported(q, w)
  BY <1>3, <1>4, <1>6 DEF InHand, Reported
<1>9. /\ Transfers(w) = {} /\ ~Payable(row[w])
      /\ \A s \in Requests : w \in InHand(s) => s = q
  BY <1>7, <1>8 DEF RowSafe
<1>10. Transfers(w)' = {id}
  BY <1>0, <1>4, <1>6, <1>9, TransferEffect
<1>11. \A s \in Requests \ {q} : w \notin InHand(s)'
  BY <1>0, <1>4, <1>9 DEF TypeOK, InHand
<1>12. w \in InHand(q)' => Reported(q, w)'
  <2>1. CASE req' = [req EXCEPT ![q] = Answered(q, v, id)]
    <3>1. Answered(q, v, id).pc = "answered" /\ Answered(q, v, id).answer = id
          /\ Answered(q, v, id).cur = v
      BY DEF Answered, At, Idle
    <3>2. req'[q] = Answered(q, v, id)
      BY <1>0, <2>1 DEF TypeOK
    <3> QED BY <1>6, <3>1, <3>2, SentinelAssumption DEF Reported
  <2>2. CASE req' = [req EXCEPT ![q] = Continue(req[q].todo \ {v})]
    <3>1. v \notin Continue(req[q].todo \ {v}).todo
      BY AtIs, IdleIs DEF Continue
    <3>2. req'[q] = Continue(req[q].todo \ {v})
      BY <1>0, <2>2 DEF TypeOK
    <3> QED BY <1>6, <3>1, <3>2 DEF InHand
  <2> QED BY <1>4, <2>1, <2>2
<1> QED BY <1>3, <1>9, <1>10, <1>11, <1>12 DEF RowSafe

\* Every step but a late stamp keeps a row safe.
LEMMA RowStep ==
    ASSUME NEW w \in Work, Books, RowSafe(w), Next, ~StampsTooLate
    PROVE  RowSafe(w)'
<1>0. TypeOK
  BY DEF Books
<1>1. CASE \E q \in Requests : SendStamp(q) /\ w \in req[q].todo
  BY <1>1, StampTakesHold
<1>2. CASE \E q \in Requests : RecordRefused(q) /\ req[q].cur = w
  BY <1>2, RefusalLetsGo
<1>3. CASE Transfers(w)' # Transfers(w)
  BY <1>3, PaymentIsTheFirst
<1>4. ASSUME ~\E q \in Requests : SendStamp(q) /\ w \in req[q].todo,
             NEW q \in Requests, w \in InHand(q)'
      PROVE  w \in InHand(q) /\ (Reported(q, w) => Reported(q, w)')
  <2>1. CASE req'[q] = req[q]
    BY <1>4, <2>1 DEF InHand, Reported
  <2>2. CASE req'[q] # req[q]
    <3>1. Office(q) /\ Follows(q, req'[q])
      BY <1>0, <2>2, RequestMoves
    <3>2. CASE req'[q].pc = "answered"
      BY <1>4, <3>1, <3>2 DEF Follows, InHand, Reported
    <3>3. CASE req'[q].pc = "sending"
      <4>1. w \in req[q].todo /\ req[q].pc \in {"sending", "answered"}
        BY <1>4, <3>1, <3>3 DEF Follows, InHand
      <4>2. ASSUME Reported(q, w)
            PROVE  FALSE
        <5>1. req[q].pc = "answered" /\ req[q].answer # NoRef /\ req[q].cur = w
          BY <4>2 DEF Reported
        <5>2. RecordPaid(q) \/ Crash(q)
          BY <3>1, <5>1 DEF Office, Mark, MarkCommit, SendList, SendManual, SendPlan, SendRefuse,
                            SendStamp, TransferOk, TransferRefused, TransferLost, RecordRefused
        <5>3. req'[q] \in {Idle, Continue(req[q].todo \ {w})}
          BY <1>0, <5>1, <5>2 DEF RecordPaid, Crash, TypeOK
        <5>4. w \notin Continue(req[q].todo \ {w}).todo /\ Idle.todo = {}
          BY AtIs, IdleIs DEF Continue
        <5> QED BY <1>4, <3>3, <5>3, <5>4 DEF InHand
      <4> QED BY <4>1, <4>2 DEF InHand
    <3> QED BY <1>4, <3>2, <3>3 DEF InHand
  <2> QED BY <2>1, <2>2
<1> QED BY <1>1, <1>2, <1>3, <1>4, RowKept

RowsSafe == \A w \in Work : RowSafe(w)

\* So it keeps them all safe.
LEMMA RowsStep ==
    ASSUME Books, RowsSafe, [Next]_vars, [~StampsTooLate]_vars
    PROVE  RowsSafe'
<1>1. CASE UNCHANGED vars
  BY <1>1 DEF vars, RowsSafe, RowSafe, Transfers, Unreversed, InHand, Reported
<1>2. CASE Next /\ ~StampsTooLate
  BY <1>2, RowStep DEF RowsSafe
<1> QED BY <1>1, <1>2 DEF vars, Next, StampsTooLate, SendStamp

\* So every row stays safe as long as no send stamps too late.
LEMMA RowsAreSafe ==
    Spec /\ [][~StampsTooLate]_vars => [](Books /\ RowsSafe)
<1>1. Init => RowsSafe
  <2> SUFFICES ASSUME Init, NEW w \in Work PROVE RowSafe(w)
    BY DEF RowsSafe
  <2>1. Transfers(w) = {} /\ \A q \in Requests : InHand(q) = {}
    BY SentinelAssumption, IdleIs DEF Init, Transfers, InHand
  <2> QED BY <2>1 DEF RowSafe
<1>2. Books /\ RowsSafe /\ [Next]_vars /\ [~StampsTooLate]_vars => RowsSafe'
  BY RowsStep
<1> QED BY <1>1, <1>2, BooksInvariant, PTL DEF Spec

\* Nobody is paid twice for a job as long as none of its money came home ("THE THING
\* THIS FILE IS MOST CAREFUL ABOUT is not paying twice"), for any number of rows,
\* transfers and overlapping sends, marks and generates, through crashes, lost
\* answers, retries and forgotten keys: it takes a send that stamps a row which
\* another send has stamped, or somebody has settled, since it looked.
THEOREM NobodyIsPaidTwice == Spec /\ [][~StampsTooLate]_vars => []PaidOnceUnlessReversed
<1>1. RowsSafe => PaidOnceUnlessReversed
  BY DEF RowsSafe, RowSafe, PaidOnceUnlessReversed
<1> QED BY <1>1, RowsAreSafe, PTL

\* Money whose answer was lost is refused by the next send and reported, never
\* sent again, on the same condition.
THEOREM LostMoneyStaysRefused == Spec /\ [][~StampsTooLate]_vars => []UnlearnedIsRefused
<1>1. RowsSafe => UnlearnedIsRefused
  BY DEF RowsSafe, RowSafe, UnlearnedIsRefused, Payable
<1> QED BY <1>1, RowsAreSafe, PTL

-----------------------------------------------------------------------------
(* The handlers implement the ledger of PayoutLedger, whatever overlaps *)

\* The loop of a send pays for a row that somebody has settled since the stamp.
PaysTooLate == \E w \in Work : Transfers(w)' # Transfers(w) /\ row[w].status # "due"

\* What the ledger of PayoutLedger sees of a step that moves no money.
LEMMA EntriesMove ==
    ASSUME NEW W \in SUBSET Work, NEW from, NEW to,
           \A w \in W : Entry(row[w]) = from,
           \A w \in Work : Entry(row'[w]) = IF w \in W THEN to ELSE Entry(row[w]),
           UNCHANGED <<paidFor, reversed>>
    PROVE  Ledger!Moves(W, from, to)
BY DEF Ledger!Moves, Transfers

\* Entries that keep their meaning are a stuttering step of it.
LEMMA EntriesStay ==
    ASSUME \A w \in Work : Entry(row'[w]) = Entry(row[w]), UNCHANGED <<paidFor, reversed>>
    PROVE  UNCHANGED Ledger!ledger
BY DEF Ledger!ledger, Transfers

\* Entries that were open may be settled; the others stay.
LEMMA EntriesSettle ==
    ASSUME \A w \in Work : \/ Entry(row'[w]) = Entry(row[w])
                           \/ Entry(row[w]) = "open" /\ Entry(row'[w]) = "closed",
           UNCHANGED <<paidFor, reversed>>
    PROVE  Ledger!Next
<1> DEFINE W == {w \in Work : Entry(row[w]) = "open" /\ Entry(row'[w]) = "closed"}
<1>1. /\ \A w \in W : Entry(row[w]) = "open"
      /\ \A w \in Work : Entry(row'[w]) = IF w \in W THEN "closed" ELSE Entry(row[w])
  OBVIOUS
<1>2. W \in SUBSET Work
  OBVIOUS
<1> HIDE DEF W
<1>3. Ledger!Moves(W, "open", "closed")
  BY <1>1, <1>2, EntriesMove
<1> QED BY <1>2, <1>3 DEF Ledger!Next, Ledger!Settle

\* Stripe's answer to a call for a due row nothing is out for is a payment, or a
\* Stripe's answer to a call for a row nothing is out for, if it is still due, is a
\* payment, or a replay the ledger does not see.
LEMMA TransferPays ==
    ASSUME TypeOK, Grounded, NEW w \in Work, NEW id \in TransferIds,
           StripeTransfers(id, w, row[w].ref), row' = row, ~PaysTooLate,
           Unreversed(w) => Transfers(w) = {}
    PROVE  Ledger!Pay(w, id) \/ UNCHANGED Ledger!ledger
<1>1. CASE UNCHANGED stripe
  BY <1>1, EntriesStay DEF stripe
<1>2. CASE paidFor[id] = NoWork /\ paidFor' = [paidFor EXCEPT ![id] = w] /\ reversed' = reversed
  <2> DEFINE made == [v \in Work |-> Transfers(v)]
  <2>1. \A v \in Work : Transfers(v)' = IF v = w THEN Transfers(v) \cup {id} ELSE Transfers(v)
    BY <1>2, SentinelAssumption DEF Transfers, TypeOK
  <2>2. made[w] = {} \/ made[w] \cap reversed # {}
    BY DEF Unreversed
  <2>3. \A v \in Work : id \notin Transfers(v)
    BY <1>2, SentinelAssumption DEF Transfers
  <2>4. row[w].status = "due"
    BY <2>1, <2>3 DEF PaysTooLate
  <2>5. Entry(row[w]) = "open"
    BY <2>4 DEF Entry
  <2>6. made' = [made EXCEPT ![w] = @ \cup {id}]
    <3>1. made' = [v \in Work |-> Transfers(v)']
      OBVIOUS
    <3> QED BY <2>1, <3>1
  <2>7. [v \in Work |-> Entry(row[v])]' = [v \in Work |-> Entry(row[v])]
    OBVIOUS
  <2> QED BY <1>2, <2>2, <2>3, <2>5, <2>6, <2>7 DEF Ledger!Pay, Ledger!CameHome
<1> QED BY <1>1, <1>2 DEF StripeTransfers

\* A step of the office is a step of the ledger or none.
LEMMA OfficeImplements ==
    ASSUME Books, RowsSafe, ~PaysTooLate, NEW q \in Requests, Office(q)
    PROVE  Ledger!Next \/ UNCHANGED Ledger!ledger
<1>0. /\ req[q] \in Request /\ req[q].todo \in SUBSET Work /\ req[q].seen \in [Work -> Row]
      /\ row \in [Work -> Row] /\ TypeOK /\ Grounded
  BY DEF Books, TypeOK, Request
<1>1. CASE UNCHANGED <<row, paidFor, reversed>>
  BY <1>1, EntriesStay
<1>2. CASE MarkCommit(q)
  <2>1. UNCHANGED <<paidFor, reversed>> /\ req[q].to \in {"sent", "paid", "void"}
    BY <1>0, <1>2 DEF MarkCommit, stripe, TypeOK, Request
  <2>2. ASSUME NEW w \in Work
        PROVE  \/ Entry(row'[w]) = Entry(row[w])
               \/ Entry(row[w]) = "open" /\ Entry(row'[w]) = "closed"
    <3>1. CASE w \notin req[q].todo
      BY <1>2, <3>1 DEF MarkCommit
    <3>2. CASE w \in req[q].todo
      <4>1. row'[w] = Flush(row[w], req[q].seen[w], Marked(req[q].seen[w], req[q].to))
        BY <1>2, <3>2 DEF MarkCommit
      <4>2. row[w].status # "absent"
        BY <1>2, <3>2 DEF Books, Recorded, Exists
      <4>3. row'[w].status \in {row[w].status, req[q].to}
        BY <1>0, <4>1 DEF Flush, Marked, Row
      <4> QED BY <1>0, <2>1, <4>2, <4>3 DEF Entry, Row, Statuses
    <3> QED BY <3>1, <3>2
  <2> QED BY <2>1, <2>2, EntriesSettle
<1>3. CASE SendStamp(q)
  <2>1. UNCHANGED <<paidFor, reversed>>
    BY <1>3 DEF SendStamp, stripe
  <2>2. ASSUME NEW w \in Work
        PROVE  Entry(row'[w]) = Entry(row[w])
    <3>1. row'[w].status = row[w].status
      BY <1>0, <1>3 DEF SendStamp, Flush, Row
    <3> QED BY <3>1 DEF Entry
  <2> QED BY <2>1, <2>2, EntriesStay
<1>4. CASE RecordPaid(q) \/ RecordRefused(q)
  <2> DEFINE w == req[q].cur
  <2>1. w \in Work /\ row[w].status # "absent" /\ UNCHANGED <<paidFor, reversed>>
    BY <1>0, <1>4 DEF RecordPaid, RecordRefused, Books, Recorded, Exists, stripe
  <2>2. \A v \in Work \ {w} : row'[v] = row[v]
    BY <1>0, <1>4, <2>1 DEF RecordPaid, RecordRefused
  <2>3. row'[w].status \in {row[w].status, "paid"}
    <3>1. CASE RecordPaid(q)
      BY <1>0, <2>1, <3>1 DEF RecordPaid, Flush
    <3>2. CASE RecordRefused(q)
      BY <1>0, <2>1, <3>2 DEF RecordRefused, Flush, Row
    <3> QED BY <1>4, <3>1, <3>2
  <2>4. ASSUME NEW v \in Work
        PROVE  \/ Entry(row'[v]) = Entry(row[v])
               \/ Entry(row[v]) = "open" /\ Entry(row'[v]) = "closed"
    <3>1. CASE v = w
      BY <1>0, <2>1, <2>3, <3>1 DEF Entry, Row, Statuses
    <3>2. CASE v # w
      BY <2>2, <3>2
    <3> QED BY <3>1, <3>2
  <2> QED BY <2>1, <2>4, EntriesSettle
<1>5. CASE TransferOk(q) \/ TransferLost(q)
  <2>1. CASE UNCHANGED stripe
    BY <1>1, <1>5, <2>1 DEF TransferOk, TransferLost, stripe
  <2>2. CASE \E w \in req[q].todo, id \in TransferIds : StripeTransfers(id, w, row[w].ref)
    <3>1. PICK w \in req[q].todo, id \in TransferIds : StripeTransfers(id, w, row[w].ref)
      BY <2>2
    <3>2. row' = row /\ req[q].pc = "sending"
      BY <1>5 DEF TransferOk, TransferLost
    <3>3. w \in InHand(q) /\ ~Reported(q, w) /\ w \in Work
      BY <1>0, <3>2 DEF InHand, Reported
    <3>4. Unreversed(w) => Transfers(w) = {}
      BY <3>3 DEF RowsSafe, RowSafe
    <3>5. Ledger!Pay(w, id) \/ UNCHANGED Ledger!ledger
      BY <1>0, <3>1, <3>2, <3>3, <3>4, TransferPays
    <3> QED BY <3>3, <3>5 DEF Ledger!Next
  <2> QED BY <1>5, <2>1, <2>2 DEF TransferOk, TransferLost
<1>6. CASE \/ Mark(q) \/ SendList(q) \/ SendManual(q) \/ SendPlan(q) \/ SendRefuse(q)
         \/ TransferRefused(q) \/ Crash(q)
  BY <1>1, <1>6 DEF Mark, BeginMark, SendList, SendManual, SendPlan, SendRefuse,
                    TransferRefused, Crash, stripe
<1> QED BY <1>2, <1>3, <1>4, <1>5, <1>6 DEF Office

\* Nor does anything else happen that the ledger does not know.
LEMMA LedgerStep ==
    ASSUME Books, RowsSafe, [Next]_vars, [~PaysTooLate]_vars
    PROVE  [Ledger!Next]_(Ledger!ledger)
<1>1. CASE UNCHANGED vars \/ (\E w \in Work : WorkChanges(w)) \/ DayPasses
           \/ (\E g \in Generators : GenerateRead(g))
           \/ (\E name \in {"manual", "stripe"} : ChooseRail(name))
  <2>1. UNCHANGED <<row, paidFor, reversed>>
    BY <1>1 DEF vars, WorkChanges, DayPasses, GenerateRead, ChooseRail, stripe
  <2> QED BY <2>1, EntriesStay
<1>2. CASE \E g \in Generators : GenerateWrite(g)
  <2>1. PICK g \in Generators : GenerateWrite(g)
    BY <1>2
  <2> DEFINE W == {w \in Work : w \in plan[g] /\ ~Exists(w)}
  <2>2. /\ \A w \in W : Entry(row[w]) = "none"
        /\ \A w \in Work : Entry(row'[w]) = IF w \in W THEN "open" ELSE Entry(row[w])
        /\ UNCHANGED <<paidFor, reversed>>
    BY <2>1 DEF GenerateWrite, Exists, Entry, Absent, stripe
  <2>3. W \in SUBSET Work
    OBVIOUS
  <2> HIDE DEF W
  <2>4. Ledger!Moves(W, "none", "open")
    BY <2>2, <2>3, EntriesMove
  <2> QED BY <2>3, <2>4 DEF Ledger!Next, Ledger!Owe
<1>3. CASE \E q \in Requests : Office(q)
  <2>1. CASE ~PaysTooLate
    BY <1>3, <2>1, OfficeImplements
  <2>2. CASE UNCHANGED vars
    BY <2>2, EntriesStay DEF vars
  <2> QED BY <2>1, <2>2
<1>4. CASE \E id \in TransferIds : Reverse(id)
  <2>1. PICK id \in TransferIds : Reverse(id)
    BY <1>4
  <2>2. UNCHANGED <<row, paidFor>> /\ reversed' = reversed \cup {id} /\ paidFor[id] \in Work
    BY <2>1 DEF Reverse, Books, TypeOK
  <2>3. id \in Transfers(paidFor[id]) /\ (\A w : Transfers(w)' = Transfers(w))
    BY <2>2 DEF Transfers
  <2>4. Ledger!Return(id)
    BY <2>2, <2>3 DEF Ledger!Return
  <2> QED BY <2>4 DEF Ledger!Next
<1>5. CASE \E id \in TransferIds : ReversalWebhook(id)
  <2>1. PICK id \in TransferIds : ReversalWebhook(id)
    BY <1>5
  <2> DEFINE W == {w \in Work : row[w].ref = id /\ row[w].status = "paid"}
  <2>2. /\ \A w \in W : Entry(row[w]) = "closed"
        /\ \A w \in Work : Entry(row'[w]) = IF w \in W THEN "open" ELSE Entry(row[w])
        /\ UNCHANGED <<paidFor, reversed>>
    BY <2>1 DEF ReversalWebhook, Books, TypeOK, Row, Entry
  <2>3. \A w \in W : Transfers(w) \cap reversed # {}
    BY <2>1, SentinelAssumption DEF ReversalWebhook, Books, Grounded, ReferenceIsOurs, Transfers
  <2>4. W \in SUBSET Work
    OBVIOUS
  <2> HIDE DEF W
  <2>5. Ledger!Moves(W, "closed", "open")
    BY <2>2, <2>4, EntriesMove
  <2>6. \A w \in W : Ledger!CameHome(w)
    BY <2>3, <2>4 DEF Ledger!CameHome
  <2> QED BY <2>4, <2>5, <2>6 DEF Ledger!Next, Ledger!Reopen
<1> QED BY <1>1, <1>2, <1>3, <1>4, <1>5 DEF Next

\* The requests, Stripe and its webhook together behave like the simple ledger of
\* PayoutLedger, for any number of rows, transfers and overlapping requests and
\* through every crash and lost answer, as long as no send stamps a row that was
\* stamped or settled since it looked, nor pays for one settled since its stamp.
THEOREM LedgerIsKept ==
    Spec /\ [][~StampsTooLate]_vars /\ [][~PaysTooLate]_vars => ImplementsLedger
<1>1. Init => Ledger!Init
  <2> SUFFICES ASSUME Init PROVE Ledger!Init
    OBVIOUS
  <2>1. \A w \in Work : Entry(row[w]) = "none" /\ Transfers(w) = {}
    BY SentinelAssumption DEF Init, Entry, Absent, Transfers
  <2> QED BY <2>1 DEF Init, Ledger!Init
<1>2. Books /\ RowsSafe /\ [Next]_vars /\ [~PaysTooLate]_vars => [Ledger!Next]_(Ledger!ledger)
  BY LedgerStep
<1> QED BY <1>1, <1>2, RowsAreSafe, PTL DEF Spec, ImplementsLedger, Ledger!Spec

-----------------------------------------------------------------------------
(* The statuses move along the table, whatever overlaps *)

\* mark(), or the answer of a send, settles a row whose status changed since it
\* was judged.
JudgesTooLate ==
    \E q \in Requests : /\ MarkCommit(q) \/ RecordPaid(q)
                        /\ \E w \in Work : /\ row'[w].status # row[w].status
                                           /\ req[q].seen[w].status # row[w].status

\* What is being marked was judged, as loaded.
MarksJudged ==
    \A q \in Requests : req[q].pc = "marking" =>
        \A w \in req[q].todo : Markable(req[q].seen[w], req[q].to)

\* A mark keeps to what it judged.
LEMMA MarksJudgedStep ==
    ASSUME TypeOK, MarksJudged, [Next]_vars
    PROVE  MarksJudged'
<1> SUFFICES ASSUME NEW q \in Requests, req'[q].pc = "marking", NEW w \in req'[q].todo
             PROVE  Markable(req'[q].seen[w], req'[q].to)
  BY DEF MarksJudged
<1>1. CASE req'[q] = req[q]
  BY <1>1 DEF MarksJudged
<1>2. CASE req'[q] # req[q]
  BY <1>2, RequestMoves DEF Follows
<1> QED BY <1>1, <1>2

\* What one step may do to the status of a row.
LEMMA StatusStep ==
    ASSUME TypeOK, Grounded, MarksJudged, Next, ~JudgesTooLate,
           NEW w \in Work, row'[w].status # row[w].status
    PROVE  \/ row[w].status = "absent" /\ row'[w].status = "due"
           \/ row'[w].status \in Allowed(row[w].status)
           \/ row[w].status = "paid" /\ row'[w].status = "due" /\ row[w].ref \in reversed
<1>0. row[w] \in Row
  BY DEF TypeOK
<1>1. CASE \E g \in Generators : GenerateWrite(g)
  BY <1>1 DEF GenerateWrite, Exists, Absent
<1>2. CASE \E id \in TransferIds : ReversalWebhook(id)
  BY <1>0, <1>2 DEF ReversalWebhook, Grounded, Row
<1>3. ASSUME NEW q \in Requests, MarkCommit(q)
      PROVE  row'[w].status \in Allowed(row[w].status)
  <2> DEFINE seen == req[q].seen[w]
             to == req[q].to
  <2>1. /\ seen \in Row /\ seen.status = row[w].status
        /\ row'[w] = IF w \in req[q].todo THEN Flush(row[w], seen, Marked(seen, to)) ELSE row[w]
    BY <1>0, <1>3 DEF MarkCommit, TypeOK, Request, JudgesTooLate
  <2>2. Markable(seen, to) /\ row'[w] = Flush(row[w], seen, Marked(seen, to))
    BY <1>3, <2>1 DEF MarksJudged, MarkCommit
  <2>3. Marked(seen, to).status = to
    BY <2>1 DEF Marked, Row
  <2>4. to # seen.status /\ row'[w].status = to
    BY <2>1, <2>2, <2>3 DEF Flush
  <2> QED BY <2>1, <2>2, <2>4 DEF Markable
<1>4. ASSUME NEW q \in Requests, SendStamp(q)
      PROVE  FALSE
  <2>1. req[q].seen[w] \in Row
    BY DEF TypeOK, Request
  <2> QED BY <1>4, <2>1 DEF SendStamp, Flush, Row
<1>5. ASSUME NEW q \in Requests, RecordPaid(q)
      PROVE  row'[w].status \in Allowed(row[w].status)
  <2> DEFINE seen == req[q].seen[w]
             new == [status |-> "paid", method |-> "stripe", ref |-> req[q].answer]
  <2>1. Markable(seen, "paid") /\ row'[w] = Flush(row[w], seen, new)
    BY <1>0, <1>5 DEF RecordPaid, TypeOK
  <2>2. seen.status = row[w].status
    BY <1>5 DEF JudgesTooLate
  <2>3. seen.status # "paid" /\ row'[w].status = "paid"
    BY <2>1, <2>2 DEF Flush
  <2> QED BY <2>1, <2>2, <2>3 DEF Markable
<1>6. ASSUME NEW q \in Requests, RecordRefused(q)
      PROVE  FALSE
  <2>1. req[q].seen \in [Work -> Row]
    BY DEF TypeOK, Request
  <2> QED BY <1>0, <1>6, <2>1 DEF RecordRefused, Flush, Row, TypeOK
<1>7. CASE UNCHANGED row
  BY <1>7
<1> QED BY <1>1, <1>2, <1>3, <1>4, <1>5, <1>6, <1>7
        DEF Next, Office, WorkChanges, GenerateRead, ChooseRail, Mark, SendList, SendManual,
            BeginMark, SendPlan, SendRefuse, TransferOk, TransferRefused, TransferLost, Crash,
            Reverse, DayPasses

\* A row moves along _ALLOWED_TRANSITIONS, and back from paid only when its own
\* transfer came home, for any number of overlapping requests: it takes a mark, or
\* an answer, that settles a row which moved since it was judged.
THEOREM TableIsKept == Spec /\ [][~JudgesTooLate]_vars => StatusOnlyMovesForward
<1> DEFINE Step ==
      \A w \in Work : row'[w].status # row[w].status =>
          \/ row[w].status = "absent" /\ row'[w].status = "due"
          \/ row'[w].status \in Allowed(row[w].status)
          \/ row[w].status = "paid" /\ row'[w].status = "due" /\ row[w].ref \in reversed
<1>1. Init => MarksJudged
  BY DEF Init, MarksJudged, Idle
<1>2. TypeOK /\ MarksJudged /\ [Next]_vars => MarksJudged'
  BY MarksJudgedStep
<1>3. TypeOK /\ Grounded /\ MarksJudged /\ [Next]_vars /\ [~JudgesTooLate]_vars => [Step]_vars
  BY StatusStep
<1> QED BY <1>1, <1>2, <1>3, GroundedInvariant, PTL DEF Spec, StatusOnlyMovesForward

-----------------------------------------------------------------------------
(***************************************************************************)
(* One office request at a time.  Then no step is late: nobody of the      *)
(* office moves a row between the look at it and the write, generating     *)
(* leaves rows that are there alone, and a reversal reopens paid rows      *)
(* only, of which a mark writes nothing.                                   *)
(***************************************************************************)

Unmoved ==
    \A q \in Requests :
        /\ req[q].pc \in {"listed", "sending", "answered"} =>
               \A w \in req[q].todo : row[w].status = "due"
        /\ req[q].pc = "planned" => \A w \in req[q].todo : Payable(row[w])
        /\ req[q].pc = "answered" => req[q].seen[req[q].cur].status = "due"
        /\ req[q].pc = "marking" => \A w \in req[q].todo :
               /\ Markable(req[q].seen[w], req[q].to)
               /\ req[q].seen[w].status \in {row[w].status, "paid"}

\* What else runs leaves due rows alone, and reopens what was paid.
LEMMA OthersLeaveRows ==
    ASSUME TypeOK, [Next]_vars, ~\E q \in Requests : Office(q)
    PROVE  /\ req' = req
           /\ \A w \in Work : \/ row'[w] = row[w]
                              \/ row[w].status \in {"absent", "paid"}
<1>1. req' = req
  BY DEF Next, vars, WorkChanges, GenerateRead, GenerateWrite, ChooseRail, Reverse,
         ReversalWebhook, DayPasses
<1>2. ASSUME NEW w \in Work
      PROVE  row'[w] = row[w] \/ row[w].status \in {"absent", "paid"}
  BY DEF Next, vars, WorkChanges, GenerateRead, GenerateWrite, ChooseRail, Reverse,
         ReversalWebhook, DayPasses, Exists
<1> QED BY <1>1, <1>2

\* The request in flight finds the rows as it left them.
LEMMA UnmovedStep ==
    ASSUME \A s, t \in Requests : s = t, Books, Unmoved, [Next]_vars
    PROVE  Unmoved'
<1>0. TypeOK /\ TypeOK' /\ Recorded
  BY TypeStep DEF Books
<1>1. CASE ~\E q \in Requests : Office(q)
  <2>1. req' = req
    BY <1>0, <1>1, OthersLeaveRows
  <2>2. ASSUME NEW w \in Work, row[w].status = "due"
        PROVE  row'[w] = row[w]
    BY <1>0, <1>1, <2>2, OthersLeaveRows
  <2>3. ASSUME NEW q \in Requests, req[q].pc = "marking", NEW w \in req[q].todo
        PROVE  req[q].seen[w].status \in {row'[w].status, "paid"}
    <3>1. w \in Work /\ row[w].status # "absent" /\ req[q].seen[w].status \in {row[w].status, "paid"}
      BY <1>0, <2>3 DEF TypeOK, Request, Recorded, Exists, Unmoved
    <3> QED BY <1>0, <1>1, <3>1, OthersLeaveRows
  <2>4. \A q \in Requests : \A w \in req[q].todo : w \in Work
    BY <1>0 DEF TypeOK, Request
  <2> QED BY <2>1, <2>2, <2>3, <2>4 DEF Unmoved, Payable
<1>2. ASSUME NEW q \in Requests, Office(q)
      PROVE  Unmoved'
  <2> DEFINE r == req'[q]
  <2>0. /\ Follows(q, r) /\ req' = [req EXCEPT ![q] = r] /\ \A s \in Requests : s = q
        /\ \A w \in r.todo : w \in Work
        /\ \A w \in req[q].todo : w \in Work
        /\ req[q].seen \in [Work -> Row] /\ row \in [Work -> Row]
    BY <1>0, <1>2, OfficeMoves DEF TypeOK, Request
  <2>1. CASE r.pc = "listed"
    BY <2>0, <2>1 DEF Follows, Unmoved
  <2>2. CASE r.pc = "planned"
    <3>1. \A w \in r.todo : Payable(row'[w])
      BY <2>0, <2>2 DEF Follows, Unmoved, Payable
    <3> QED BY <2>0, <2>2, <3>1 DEF Unmoved
  <2>3. CASE r.pc = "answered"
    <3>1. /\ row' = row /\ req[q].pc = "sending" /\ r.todo = req[q].todo
          /\ r.cur \in r.todo /\ r.seen[r.cur] = row[r.cur]
      BY <2>0, <2>3 DEF Follows
    <3>2. \A w \in r.todo : row'[w].status = "due"
      BY <3>1 DEF Unmoved
    <3> QED BY <2>0, <2>3, <3>1, <3>2 DEF Unmoved
  <2>4. CASE r.pc = "marking"
    BY <2>0, <2>4 DEF Follows, Unmoved
  <2>5. CASE r.pc = "sending"
    <3>1. /\ r.todo \subseteq req[q].todo
          /\ req[q].pc \in {"sending", "answered"} \/ SendStamp(q)
      BY <2>0, <2>5 DEF Follows
    <3>2. \A w \in r.todo : row[w].status = "due"
      BY <2>0, <3>1 DEF Unmoved, SendStamp, Payable
    <3>3. ASSUME NEW w \in r.todo
          PROVE  row'[w].status = row[w].status
      <4>0. w \in Work /\ req[q].seen[w] \in Row /\ row[w] \in Row
        BY <2>0, <3>3
      <4>1. CASE SendStamp(q)
        BY <4>0, <4>1 DEF SendStamp, Flush, Row
      <4>2. CASE RecordRefused(q)
        BY <2>0, <4>0, <4>2 DEF RecordRefused, Flush, Row
      <4>3. CASE RecordPaid(q)
        <5>1. r \in {Idle, Continue(req[q].todo \ {req[q].cur})}
          BY <1>0, <4>3 DEF RecordPaid, TypeOK
        <5>2. w # req[q].cur
          BY <2>5, <3>3, <5>1, AtIs, IdleIs DEF Continue
        <5> QED BY <2>0, <4>0, <4>3, <5>2 DEF RecordPaid
      <4>4. CASE row' = row
        BY <4>4
      <4>5. ~MarkCommit(q)
        BY <1>0, <2>5, IdleIs DEF MarkCommit, TypeOK
      <4> QED BY <1>2, <4>1, <4>2, <4>3, <4>4, <4>5
              DEF Office, Mark, SendList, SendManual, BeginMark, SendPlan, SendRefuse, TransferOk,
                  TransferRefused, TransferLost, Crash
    <3> QED BY <2>0, <2>5, <3>2, <3>3 DEF Unmoved
  <2>6. CASE r.pc \in {"idle", "csv"}
    BY <2>0, <2>6 DEF Unmoved
  <2> QED BY <1>0, <2>1, <2>2, <2>3, <2>4, <2>5, <2>6 DEF TypeOK, Request
<1> QED BY <1>1, <1>2

\* So it never writes or pays too late.
LEMMA NothingIsLate ==
    ASSUME Books, Unmoved, Next
    PROVE  ~StampsTooLate /\ ~PaysTooLate /\ ~JudgesTooLate
<1>0. TypeOK /\ Grounded
  BY DEF Books
<1>1. ~StampsTooLate
  BY DEF StampsTooLate, SendStamp, Unmoved
<1>2. ~PaysTooLate
  <2> SUFFICES ASSUME NEW w \in Work, Transfers(w)' # Transfers(w)
               PROVE  row[w].status = "due"
    BY DEF PaysTooLate
  <2>1. PICK id \in TransferIds : paidFor[id] # w /\ paidFor'[id] = w
    BY <1>0, TransfersGrow DEF Transfers
  <2> QED BY <1>0, <2>1, PaysWhatItHolds DEF Unmoved
<1>3. ASSUME NEW q \in Requests, MarkCommit(q) \/ RecordPaid(q), NEW w \in Work,
             row'[w].status # row[w].status, req[q].seen[w].status # row[w].status
      PROVE  FALSE
  <2>0. row \in [Work -> Row] /\ req[q].seen \in [Work -> Row]
    BY <1>0 DEF TypeOK, Request
  <2>1. CASE MarkCommit(q)
    <3>1. /\ w \in req[q].todo /\ req[q].pc = "marking"
          /\ row'[w] = Flush(row[w], req[q].seen[w], Marked(req[q].seen[w], req[q].to))
      BY <1>3, <2>1 DEF MarkCommit
    <3>2. req[q].seen[w].status = "paid" /\ Markable(req[q].seen[w], req[q].to)
      BY <1>3, <3>1 DEF Unmoved
    <3>3. Marked(req[q].seen[w], req[q].to).status = "paid"
      BY <2>0, <3>2 DEF Markable, Allowed, Marked, Row
    <3> QED BY <1>3, <3>1, <3>2, <3>3 DEF Flush
  <2>2. CASE RecordPaid(q)
    <3>1. w = req[q].cur /\ req[q].pc = "answered"
      BY <1>3, <2>0, <2>2 DEF RecordPaid
    <3>2. row[w].status = "due" /\ req[q].seen[w].status = "due"
      BY <3>1 DEF Books, Recorded, Unmoved
    <3> QED BY <1>3, <3>2
  <2> QED BY <1>3, <2>1, <2>2
<1> QED BY <1>1, <1>2, <1>3 DEF JudgesTooLate

\* With one office request in flight at a time no step is ever late.
LEMMA AloneIsNeverLate ==
    ASSUME \A s, t \in Requests : s = t
    PROVE  Spec => /\ [][~StampsTooLate]_vars /\ [][~PaysTooLate]_vars
                   /\ [][~JudgesTooLate]_vars
<1>1. Init => Unmoved
  BY IdleIs DEF Init, Unmoved
<1>2. Books /\ Unmoved /\ [Next]_vars => Unmoved'
  BY UnmovedStep
<1>3. Books /\ Unmoved /\ [Next]_vars =>
        [~StampsTooLate]_vars /\ [~PaysTooLate]_vars /\ [~JudgesTooLate]_vars
  BY NothingIsLate
<1> QED BY <1>1, <1>2, <1>3, BooksInvariant, PTL DEF Spec

\* Then a row none of whose transfers was reversed is paid at most once ...
THEOREM PaidOnce ==
    ASSUME \A s, t \in Requests : s = t
    PROVE  Spec => []PaidOnceUnlessReversed
BY AloneIsNeverLate, NobodyIsPaidTwice, PTL

\* ... money whose answer was lost is refused by the next send and reported ...
THEOREM LostMoneyIsRefused ==
    ASSUME \A s, t \in Requests : s = t
    PROVE  Spec => []UnlearnedIsRefused
BY AloneIsNeverLate, LostMoneyStaysRefused, PTL

\* ... the handlers, Stripe and its webhook together are the ledger of PayoutLedger ...
THEOREM LedgerIsImplemented ==
    ASSUME \A s, t \in Requests : s = t
    PROVE  Spec => ImplementsLedger
BY AloneIsNeverLate, LedgerIsKept, PTL

\* ... and a row moves along _ALLOWED_TRANSITIONS, back from paid only when its own
\* transfer came home, whatever Stripe, the webhook and generate do between the
\* load of a mark and its commit.
THEOREM StatusMovesForward ==
    ASSUME \A s, t \in Requests : s = t
    PROVE  Spec => StatusOnlyMovesForward
BY AloneIsNeverLate, TableIsKept, PTL
=============================================================================
