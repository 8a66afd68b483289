------------------------- MODULE ConversationProofs -------------------------
(***************************************************************************)
(* A client has one thread, whatever the workers lose or die of; the cursor *)
(* of an account never stands past a mail that is not stored; and a source *)
(* is texted about once inside the cooldown.  For any number of people,    *)
(* letters, drafts, workers and overlapping decisions.                     *)
(***************************************************************************)
EXTENDS MailThreads, FollowUps, TLAPS

-----------------------------------------------------------------------------
(* Mail and texts becoming conversations *)

\* What a worker has read or opened under a client's lock is still so.
UnderLock(w) ==
    /\ work[w].doing # "threading" => work[w].opened = {}
    /\ \A c \in work[w].opened \cap Clients : c \in work[w].locks /\ threads[c] = 0
    /\ work[w].doing \in {"linking", "folding"} =>
          work[w].client \in Clients /\ work[w].thread \in Strangers
    /\ work[w].doing = "folding" =>
          work[w].client \in work[w].locks /\ work[w].siblings = threads[work[w].client]

OneThreadInv ==
    /\ MailTypeOK
    /\ \A v, w \in Workers : v # w => work[v].locks \cap work[w].locks = {}
    /\ \A w \in Workers : UnderLock(w)
    /\ OneThread

\* Every mail a cursor covers is stored, or in the hands of who will set it.
Covered(w) ==
    /\ work[w].doing = "scanned" => arrived \subseteq work[w].todo
    /\ work[w].doing = "threading" /\ work[w].upTo # NoCursor =>
          work[w].upTo \subseteq stored \cup work[w].wrote \cup work[w].todo \cup {work[w].hand}
    /\ work[w].doing = "marking" => work[w].upTo \subseteq stored

KeptInv ==
    /\ MailIsKept
    /\ \A w \in Workers : Covered(w)

-----------------------------------------------------------------------------
(* Workers *)

LEMMA NoWorkType ==
    /\ NoWork \in Work
    /\ NoWork.doing = "nothing" /\ NoWork.todo = {} /\ NoWork.upTo = NoCursor
    /\ NoWork.hand = NoMail /\ NoWork.wrote = {} /\ NoWork.opened = {} /\ NoWork.locks = {}
BY DEF NoWork, Work

\* The record a step of a worker puts in its place, and what it changes there.
LEMMA WorksFrame ==
    ASSUME MailTypeOK, NEW w \in Workers, NEW new \in Work, Works(w, new)
    PROVE  /\ work' \in [Workers -> Work] /\ work'[w] = new
           /\ \A v \in Workers \ {w} : work'[v] = work[v]
BY DEF MailTypeOK, Works

\* A worker that starts holds nothing.
LEMMA StartsWith ==
    ASSUME MailTypeOK, NEW w \in Workers,
           \/ Fetch(w) \/ Scan(w)
           \/ \E letters \in SUBSET Letters : Bring(w, letters)
           \/ \E s \in Strangers, c \in Clients : OpenLink(w, s, c)
    PROVE  \E new \in Work :
              /\ Works(w, new) /\ new.opened = {} /\ new.locks = {} /\ new.wrote = {} /\ new.hand = NoMail
              /\ UNCHANGED <<arrived, cursor, stored, threads>>
              /\ \/ /\ new.doing = "threading" /\ cursor # NoCursor
                    /\ new.todo = arrived \ cursor /\ new.upTo = arrived
                 \/ new.doing = "threading" /\ new.upTo = NoCursor
                 \/ new.doing = "scanned" /\ new.todo = arrived
                 \/ new.doing = "linking" /\ new.thread \in Strangers /\ new.client \in Clients
<1>0. arrived \subseteq Mails /\ Mails \subseteq Letters
  BY DEF MailTypeOK, Letters
<1>1. CASE Fetch(w)
  <2> DEFINE new == [NoWork EXCEPT !.doing = "threading", !.todo = arrived \ cursor, !.upTo = arrived]
  <2>1. /\ new \in Work /\ new.opened = {} /\ new.locks = {} /\ new.wrote = {} /\ new.hand = NoMail
        /\ new.doing = "threading" /\ new.todo = arrived \ cursor /\ new.upTo = arrived
    BY <1>0 DEF NoWork, Work
  <2>2. Works(w, new) /\ cursor # NoCursor /\ UNCHANGED <<arrived, cursor, stored, threads>>
    BY <1>1 DEF Fetch
  <2> HIDE DEF new
  <2> QED BY <2>1, <2>2
<1>2. CASE Scan(w)
  <2> DEFINE new == [NoWork EXCEPT !.doing = "scanned", !.todo = arrived]
  <2>1. /\ new \in Work /\ new.opened = {} /\ new.locks = {} /\ new.wrote = {} /\ new.hand = NoMail
        /\ new.doing = "scanned" /\ new.todo = arrived
    BY <1>0 DEF NoWork, Work
  <2>2. Works(w, new) /\ UNCHANGED <<arrived, cursor, stored, threads>>
    BY <1>2 DEF Scan
  <2> HIDE DEF new
  <2> QED BY <2>1, <2>2
<1>3. ASSUME NEW letters \in SUBSET Letters, Bring(w, letters)
      PROVE  \E new \in Work :
              /\ Works(w, new) /\ new.opened = {} /\ new.locks = {} /\ new.wrote = {} /\ new.hand = NoMail
              /\ UNCHANGED <<arrived, cursor, stored, threads>>
              /\ new.doing = "threading" /\ new.upTo = NoCursor
  <2> DEFINE new == [NoWork EXCEPT !.doing = "threading", !.todo = letters]
  <2>1. /\ new \in Work /\ new.opened = {} /\ new.locks = {} /\ new.wrote = {} /\ new.hand = NoMail
        /\ new.doing = "threading" /\ new.upTo = NoCursor
    BY DEF NoWork, Work
  <2>2. Works(w, new) /\ UNCHANGED <<arrived, cursor, stored, threads>>
    BY <1>3 DEF Bring
  <2> HIDE DEF new
  <2> QED BY <2>1, <2>2
<1>4. ASSUME NEW s \in Strangers, NEW c \in Clients, OpenLink(w, s, c)
      PROVE  \E new \in Work :
              /\ Works(w, new) /\ new.opened = {} /\ new.locks = {} /\ new.wrote = {} /\ new.hand = NoMail
              /\ UNCHANGED <<arrived, cursor, stored, threads>>
              /\ new.doing = "linking" /\ new.thread \in Strangers /\ new.client \in Clients
  <2> DEFINE new == [NoWork EXCEPT !.doing = "linking", !.thread = s, !.client = c]
  <2>1. /\ new \in Work /\ new.opened = {} /\ new.locks = {} /\ new.wrote = {} /\ new.hand = NoMail
        /\ new.doing = "linking" /\ new.thread \in Strangers /\ new.client \in Clients
    BY DEF NoWork, Work
  <2>2. Works(w, new) /\ UNCHANGED <<arrived, cursor, stored, threads>>
    BY <1>4 DEF OpenLink
  <2> HIDE DEF new
  <2> QED BY <2>1, <2>2
<1> QED BY <1>1, <1>2, <1>3, <1>4

LEMMA ChecksWith ==
    ASSUME MailTypeOK, NEW w \in Workers, Check(w)
    PROVE  /\ work[w].doing = "threading" /\ UNCHANGED <<arrived, cursor, stored, threads>>
           /\ \E new \in Work, m \in work[w].todo :
                /\ Works(w, new) /\ new.doing = "threading" /\ new.todo = work[w].todo \ {m}
                /\ new.upTo = work[w].upTo /\ new.wrote = work[w].wrote
                /\ new.opened = work[w].opened /\ new.locks = work[w].locks
                /\ work[w].hand = NoMail
                /\ m \in stored \cup work[w].wrote \/ new.hand = m
<1>0. work[w] \in Work
  BY DEF MailTypeOK
<1>1. PICK m \in work[w].todo :
          Works(w, IF m \in stored \cup work[w].wrote THEN [work[w] EXCEPT !.todo = @ \ {m}]
                   ELSE [work[w] EXCEPT !.todo = @ \ {m}, !.hand = m])
  BY DEF Check
<1>2. CASE m \in stored \cup work[w].wrote
  <2> DEFINE new == [work[w] EXCEPT !.todo = work[w].todo \ {m}]
  <2>1. Works(w, new)
    BY <1>1, <1>2
  <2>2. /\ new \in Work /\ new.doing = work[w].doing /\ new.todo = work[w].todo \ {m}
        /\ new.upTo = work[w].upTo /\ new.wrote = work[w].wrote
        /\ new.opened = work[w].opened /\ new.locks = work[w].locks
    BY <1>0 DEF Work
  <2> HIDE DEF new
  <2> QED BY <1>2, <2>1, <2>2 DEF Check, Is
<1>3. CASE m \notin stored \cup work[w].wrote
  <2> DEFINE new == [work[w] EXCEPT !.todo = work[w].todo \ {m}, !.hand = m]
  <2>1. Works(w, new)
    BY <1>1, <1>3
  <2>2. /\ new \in Work /\ new.doing = work[w].doing /\ new.todo = work[w].todo \ {m}
        /\ new.upTo = work[w].upTo /\ new.wrote = work[w].wrote
        /\ new.opened = work[w].opened /\ new.locks = work[w].locks /\ new.hand = m
    BY <1>0 DEF Work
  <2> HIDE DEF new
  <2> QED BY <1>3, <2>1, <2>2 DEF Check, Is
<1> QED BY <1>2, <1>3

LEMMA ThreadsWith ==
    ASSUME MailTypeOK, NEW w \in Workers, ThreadMail(w)
    PROVE  \E p \in People, new \in Work :
              /\ p = Sender[work[w].hand] /\ LockFree(w, p) /\ work[w].doing = "threading"
              /\ Works(w, new) /\ new.doing = "threading" /\ new.todo = work[w].todo
              /\ new.upTo = work[w].upTo /\ new.locks = work[w].locks \cup {p}
              /\ \/ new.opened = work[w].opened
                 \/ new.opened = work[w].opened \cup {p} /\ (~Found(w, p) \/ Resolved(p))
              /\ new.wrote = work[w].wrote \cup {work[w].hand} \/ (Losses /\ new.wrote = work[w].wrote)
              /\ UNCHANGED <<arrived, cursor, stored, threads>>
<1> DEFINE p == Sender[work[w].hand]
           dropped == [work[w] EXCEPT !.hand = NoMail, !.locks = work[w].locks \cup {p}]
           threaded == [dropped EXCEPT !.wrote = work[w].wrote \cup {work[w].hand}]
           opened == [threaded EXCEPT !.opened = work[w].opened \cup {p}]
<1>0. work[w] \in Work /\ work[w].doing = "threading" /\ work[w].hand \in Letters
  BY DEF MailTypeOK, ThreadMail, Is, Work
<1>1. p \in People
  BY <1>0, MailAssumption DEF Letters, People
<1>2. /\ dropped \in Work /\ dropped.doing = "threading" /\ dropped.todo = work[w].todo
      /\ dropped.upTo = work[w].upTo /\ dropped.locks = work[w].locks \cup {p}
      /\ dropped.opened = work[w].opened /\ dropped.wrote = work[w].wrote
  BY <1>0, <1>1 DEF Work
<1>3. /\ threaded \in Work /\ threaded.doing = "threading" /\ threaded.todo = work[w].todo
      /\ threaded.upTo = work[w].upTo /\ threaded.locks = work[w].locks \cup {p}
      /\ threaded.opened = work[w].opened /\ threaded.wrote = work[w].wrote \cup {work[w].hand}
  BY <1>0, <1>1 DEF Work
<1>4. /\ opened \in Work /\ opened.doing = "threading" /\ opened.todo = work[w].todo
      /\ opened.upTo = work[w].upTo /\ opened.locks = work[w].locks \cup {p}
      /\ opened.opened = work[w].opened \cup {p} /\ opened.wrote = work[w].wrote \cup {work[w].hand}
  BY <1>0, <1>1 DEF Work
<1>5. /\ LockFree(w, p) /\ UNCHANGED <<arrived, cursor, stored, threads>>
      /\ \/ Losses /\ Works(w, dropped)
         \/ Works(w, threaded)
         \/ Works(w, opened) /\ (~Found(w, p) \/ Resolved(p))
  <2>1. PICK ok \in Results, open \in BOOLEAN :
             /\ open => ok /\ (~Found(w, p) \/ Resolved(p))
             /\ Works(w, CASE ~ok -> dropped
                           [] open -> [threaded EXCEPT !.opened = @ \cup {p}]
                           [] OTHER -> threaded)
    BY <1>3 DEF ThreadMail
  <2>2. ok \in BOOLEAN /\ (~ok => Losses)
    BY DEF Results
  <2>3. [threaded EXCEPT !.opened = @ \cup {p}] = opened
    BY <1>3
  <2> HIDE DEF p, dropped, threaded, opened
  <2>4. \/ ~ok /\ Works(w, dropped)
        \/ open /\ ok /\ Works(w, opened)
        \/ Works(w, threaded)
    BY <2>1, <2>2, <2>3
  <2> QED BY <2>1, <2>2, <2>4 DEF ThreadMail, p
<1> HIDE DEF p, dropped, threaded, opened
<1> QED BY <1>0, <1>1, <1>2, <1>3, <1>4, <1>5 DEF p

LEMMA CommitsWith ==
    ASSUME MailTypeOK, NEW w \in Workers, Commit(w)
    PROVE  /\ work[w].doing = "threading" /\ work[w].hand = NoMail /\ work[w].todo = {}
           /\ UNCHANGED <<arrived, cursor>>
           /\ \E new \in Work :
                /\ Works(w, new) /\ new.opened = {} /\ new.locks = {}
                /\ \/ new.doing = "nothing"
                   \/ new.doing = "marking" /\ new.upTo = work[w].upTo /\ work[w].upTo # NoCursor
           /\ \/ /\ stored' = stored \cup work[w].wrote
                 /\ threads' = [p \in People |-> threads[p] + (IF p \in work[w].opened THEN 1 ELSE 0)]
              \/ Losses /\ stored' = stored /\ threads' = threads
<1>0. work[w] \in Work /\ threads \in [People -> Nat]
  BY DEF MailTypeOK
<1>1. \E new \in Work :
                /\ Works(w, new) /\ new.opened = {} /\ new.locks = {}
                /\ \/ new.doing = "nothing"
                   \/ new.doing = "marking" /\ new.upTo = work[w].upTo /\ work[w].upTo # NoCursor
  <2>1. CASE work[w].upTo = NoCursor
    <3>1. Works(w, NoWork)
      BY <2>1 DEF Commit
    <3> QED BY <3>1, NoWorkType
  <2>2. CASE work[w].upTo # NoCursor
    <3> DEFINE new == [NoWork EXCEPT !.doing = "marking", !.upTo = work[w].upTo]
    <3>1. Works(w, new)
      BY <2>2 DEF Commit
    <3>2. /\ new \in Work /\ new.opened = {} /\ new.locks = {} /\ new.doing = "marking"
          /\ new.upTo = work[w].upTo
      BY <1>0 DEF NoWork, Work
    <3> HIDE DEF new
    <3> QED BY <2>2, <3>1, <3>2
  <2> QED BY <2>1, <2>2
<1>2. \/ /\ stored' = stored \cup work[w].wrote
         /\ threads' = [p \in People |-> threads[p] + (IF p \in work[w].opened THEN 1 ELSE 0)]
      \/ Losses /\ stored' = stored /\ threads' = threads
  <2>1. PICK ok \in Results :
          /\ stored' = stored \cup (IF ok THEN work[w] ELSE NoWork).wrote
          /\ threads' = [p \in People |-> threads[p]
                              + (IF p \in (IF ok THEN work[w] ELSE NoWork).opened THEN 1 ELSE 0)]
    BY DEF Commit
  <2>2. CASE ok
    BY <2>1, <2>2
  <2>3. CASE ~ok
    <3>1. Losses
      BY <2>3 DEF Results
    <3>2. stored' = stored /\ threads' = [p \in People |-> threads[p] + 0]
      BY <2>1, <2>3, NoWorkType
    <3> QED BY <1>0, <3>1, <3>2
  <2> QED BY <2>2, <2>3
<1> QED BY <1>1, <1>2 DEF Commit, Is

-----------------------------------------------------------------------------
(* One thread per client *)

\* A step of one worker: it takes only free locks, and counts a client's
\* threads anew only under the client's lock.
LEMMA LockedStep ==
    ASSUME OneThreadInv, MailTypeOK', NEW w \in Workers,
           \A v \in Workers \ {w} : work'[v] = work[v] /\ work'[w].locks \cap work[v].locks = {},
           \A c \in Clients : threads'[c] = threads[c] \/ (c \in work[w].locks /\ threads'[c] <= 1),
           UnderLock(w)'
    PROVE  OneThreadInv'
<1>1. ASSUME NEW v \in Workers \ {w} PROVE UnderLock(v)'
  <2>1. UnderLock(v) /\ work'[v] = work[v] /\ work[v].locks \cap work[w].locks = {}
    BY DEF OneThreadInv
  <2>2. \A c \in Clients : c \in work[v].locks => threads'[c] = threads[c]
    BY <2>1
  <2> QED BY <2>1, <2>2 DEF UnderLock
<1>2. (\A v, x \in Workers : v # x => work[v].locks \cap work[x].locks = {})'
  BY DEF OneThreadInv
<1>3. OneThread'
  BY DEF OneThreadInv, OneThread
<1> QED BY <1>1, <1>2, <1>3 DEF OneThreadInv

LEMMA OneThreadKept ==
    ASSUME OneThreadInv, [MailNext]_mailVars
    PROVE  OneThreadInv'
<1>0. MailTypeOK /\ \A w \in Workers : UnderLock(w) /\ work[w] \in Work
  BY DEF OneThreadInv, MailTypeOK
\* What leaves the threads alone and takes no lock.
<1>1. ASSUME NEW w \in Workers, NEW new \in Work, Works(w, new), new.locks \subseteq work[w].locks,
             UNCHANGED <<arrived, stored, threads>>, cursor' \in (SUBSET Mails) \cup {NoCursor},
             \/ new.opened = {} /\ new.doing # "folding"
                /\ (new.doing = "linking" => new.thread \in Strangers /\ new.client \in Clients)
             \/ new.opened = work[w].opened /\ new.doing = "threading" /\ new.locks = work[w].locks
      PROVE  OneThreadInv'
  <2>1. work' \in [Workers -> Work] /\ work'[w] = new /\ \A v \in Workers \ {w} : work'[v] = work[v]
    BY <1>0, <1>1, WorksFrame
  <2>2. MailTypeOK'
    BY <1>0, <1>1, <2>1 DEF MailTypeOK
  <2>3. UnderLock(w)'
    BY <1>0, <1>1, <2>1 DEF UnderLock
  <2>4. \A v \in Workers \ {w} : work'[w].locks \cap work[v].locks = {}
    BY <1>1, <2>1 DEF OneThreadInv
  <2> QED BY <1>1, <2>1, <2>2, <2>3, <2>4, LockedStep
<1>2. CASE \E m \in Mails : Arrive(m)
  BY <1>2 DEF Arrive, OneThreadInv, MailTypeOK, UnderLock, OneThread
<1>3. ASSUME NEW w \in Workers,
             \/ Fetch(w) \/ Scan(w) \/ Bring(w, arrived) \/ \E t \in Texts : Bring(w, {t})
             \/ \E s \in Strangers, c \in Clients : OpenLink(w, s, c)
      PROVE  OneThreadInv'
  <2>1. arrived \in SUBSET Letters /\ \A t \in Texts : {t} \in SUBSET Letters
    BY <1>0 DEF MailTypeOK, Letters
  <2>2. PICK new \in Work :
              /\ Works(w, new) /\ new.opened = {} /\ new.locks = {}
              /\ UNCHANGED <<arrived, cursor, stored, threads>>
              /\ new.doing # "folding"
              /\ new.doing = "linking" => new.thread \in Strangers /\ new.client \in Clients
    BY <1>0, <1>3, <2>1, StartsWith
  <2> QED BY <1>0, <1>1, <2>2 DEF MailTypeOK
<1>4. ASSUME NEW w \in Workers, Seed(w)
      PROVE  OneThreadInv'
  <2> DEFINE new == [work[w] EXCEPT !.doing = "threading", !.upTo = arrived]
  <2>1. /\ new \in Work /\ new.doing = "threading" /\ new.opened = work[w].opened
        /\ new.locks = work[w].locks
    BY <1>0 DEF MailTypeOK, Work
  <2>2. Works(w, new) /\ UNCHANGED <<arrived, cursor, stored, threads>>
    BY <1>4 DEF Seed
  <2> HIDE DEF new
  <2> QED BY <1>0, <1>1, <2>1, <2>2 DEF MailTypeOK
<1>5. ASSUME NEW w \in Workers, Check(w)
      PROVE  OneThreadInv'
  BY <1>0, <1>1, <1>5, ChecksWith DEF MailTypeOK
<1>6. ASSUME NEW w \in Workers, ThreadMail(w)
      PROVE  OneThreadInv'
  <2>1. PICK p \in People, new \in Work :
              /\ LockFree(w, p) /\ work[w].doing = "threading"
              /\ Works(w, new) /\ new.doing = "threading" /\ new.locks = work[w].locks \cup {p}
              /\ \/ new.opened = work[w].opened
                 \/ new.opened = work[w].opened \cup {p} /\ (~Found(w, p) \/ Resolved(p))
              /\ UNCHANGED <<arrived, cursor, stored, threads>>
    BY <1>0, <1>6, ThreadsWith
  <2>2. work' \in [Workers -> Work] /\ work'[w] = new /\ \A v \in Workers \ {w} : work'[v] = work[v]
    BY <1>0, <2>1, WorksFrame
  <2>3. MailTypeOK'
    BY <1>0, <2>1, <2>2 DEF MailTypeOK
  <2>4. p \in Clients /\ p \in new.opened => p \in work[w].opened \/ threads[p] = 0
    BY <1>0, <2>1, MailAssumption DEF Found, Resolved, MailTypeOK
  <2>5. UnderLock(w)'
    BY <1>0, <2>1, <2>2, <2>4 DEF UnderLock
  <2>6. \A v \in Workers \ {w} : work'[w].locks \cap work[v].locks = {}
    BY <2>1, <2>2 DEF OneThreadInv, LockFree
  <2> QED BY <2>1, <2>2, <2>3, <2>5, <2>6, LockedStep
<1>7. ASSUME NEW w \in Workers, Commit(w)
      PROVE  OneThreadInv'
  <2>1. PICK new \in Work :
                /\ Works(w, new) /\ new.opened = {} /\ new.locks = {}
                /\ new.doing \in {"nothing", "marking"}
    BY <1>0, <1>7, CommitsWith
  <2>2. work' \in [Workers -> Work] /\ work'[w] = new /\ \A v \in Workers \ {w} : work'[v] = work[v]
    BY <1>0, <2>1, WorksFrame
  <2>3. /\ threads' \in [People -> Nat] /\ stored' \subseteq Letters
        /\ \A c \in Clients : threads'[c] = threads[c]
                             \/ (c \in work[w].opened /\ threads'[c] = threads[c] + 1)
    <3>1. work[w].wrote \subseteq Letters /\ threads \in [People -> Nat] /\ stored \subseteq Letters
      BY <1>0 DEF MailTypeOK, Work
    <3>2. CASE /\ stored' = stored \cup work[w].wrote
               /\ threads' = [p \in People |-> threads[p] + (IF p \in work[w].opened THEN 1 ELSE 0)]
      <4>1. \A p \in People :
               /\ threads[p] \in Nat
               /\ p \in work[w].opened => threads'[p] = threads[p] + 1
               /\ p \notin work[w].opened => threads'[p] = threads[p]
        BY <3>1, <3>2
      <4>2. \A p \in People : threads'[p] \in Nat
        BY <4>1
      <4>3. threads' \in [People -> Nat]
        BY <3>2, <4>2
      <4>4. stored' \subseteq Letters
        BY <3>1, <3>2
      <4> QED BY <4>1, <4>3, <4>4 DEF People
    <3>3. CASE stored' = stored /\ threads' = threads
      BY <3>1, <3>3
    <3>4. \/ /\ stored' = stored \cup work[w].wrote
             /\ threads' = [p \in People |-> threads[p] + (IF p \in work[w].opened THEN 1 ELSE 0)]
          \/ stored' = stored /\ threads' = threads
      BY <1>0, <1>7, CommitsWith
    <3> QED BY <3>2, <3>3, <3>4
  <2>4. MailTypeOK'
    BY <1>0, <1>7, <2>2, <2>3, CommitsWith DEF MailTypeOK
  <2>5. UnderLock(w)'
    BY <2>1, <2>2 DEF UnderLock
  <2>6. \A c \in Clients : threads'[c] = threads[c] \/ (c \in work[w].locks /\ threads'[c] <= 1)
    BY <1>0, <2>3 DEF UnderLock
  <2> QED BY <2>1, <2>2, <2>4, <2>5, <2>6, LockedStep
<1>8. ASSUME NEW w \in Workers, Mark(w) \/ Dies(w)
      PROVE  OneThreadInv'
  <2>1. /\ Works(w, NoWork) /\ UNCHANGED <<arrived, stored, threads>>
        /\ cursor' = cursor \/ cursor' = work[w].upTo
    BY <1>8 DEF Mark, Dies, Rests
  <2>2. cursor' \in (SUBSET Mails) \cup {NoCursor}
    BY <1>0, <2>1 DEF MailTypeOK, Work
  <2> QED BY <1>1, <2>1, <2>2, NoWorkType
<1>9. ASSUME NEW w \in Workers, Relink(w)
      PROVE  OneThreadInv'
  <2> DEFINE c == work[w].client
             new == [work[w] EXCEPT !.doing = "folding", !.locks = {c}, !.siblings = threads[c]]
  <2>1. c \in Clients /\ work[w].thread \in Strangers /\ work[w].opened = {} /\ threads[c] \in Nat
    BY <1>0, <1>9 DEF Relink, Is, UnderLock, MailTypeOK, People
  <2>2. /\ new \in Work /\ new.doing = "folding" /\ new.opened = {} /\ new.locks = {c}
        /\ new.siblings = threads[c] /\ new.client = c /\ new.thread = work[w].thread
    BY <1>0, <2>1 DEF Work, People
  <2>3. Works(w, new) /\ UNCHANGED <<arrived, cursor, stored, threads>> /\ LockFree(w, c)
    BY <1>9 DEF Relink
  <2> HIDE DEF new
  <2>4. work' \in [Workers -> Work] /\ work'[w] = new /\ \A v \in Workers \ {w} : work'[v] = work[v]
    BY <1>0, <2>2, <2>3, WorksFrame
  <2>5. MailTypeOK'
    BY <1>0, <2>3, <2>4 DEF MailTypeOK
  <2>6. UnderLock(w)'
    BY <2>1, <2>2, <2>3, <2>4 DEF UnderLock
  <2>7. \A v \in Workers \ {w} : work'[w].locks \cap work[v].locks = {}
    BY <2>2, <2>3, <2>4 DEF LockFree
  <2> QED BY <2>3, <2>4, <2>5, <2>6, <2>7, LockedStep
<1>10. ASSUME NEW w \in Workers, CommitLink(w)
       PROVE  OneThreadInv'
  <2> DEFINE s == work[w].thread
             c == work[w].client
  <2>1. /\ c \in Clients /\ s \in Strangers /\ c # s /\ c \in work[w].locks
        /\ work[w].siblings = threads[c]
    BY <1>0, <1>10, MailAssumption DEF CommitLink, Is, UnderLock
  <2>2. /\ Works(w, NoWork) /\ UNCHANGED <<arrived, cursor, stored>> /\ threads[s] > 0
        /\ threads' = [threads EXCEPT ![s] = @ - 1, ![c] = @ - work[w].siblings + 1]
    BY <1>10 DEF CommitLink, Rests
  <2>3. threads \in [People -> Nat] /\ c \in People /\ s \in People
    BY <1>0, <2>1 DEF MailTypeOK, People
  <2>4. /\ threads[s] \in Nat /\ threads[s] - 1 \in Nat
        /\ threads[c] \in Nat /\ threads[c] - work[w].siblings + 1 = 1
    BY <2>1, <2>2, <2>3
  <2>5. /\ threads' \in [People -> Nat] /\ threads'[c] = 1
        /\ \A d \in Clients \ {c} : threads'[d] = threads[d]
    BY <2>1, <2>2, <2>3, <2>4, MailAssumption DEF People
  <2>6. work' \in [Workers -> Work] /\ work'[w] = NoWork /\ \A v \in Workers \ {w} : work'[v] = work[v]
    BY <1>0, <2>2, NoWorkType, WorksFrame
  <2>7. MailTypeOK'
    BY <1>0, <2>2, <2>5, <2>6 DEF MailTypeOK
  <2>8. UnderLock(w)'
    BY <2>6, NoWorkType DEF UnderLock
  <2> QED BY <2>1, <2>5, <2>6, <2>7, <2>8, NoWorkType, LockedStep
<1>11. CASE UNCHANGED mailVars
  BY <1>11 DEF mailVars, OneThreadInv, MailTypeOK, UnderLock, OneThread
<1> QED BY <1>2, <1>3, <1>4, <1>5, <1>6, <1>7, <1>8, <1>9, <1>10, <1>11 DEF MailNext

LEMMA OneThreadInvHolds == MailSpec => []OneThreadInv
<1>1. ASSUME MailInit PROVE OneThreadInv
  <2>1. MailTypeOK
    BY <1>1, NoWorkType DEF MailInit, MailTypeOK
  <2>2. \A w \in Workers : UnderLock(w)
    BY <1>1, NoWorkType DEF MailInit, UnderLock
  <2>3. OneThread
    BY <1>1 DEF MailInit, OneThread, People
  <2> QED BY <1>1, <2>1, <2>2, <2>3, NoWorkType DEF MailInit, OneThreadInv
<1> QED BY <1>1, OneThreadKept, PTL DEF MailSpec

\* A client never has two threads, whatever the syncs, webhooks and links of
\* find_or_create_conversation and link_conversation_client overlap, lose or
\* die of: the lock on the person covers the lookup up to the commit.
THEOREM ClientHasOneThread == MailSpec => []OneThread
BY OneThreadInvHolds, PTL DEF OneThreadInv

-----------------------------------------------------------------------------
(* No mail is passed over *)

\* A step of one worker that takes nothing away from what is stored.
LEMMA CoveredStep ==
    ASSUME KeptInv, NEW w \in Workers, arrived' = arrived, stored \subseteq stored',
           \A v \in Workers \ {w} : work'[v] = work[v],
           MailIsKept', Covered(w)'
    PROVE  KeptInv'
BY DEF KeptInv, Covered

LEMMA MailKept ==
    ASSUME ~Losses, OneThreadInv, KeptInv, [MailNext]_mailVars
    PROVE  KeptInv'
<1>0. /\ MailTypeOK /\ MailIsKept /\ arrived \subseteq Mails
      /\ \A w \in Workers : Covered(w) /\ work[w] \in Work
  BY DEF OneThreadInv, KeptInv, MailTypeOK
<1>1. CASE \E m \in Mails : Arrive(m)
  BY <1>1 DEF Arrive, Is, KeptInv, Covered, MailIsKept
<1>2. ASSUME NEW w \in Workers,
             \/ Fetch(w) \/ Scan(w) \/ Bring(w, arrived) \/ \E t \in Texts : Bring(w, {t})
             \/ \E s \in Strangers, c \in Clients : OpenLink(w, s, c)
      PROVE  KeptInv'
  <2>1. arrived \in SUBSET Letters /\ \A t \in Texts : {t} \in SUBSET Letters
    BY <1>0 DEF Letters
  <2>2. PICK new \in Work :
              /\ Works(w, new) /\ UNCHANGED <<arrived, cursor, stored>>
              /\ \/ /\ new.doing = "threading" /\ cursor # NoCursor
                    /\ new.todo = arrived \ cursor /\ new.upTo = arrived
                 \/ new.doing = "threading" /\ new.upTo = NoCursor
                 \/ new.doing = "scanned" /\ new.todo = arrived
                 \/ new.doing = "linking"
    BY <1>0, <1>2, <2>1, StartsWith
  <2>3. work'[w] = new /\ \A v \in Workers \ {w} : work'[v] = work[v]
    BY <1>0, <2>2, WorksFrame
  <2>4. Covered(w)'
    BY <1>0, <2>2, <2>3 DEF Covered, MailIsKept
  <2> QED BY <1>0, <2>2, <2>3, <2>4, CoveredStep DEF MailIsKept
<1>3. ASSUME NEW w \in Workers, Seed(w)
      PROVE  KeptInv'
  <2> DEFINE new == [work[w] EXCEPT !.doing = "threading", !.upTo = arrived]
  <2>1. new \in Work /\ new.doing = "threading" /\ new.upTo = arrived /\ new.todo = work[w].todo
    BY <1>0 DEF Work
  <2>2. Works(w, new) /\ UNCHANGED <<arrived, cursor, stored>> /\ work[w].doing = "scanned"
    BY <1>3 DEF Seed, Is
  <2> HIDE DEF new
  <2>3. work'[w] = new /\ \A v \in Workers \ {w} : work'[v] = work[v]
    BY <1>0, <2>1, <2>2, WorksFrame
  <2>4. Covered(w)'
    BY <1>0, <2>1, <2>2, <2>3 DEF Covered
  <2> QED BY <1>0, <2>2, <2>3, <2>4, CoveredStep DEF MailIsKept
<1>4. ASSUME NEW w \in Workers, Check(w)
      PROVE  KeptInv'
  <2>1. PICK new \in Work, m \in work[w].todo :
                /\ Works(w, new) /\ new.doing = "threading" /\ new.todo = work[w].todo \ {m}
                /\ new.upTo = work[w].upTo /\ new.wrote = work[w].wrote /\ work[w].hand = NoMail
                /\ m \in stored \cup work[w].wrote \/ new.hand = m
    BY <1>0, <1>4, ChecksWith
  <2>2. work[w].doing = "threading" /\ UNCHANGED <<arrived, cursor, stored>>
    BY <1>0, <1>4, ChecksWith
  <2>3. work'[w] = new /\ \A v \in Workers \ {w} : work'[v] = work[v]
    BY <1>0, <2>1, WorksFrame
  <2>4. work[w].upTo # NoCursor => NoMail \notin work[w].upTo
    BY <1>0, MailAssumption DEF Work
  <2>5. Covered(w)'
    BY <1>0, <2>1, <2>2, <2>3, <2>4 DEF Covered
  <2> QED BY <1>0, <2>2, <2>3, <2>5, CoveredStep DEF MailIsKept
<1>5. ASSUME NEW w \in Workers, ThreadMail(w)
      PROVE  KeptInv'
  <2>1. PICK new \in Work :
              /\ work[w].doing = "threading" /\ Works(w, new) /\ new.doing = "threading"
              /\ new.todo = work[w].todo /\ new.upTo = work[w].upTo
              /\ new.wrote = work[w].wrote \cup {work[w].hand}
              /\ UNCHANGED <<arrived, cursor, stored>>
    BY <1>0, <1>5, ThreadsWith
  <2>2. work'[w] = new /\ \A v \in Workers \ {w} : work'[v] = work[v]
    BY <1>0, <2>1, WorksFrame
  <2>3. Covered(w)'
    BY <1>0, <2>1, <2>2 DEF Covered
  <2> QED BY <1>0, <2>1, <2>2, <2>3, CoveredStep DEF MailIsKept
<1>6. ASSUME NEW w \in Workers, Commit(w)
      PROVE  KeptInv'
  <2>1. /\ work[w].doing = "threading" /\ work[w].hand = NoMail /\ work[w].todo = {}
        /\ UNCHANGED <<arrived, cursor>> /\ stored' = stored \cup work[w].wrote
    BY <1>0, <1>6, CommitsWith
  <2>2. PICK new \in Work :
                /\ Works(w, new)
                /\ \/ new.doing = "nothing"
                   \/ new.doing = "marking" /\ new.upTo = work[w].upTo /\ work[w].upTo # NoCursor
    BY <1>0, <1>6, CommitsWith
  <2>3. work'[w] = new /\ \A v \in Workers \ {w} : work'[v] = work[v]
    BY <1>0, <2>2, WorksFrame
  <2>4. work[w].upTo # NoCursor => work[w].upTo \subseteq stored'
    <3>1. work[w].upTo # NoCursor => NoMail \notin work[w].upTo
      BY <1>0, MailAssumption DEF Work
    <3> QED BY <1>0, <2>1, <3>1 DEF Covered
  <2>5. Covered(w)'
    BY <2>2, <2>3, <2>4 DEF Covered
  <2>6. MailIsKept'
    BY <1>0, <2>1 DEF MailIsKept
  <2> QED BY <2>1, <2>3, <2>5, <2>6, CoveredStep
<1>7. ASSUME NEW w \in Workers, Mark(w) \/ Dies(w) \/ Relink(w) \/ CommitLink(w)
      PROVE  KeptInv'
  <2>1. /\ UNCHANGED <<arrived, stored>>
        /\ cursor' = cursor \/ (work[w].doing = "marking" /\ cursor' = work[w].upTo)
    BY <1>7 DEF Mark, Dies, Relink, CommitLink, Is
  <2>2. work'[w].doing \in {"nothing", "folding"} /\ \A v \in Workers \ {w} : work'[v] = work[v]
    <3>1. CASE Mark(w) \/ Dies(w) \/ CommitLink(w)
      BY <1>0, <3>1, NoWorkType, WorksFrame DEF Mark, Dies, CommitLink, Rests
    <3>2. CASE Relink(w)
      <4> DEFINE new == [work[w] EXCEPT !.doing = "folding", !.locks = {work[w].client},
                                        !.siblings = threads[work[w].client]]
      <4>1. Works(w, new)
        BY <3>2 DEF Relink
      <4>2. new.doing = "folding"
        BY <1>0 DEF Work
      <4> HIDE DEF new
      <4> QED BY <1>0, <4>1, <4>2 DEF Works, MailTypeOK
    <3> QED BY <1>7, <3>1, <3>2
  <2>3. Covered(w)'
    BY <2>2 DEF Covered
  <2>4. MailIsKept'
    BY <1>0, <2>1 DEF Covered, MailIsKept
  <2> QED BY <2>1, <2>2, <2>3, <2>4, CoveredStep
<1>8. CASE UNCHANGED mailVars
  BY <1>8 DEF mailVars, KeptInv, Covered, MailIsKept
<1> QED BY <1>1, <1>2, <1>3, <1>4, <1>5, <1>6, <1>7, <1>8 DEF MailNext

\* The history cursor never stands past a mail that is not stored, whatever
\* syncs die or overtake each other: run_account_inbox_sync commits the messages
\* before the cursor.  That no mail arrives between a scan and its cursor, and
\* that no mail and no commit fails, is assumed.
THEOREM CursorKeepsMail ==
    ASSUME ~Losses
    PROVE  MailSpec => []MailIsKept
<1>1. MailInit => KeptInv
  BY NoWorkType DEF MailInit, KeptInv, MailIsKept, Covered
<1>2. OneThreadInv /\ KeptInv /\ [MailNext]_mailVars => KeptInv'
  BY MailKept
<1>3. KeptInv => MailIsKept
  BY DEF KeptInv
<1> QED BY <1>1, <1>2, <1>3, OneThreadInvHolds, PTL DEF MailSpec

-----------------------------------------------------------------------------
(* Drafted follow-up texts *)

Busy(u) == deciding[u].pc \in {"sending", "logging", "closing"}

\* One row per source, and none for a source that is still to be drafted.
OneRowEach ==
    /\ \A i, j \in Proposals : i # j /\ proposed[i].source = proposed[j].source =>
          proposed[i].source = NoSource
    /\ \A i \in Proposals :
          /\ proposed[i].source = NoSource <=> proposed[i].status = "none"
          /\ proposed[i].status \in {"none", "pending"} => proposed[i].texts = 0
    /\ \A d \in Drafters : \A s \in drafting[d].todo, i \in Proposals : proposed[i].source # s
    /\ \A d \in Drafters : ~drafting[d].on => drafting[d].todo = {}
    /\ \A d, e \in Drafters : drafting[d].on /\ drafting[e].on => d = e

\* Who is past the claim holds an approved row alone, untexted until it sends.
OneDeciderEach ==
    /\ \A u \in Deciders : deciding[u].pc # "idle" =>
          deciding[u].of \in Proposals /\ RowOf(u).status # "none"
    /\ \A u \in Deciders : Busy(u) => RowOf(u).status = "approved"
    /\ \A u \in Deciders : deciding[u].pc = "sending" => RowOf(u).texts = 0
    /\ \A u, v \in Deciders : Busy(u) /\ Busy(v) /\ deciding[u].of = deciding[v].of => u = v

FollowInv ==
    /\ FollowTypeOK
    /\ OneRowEach
    /\ OneDeciderEach
    /\ \A i \in Proposals : proposed[i].texts <= 1

-----------------------------------------------------------------------------
(* Rows and requests *)

LEMMA BlankTypes ==
    /\ Unproposed \in Proposal /\ Undecided \in Deciding
    /\ Unproposed.source = NoSource /\ Unproposed.status = "none" /\ Unproposed.texts = 0
    /\ Undecided.pc = "idle"
<1>1. /\ Unproposed \in Proposal
      /\ Unproposed.source = NoSource /\ Unproposed.status = "none" /\ Unproposed.texts = 0
  BY DEF Unproposed, Proposal
<1>2. "none" \in {p.status : p \in Proposal}
  BY <1>1
<1> QED BY <1>1, <1>2 DEF Undecided, Deciding

\* A new status leaves the rest of the row, and the other rows, as they were.
LEMMA SetsToFrame ==
    ASSUME FollowTypeOK, NEW u \in Deciders, deciding[u].of \in Proposals,
           NEW status \in {"approved", "dismissed", "executed", "failed"}, SetsTo(u, status)
    PROVE  /\ proposed' \in [Proposals -> Proposal]
           /\ proposed'[deciding[u].of] = [RowOf(u) EXCEPT !.status = status]
           /\ \A i \in Proposals \ {deciding[u].of} : proposed'[i] = proposed[i]
           /\ \A i \in Proposals : /\ proposed'[i].source = proposed[i].source
                                   /\ proposed'[i].texts = proposed[i].texts
<1> DEFINE k == deciding[u].of
           row == [proposed[k] EXCEPT !.status = status]
<1>1. proposed' = [proposed EXCEPT ![k] = row]
  BY DEF SetsTo
<1>2. row \in Proposal /\ row.source = proposed[k].source /\ row.texts = proposed[k].texts
  BY DEF FollowTypeOK, Proposal
<1>3. row = [RowOf(u) EXCEPT !.status = status]
  BY DEF RowOf
<1>4. proposed \in [Proposals -> Proposal] /\ k \in Proposals
  BY DEF FollowTypeOK
<1> HIDE DEF row
<1> QED BY <1>1, <1>2, <1>3, <1>4

\* A request that ends, or goes on, is the only one that moves.
LEMMA DecidingFrame ==
    ASSUME FollowTypeOK, NEW u \in Deciders
    PROVE  /\ Ends(u) => /\ deciding' \in [Deciders -> Deciding]
                         /\ deciding'[u].pc = "idle"
                         /\ \A v \in Deciders \ {u} : deciding'[v] = deciding[v]
           /\ \A pc \in {"sending", "logging", "closing"} : Proceeds(u, pc) =>
                 /\ deciding' \in [Deciders -> Deciding]
                 /\ deciding'[u].pc = pc /\ deciding'[u].of = deciding[u].of
                 /\ \A v \in Deciders \ {u} : deciding'[v] = deciding[v]
<1>1. ASSUME Ends(u)
      PROVE  /\ deciding' \in [Deciders -> Deciding] /\ deciding'[u].pc = "idle"
             /\ \A v \in Deciders \ {u} : deciding'[v] = deciding[v]
  BY <1>1, BlankTypes DEF Ends, FollowTypeOK
<1>2. ASSUME NEW pc \in {"sending", "logging", "closing"}, Proceeds(u, pc)
      PROVE  /\ deciding' \in [Deciders -> Deciding]
             /\ deciding'[u].pc = pc /\ deciding'[u].of = deciding[u].of
             /\ \A v \in Deciders \ {u} : deciding'[v] = deciding[v]
  <2> DEFINE next == [deciding[u] EXCEPT !.pc = pc]
  <2>1. deciding' = [deciding EXCEPT ![u] = next]
    BY <1>2 DEF Proceeds
  <2>2. next \in Deciding /\ next.pc = pc /\ next.of = deciding[u].of
    BY DEF FollowTypeOK, Deciding
  <2> HIDE DEF next
  <2> QED BY <2>1, <2>2 DEF FollowTypeOK
<1> QED BY <1>1, <1>2

-----------------------------------------------------------------------------
(* Steps of a request *)

\* What a decision may do to the invariant: its row keeps its source, and ends
\* in a status that nobody else is busy with.
LEMMA DecisionStep ==
    ASSUME FollowInv, NEW u \in Deciders, UNCHANGED drafting, waiting' \subseteq Sources,
           proposed' \in [Proposals -> Proposal], deciding' \in [Deciders -> Deciding],
           \A v \in Deciders \ {u} : deciding'[v] = deciding[v],
           deciding[u].pc # "idle",
           \A i \in Proposals \ {deciding[u].of} : proposed'[i] = proposed[i],
           \A i \in Proposals : proposed'[i].source = proposed[i].source,
           LET row == proposed'[deciding[u].of] IN
              /\ row.status \in {"approved", "dismissed", "executed", "failed"} \/ row = RowOf(u)
              /\ row.texts <= 1
              /\ \A v \in Deciders \ {u} : Busy(v) /\ deciding[v].of = deciding[u].of => row = RowOf(u)
              /\ deciding'[u].pc # "idle" =>
                    /\ deciding'[u].of = deciding[u].of
                    /\ deciding'[u].pc \in {"sending", "logging", "closing"} =>
                          /\ row.status = "approved"
                          /\ \A v \in Deciders \ {u} : Busy(v) => deciding[v].of # deciding[u].of
                    /\ deciding'[u].pc = "sending" => row.texts = 0
    PROVE  FollowInv'
<1> DEFINE k == deciding[u].of
<1>1. k \in Proposals /\ RowOf(u) = proposed[k] /\ proposed[k].status # "none"
  BY DEF FollowInv, OneDeciderEach, RowOf
<1>2. FollowTypeOK'
  BY DEF FollowInv, FollowTypeOK
<1>3. OneRowEach'
  BY <1>1 DEF FollowInv, OneRowEach
<1>4. OneDeciderEach'
  BY <1>1 DEF FollowInv, OneDeciderEach, Busy, RowOf
<1>5. (\A i \in Proposals : proposed[i].texts <= 1)'
  BY <1>1 DEF FollowInv
<1> QED BY <1>2, <1>3, <1>4, <1>5 DEF FollowInv

LEMMA DecidingKeeps ==
    ASSUME FollowInv, NEW u \in Deciders,
           \/ ClaimPending(u) \/ SendText(u) \/ LogText(u)
           \/ MarkExecuted(u) \/ MarkFailed(u) \/ DecisionDies(u)
    PROVE  FollowInv'
<1> DEFINE k == deciding[u].of
<1>0. /\ FollowTypeOK
      /\ deciding[u].pc # "idle" => k \in Proposals /\ RowOf(u) = proposed[k] /\ proposed[k] \in Proposal
  BY DEF FollowInv, FollowTypeOK, OneDeciderEach, RowOf
<1>a. UNCHANGED drafting /\ deciding[u].pc # "idle" /\ waiting' \subseteq Sources
  BY <1>0 DEF ClaimPending, SendText, LogText, MarkExecuted, MarkFailed, DecisionDies, Has, FollowTypeOK
<1>b. proposed[k].texts <= 1
  BY <1>0, <1>a DEF FollowInv
<1>c. \A v \in Deciders \ {u} : Busy(v) /\ deciding[v].of = k => ~Busy(u) /\ proposed[k].status = "approved"
  BY <1>0, <1>a DEF FollowInv, OneDeciderEach, RowOf
<1>1. CASE ClaimPending(u)
  <2>1. CASE ~Claimable(u)
    <3>1. Ends(u) /\ UNCHANGED proposed
      BY <1>1, <2>1 DEF ClaimPending
    <3> QED BY <1>0, <1>a, <1>b, <3>1, DecidingFrame, DecisionStep DEF FollowTypeOK
  <2>2. CASE Claimable(u)
    <3>1. proposed[k].status = "pending" /\ proposed[k].texts = 0
      BY <1>0, <1>a, <2>2 DEF Claimable, FollowInv, OneRowEach
    <3>2. \A v \in Deciders \ {u} : ~(Busy(v) /\ deciding[v].of = k)
      BY <1>c, <3>1
    <3>3. CASE Proceeds(u, "sending") /\ SetsTo(u, "approved")
      <4>1. proposed'[k].status = "approved" /\ proposed'[k].texts = 0
        BY <1>0, <1>a, <3>1, <3>3, SetsToFrame, ZenonT(40) DEF Proposal
      <4>2. /\ proposed' \in [Proposals -> Proposal]
            /\ \A i \in Proposals \ {k} : proposed'[i] = proposed[i]
            /\ \A i \in Proposals : proposed'[i].source = proposed[i].source
        BY <1>0, <1>a, <3>3, SetsToFrame
      <4>3. /\ deciding' \in [Deciders -> Deciding]
            /\ deciding'[u].pc = "sending" /\ deciding'[u].of = k
            /\ \A v \in Deciders \ {u} : deciding'[v] = deciding[v]
        BY <1>0, <3>3, DecidingFrame
      <4> QED BY <1>a, <3>2, <4>1, <4>2, <4>3, DecisionStep
    <3>4. CASE Ends(u) /\ SetsTo(u, "dismissed")
      <4>1. proposed'[k].status = "dismissed" /\ proposed'[k].texts = 0
        BY <1>0, <1>a, <3>1, <3>4, SetsToFrame DEF Proposal
      <4>2. /\ proposed' \in [Proposals -> Proposal]
            /\ \A i \in Proposals \ {k} : proposed'[i] = proposed[i]
            /\ \A i \in Proposals : proposed'[i].source = proposed[i].source
        BY <1>0, <1>a, <3>4, SetsToFrame
      <4>3. /\ deciding' \in [Deciders -> Deciding] /\ deciding'[u].pc = "idle"
            /\ \A v \in Deciders \ {u} : deciding'[v] = deciding[v]
        BY <1>0, <3>4, DecidingFrame
      <4> QED BY <1>a, <3>2, <4>1, <4>2, <4>3, DecisionStep
    <3> QED BY <1>1, <2>2, <3>3, <3>4 DEF ClaimPending
  <2> QED BY <2>1, <2>2
\* From here on the request holds its row, and nobody else does.
<1>d. ASSUME Busy(u)
      PROVE  /\ \A v \in Deciders \ {u} : ~(Busy(v) /\ deciding[v].of = k)
             /\ proposed[k].status = "approved"
  BY <1>0, <1>a, <1>c, <1>d DEF FollowInv, OneDeciderEach
<1>2. CASE SendText(u)
  <2>1. deciding[u].pc = "sending" /\ proposed[k].texts = 0 /\ Busy(u)
    BY <1>0, <1>a, <1>2 DEF SendText, Has, FollowInv, OneDeciderEach, Busy
  <2> DEFINE row == [proposed[k] EXCEPT !.texts = 1]
  <2>2. row \in Proposal /\ row.texts = 1 /\ row.status = "approved" /\ row.source = proposed[k].source
    BY <1>0, <1>a, <1>d, <2>1 DEF Proposal
  <2>3. proposed' = [proposed EXCEPT ![k] = row]
    BY <1>0, <1>2, <2>1 DEF SendText
  <2> HIDE DEF row
  <2>4. /\ proposed' \in [Proposals -> Proposal] /\ proposed'[k] = row
        /\ \A i \in Proposals \ {k} : proposed'[i] = proposed[i]
        /\ \A i \in Proposals : proposed'[i].source = proposed[i].source
    BY <1>0, <1>a, <2>2, <2>3 DEF FollowTypeOK
  <2>5. Proceeds(u, "logging")
    BY <1>2 DEF SendText
  <2> QED BY <1>0, <1>a, <1>d, <2>1, <2>2, <2>4, <2>5, DecidingFrame, DecisionStep
<1>3. CASE LogText(u)
  <2>1. Busy(u) /\ Proceeds(u, "closing") /\ UNCHANGED proposed
    BY <1>3 DEF LogText, Has, Busy
  <2> QED BY <1>0, <1>a, <1>b, <1>d, <2>1, DecidingFrame, DecisionStep DEF FollowTypeOK
<1>4. ASSUME NEW status \in {"executed", "failed"}, SetsTo(u, status), Ends(u), Busy(u)
      PROVE  FollowInv'
  <2>1. proposed'[k].status = status /\ proposed'[k].texts = proposed[k].texts
    BY <1>0, <1>a, <1>4, SetsToFrame DEF Proposal
  <2> QED BY <1>0, <1>a, <1>b, <1>d, <1>4, <2>1, SetsToFrame, DecidingFrame, DecisionStep
<1>5. CASE MarkExecuted(u)
  BY <1>4, <1>5 DEF MarkExecuted, Has, Busy
<1>6. CASE MarkFailed(u)
  BY <1>4, <1>6 DEF MarkFailed, Has, Busy
<1>7. CASE DecisionDies(u)
  <2>1. Ends(u) /\ UNCHANGED proposed
    BY <1>7 DEF DecisionDies
  <2> QED BY <1>0, <1>a, <1>b, <2>1, DecidingFrame, DecisionStep DEF FollowTypeOK
<1> QED BY <1>1, <1>2, <1>3, <1>5, <1>6, <1>7

LEMMA LoadKeeps ==
    ASSUME FollowInv, NEW u \in Deciders, NEW i \in Proposals, NEW approve \in BOOLEAN,
           LoadProposal(u, i, approve)
    PROVE  FollowInv'
<1> DEFINE next == [pc |-> "loaded", of |-> i, approve |-> approve, seen |-> proposed[i].status]
<1>1. proposed[i] \in Proposal /\ proposed[i].status # "none"
  BY DEF FollowInv, FollowTypeOK, LoadProposal
<1>2. next \in Deciding /\ next.pc = "loaded" /\ next.of = i
  BY <1>1 DEF Deciding
<1>3. deciding' = [deciding EXCEPT ![u] = next] /\ UNCHANGED <<proposed, waiting, drafting>>
  BY DEF LoadProposal
<1> HIDE DEF next
<1>4. /\ deciding' \in [Deciders -> Deciding] /\ deciding'[u] = next
      /\ \A v \in Deciders \ {u} : deciding'[v] = deciding[v]
  BY <1>2, <1>3 DEF FollowInv, FollowTypeOK
<1>5. FollowTypeOK'
  BY <1>3, <1>4 DEF FollowInv, FollowTypeOK
<1>6. OneRowEach'
  BY <1>3 DEF FollowInv, OneRowEach
<1>7. OneDeciderEach'
  BY <1>1, <1>2, <1>3, <1>4 DEF FollowInv, OneDeciderEach, Busy, RowOf
<1> QED BY <1>3, <1>5, <1>6, <1>7 DEF FollowInv

-----------------------------------------------------------------------------
(* Steps of a run, of the people and of the clock *)

LEMMA DraftingKeeps ==
    ASSUME ~TwoRuns, FollowInv, NEW d \in Drafters,
           StartDrafts(d) \/ EndDrafts(d) \/ \E s \in Sources : DraftFor(d, s)
    PROVE  FollowInv'
<1>0. FollowTypeOK /\ waiting' = waiting /\ deciding' = deciding
  BY DEF FollowInv, StartDrafts, EndDrafts, DraftFor
<1>1. CASE StartDrafts(d)
  <2> DEFINE todo == waiting \ SpokenFor
             next == [on |-> TRUE, todo |-> todo]
  <2>1. todo \subseteq Sources /\ \A s \in todo, i \in Proposals : proposed[i].source # s
    <3>1. NoSource \notin todo
      BY <1>0, FollowUpAssumption DEF FollowTypeOK
    <3> QED BY <1>0, <3>1 DEF FollowTypeOK, SpokenFor
  <2>2. proposed' = proposed /\ drafting' = [drafting EXCEPT ![d] = next] /\ \A e \in Drafters : ~drafting[e].on
    BY <1>1 DEF StartDrafts
  <2> HIDE DEF todo
  <2>3. next \in [on: BOOLEAN, todo: SUBSET Sources] /\ next.todo = todo /\ next.on
    BY <2>1
  <2> HIDE DEF next
  <2>4. /\ drafting' \in [Drafters -> [on: BOOLEAN, todo: SUBSET Sources]] /\ drafting'[d] = next
        /\ \A e \in Drafters \ {d} : drafting'[e] = drafting[e]
    BY <1>0, <2>2, <2>3 DEF FollowTypeOK
  <2>5. OneRowEach'
    BY <2>1, <2>2, <2>3, <2>4 DEF FollowInv, OneRowEach
  <2>6. OneDeciderEach'
    BY <1>0, <2>2 DEF FollowInv, OneDeciderEach, Busy, RowOf
  <2> QED BY <1>0, <2>2, <2>4, <2>5, <2>6 DEF FollowInv, FollowTypeOK
<1>2. CASE EndDrafts(d)
  <2>1. proposed' = proposed /\ drafting' = [drafting EXCEPT ![d] = NotDrafting]
    BY <1>2 DEF EndDrafts
  <2>2. NotDrafting \in [on: BOOLEAN, todo: SUBSET Sources] /\ NotDrafting.todo = {} /\ ~NotDrafting.on
    BY DEF NotDrafting
  <2>4. /\ drafting' \in [Drafters -> [on: BOOLEAN, todo: SUBSET Sources]] /\ drafting'[d] = NotDrafting
        /\ \A e \in Drafters \ {d} : drafting'[e] = drafting[e]
    BY <1>0, <2>1, <2>2 DEF FollowTypeOK
  <2>5. OneRowEach'
    BY <2>1, <2>2, <2>4 DEF FollowInv, OneRowEach
  <2>6. OneDeciderEach'
    BY <1>0, <2>1 DEF FollowInv, OneDeciderEach, Busy, RowOf
  <2> QED BY <1>0, <2>1, <2>4, <2>5, <2>6 DEF FollowInv, FollowTypeOK
<1>3. ASSUME NEW s \in Sources, DraftFor(d, s)
      PROVE  FollowInv'
  <2> DEFINE next == [drafting[d] EXCEPT !.todo = @ \ {s}]
  <2>1. drafting' = [drafting EXCEPT ![d] = next] /\ s \in drafting[d].todo
    BY <1>3 DEF DraftFor
  <2>2. /\ next \in [on: BOOLEAN, todo: SUBSET Sources] /\ next.on = drafting[d].on
        /\ next.todo = drafting[d].todo \ {s}
    BY <1>0 DEF FollowTypeOK
  <2> HIDE DEF next
  <2>3. /\ drafting' \in [Drafters -> [on: BOOLEAN, todo: SUBSET Sources]] /\ drafting'[d] = next
        /\ \A e \in Drafters \ {d} : drafting'[e] = drafting[e]
    BY <1>0, <2>1, <2>2 DEF FollowTypeOK
  <2>4. /\ \A i \in Proposals : proposed[i].source # s
        /\ \A e \in Drafters : s \in drafting[e].todo => e = d
        /\ \A e \in Drafters : s \notin drafting'[e].todo
    BY <2>1, <2>2, <2>3 DEF FollowInv, OneRowEach
  <2>5. CASE UNCHANGED proposed
    <3>1. OneRowEach'
      BY <2>2, <2>3, <2>5 DEF FollowInv, OneRowEach
    <3>2. OneDeciderEach'
      BY <1>0, <2>5 DEF FollowInv, OneDeciderEach, Busy, RowOf
    <3> QED BY <1>0, <2>3, <2>5, <3>1, <3>2 DEF FollowInv, FollowTypeOK
  <2>6. ASSUME NEW i \in Proposals,
               proposed[i].status = "none", \A u \in Deciders : deciding[u].of # i,
               proposed' = [proposed EXCEPT ![i] = [status |-> "pending", source |-> s, texts |-> 0]]
        PROVE  FollowInv'
    <3> DEFINE row == [status |-> "pending", source |-> s, texts |-> 0]
    <3>1. row \in Proposal /\ row.status = "pending" /\ row.source = s /\ row.texts = 0
      BY DEF Proposal
    <3>2. s # NoSource
      BY FollowUpAssumption
    <3>3. proposed' = [proposed EXCEPT ![i] = row]
      BY <2>6
    <3> HIDE DEF row
    <3>4. /\ proposed' \in [Proposals -> Proposal] /\ proposed'[i] = row
          /\ \A j \in Proposals \ {i} : proposed'[j] = proposed[j]
      BY <1>0, <3>1, <3>3 DEF FollowTypeOK
    <3>5. OneRowEach'
      <4>1. (\A j, k \in Proposals : j # k /\ proposed[j].source = proposed[k].source =>
               proposed[j].source = NoSource)'
        BY <2>4, <3>1, <3>4 DEF FollowInv, OneRowEach
      <4>2. (\A j \in Proposals :
               /\ proposed[j].source = NoSource <=> proposed[j].status = "none"
               /\ proposed[j].status \in {"none", "pending"} => proposed[j].texts = 0)'
        BY <3>1, <3>2, <3>4 DEF FollowInv, OneRowEach
      <4>3. (\A e \in Drafters : \A t \in drafting[e].todo, j \in Proposals : proposed[j].source # t)'
        BY <2>2, <2>3, <2>4, <3>1, <3>4 DEF FollowInv, OneRowEach
      <4>4. (/\ \A e \in Drafters : ~drafting[e].on => drafting[e].todo = {}
             /\ \A e, f \in Drafters : drafting[e].on /\ drafting[f].on => e = f)'
        BY <2>2, <2>3 DEF FollowInv, OneRowEach
      <4> QED BY <4>1, <4>2, <4>3, <4>4 DEF OneRowEach
    <3>6. OneDeciderEach'
      BY <1>0, <2>6, <3>4 DEF FollowInv, OneDeciderEach, Busy, RowOf
    <3>7. (\A j \in Proposals : proposed[j].texts <= 1)'
      BY <3>1, <3>4 DEF FollowInv
    <3> QED BY <1>0, <2>3, <3>4, <3>5, <3>6, <3>7 DEF FollowInv, FollowTypeOK
  <2> QED BY <1>3, <2>5, <2>6 DEF DraftFor
<1> QED BY <1>1, <1>2, <1>3

LEMMA CooldownKeeps ==
    ASSUME FollowInv, NEW i \in Proposals, CooldownPasses(i)
    PROVE  FollowInv'
<1>1. /\ proposed' \in [Proposals -> Proposal] /\ proposed'[i] = Unproposed
      /\ \A j \in Proposals \ {i} : proposed'[j] = proposed[j]
      /\ UNCHANGED <<waiting, drafting, deciding>>
      /\ \A u \in Deciders : deciding[u].of # i
      /\ \A d \in Drafters : ~drafting[d].on
  BY BlankTypes DEF CooldownPasses, FollowInv, FollowTypeOK
<1>2. OneRowEach'
  <2>1. (\A j, k \in Proposals : j # k /\ proposed[j].source = proposed[k].source =>
           proposed[j].source = NoSource)'
    BY <1>1, BlankTypes DEF FollowInv, OneRowEach
  <2>2. (\A j \in Proposals :
           /\ proposed[j].source = NoSource <=> proposed[j].status = "none"
           /\ proposed[j].status \in {"none", "pending"} => proposed[j].texts = 0)'
    BY <1>1, BlankTypes DEF FollowInv, OneRowEach
  <2>3. \A d \in Drafters : drafting[d].todo = {}
    BY <1>1 DEF FollowInv, OneRowEach
  <2> QED BY <1>1, <2>1, <2>2, <2>3 DEF FollowInv, OneRowEach
<1>3. OneDeciderEach'
  BY <1>1 DEF FollowInv, OneDeciderEach, Busy, RowOf
<1>4. (\A j \in Proposals : proposed[j].texts <= 1)'
  BY <1>1, BlankTypes DEF FollowInv
<1> QED BY <1>1, <1>2, <1>3, <1>4 DEF FollowInv, FollowTypeOK

-----------------------------------------------------------------------------
(* The theorem *)

LEMMA FollowInvHolds ==
    ASSUME ~TwoRuns
    PROVE  FollowSpec => []FollowInv
<1>1. ASSUME FollowInit PROVE FollowInv
  <2>1. FollowTypeOK
    BY <1>1, BlankTypes DEF FollowInit, FollowTypeOK, NotDrafting
  <2>2. OneRowEach
    BY <1>1, BlankTypes DEF FollowInit, OneRowEach, NotDrafting
  <2>3. OneDeciderEach
    BY <1>1, BlankTypes DEF FollowInit, OneDeciderEach, Busy
  <2>4. \A i \in Proposals : proposed[i].texts <= 1
    BY <1>1, BlankTypes DEF FollowInit
  <2> QED BY <2>1, <2>2, <2>3, <2>4 DEF FollowInv
<1>2. ASSUME FollowInv, [FollowNext]_followVars PROVE FollowInv'
  <2>1. CASE \E d \in Drafters : StartDrafts(d) \/ EndDrafts(d) \/ \E s \in Sources : DraftFor(d, s)
    BY <1>2, <2>1, DraftingKeeps
  <2>2. CASE \E u \in Deciders : \E i \in Proposals, approve \in BOOLEAN : LoadProposal(u, i, approve)
    BY <1>2, <2>2, LoadKeeps
  <2>3. CASE \E u \in Deciders : \/ ClaimPending(u) \/ SendText(u) \/ LogText(u)
                               \/ MarkExecuted(u) \/ MarkFailed(u) \/ DecisionDies(u)
    BY <1>2, <2>3, DecidingKeeps
  <2>4. CASE \E s \in Sources : CustomerWaits(s) \/ StaffAnswers(s)
    <3>1. UNCHANGED <<proposed, drafting, deciding>> /\ waiting' \subseteq Sources
      BY <1>2, <2>4 DEF CustomerWaits, StaffAnswers, FollowInv, FollowTypeOK
    <3> QED BY <1>2, <3>1 DEF FollowInv, FollowTypeOK, OneRowEach, OneDeciderEach, Busy, RowOf
  <2>5. CASE \E i \in Proposals : CooldownPasses(i)
    BY <1>2, <2>5, CooldownKeeps
  <2>6. CASE UNCHANGED followVars
    BY <1>2, <2>6 DEF followVars, FollowInv, FollowTypeOK, OneRowEach, OneDeciderEach, Busy, RowOf
  <2> QED BY <1>2, <2>1, <2>2, <2>3, <2>4, <2>5, <2>6 DEF FollowNext
<1> QED BY <1>1, <1>2, PTL DEF FollowSpec

\* Whatever decisions, failures and crashes overlap, a source is texted about at
\* most once inside the cooldown, as long as the drafting runs do not overlap:
\* _claim_pending (services/proposals.py) gives a row to one request, and
\* _recent_sources gives a source one row.
THEOREM SourceIsTextedOnce ==
    ASSUME ~TwoRuns
    PROVE  FollowSpec => []TextedOnce
<1>1. ASSUME FollowInv PROVE TextedOnce
  <2>1. \A i \in Proposals : proposed[i].texts \in 0..2 /\ proposed[i].texts <= 1
    BY <1>1 DEF FollowInv, FollowTypeOK, Proposal
  <2>2. ASSUME NEW i \in Proposals, NEW j \in Proposals, i # j, proposed[i].source = proposed[j].source
        PROVE  proposed[i].texts + proposed[j].texts <= 1
    <3>1. proposed[i].texts = 0 /\ proposed[j].texts = 0
      BY <1>1, <2>2 DEF FollowInv, OneRowEach
    <3> QED BY <3>1
  <2> QED BY <2>1, <2>2 DEF TextedOnce
<1> QED BY <1>1, FollowInvHolds, PTL
=============================================================================
