----------------------------- MODULE MailThreads -----------------------------
(***************************************************************************)
(* Mail and texts become conversations: the sync of one Gmail account      *)
(* (run_account_inbox_sync and run_inbox_sync of modules/gmail/router.py,  *)
(* woken by the tick and by Google's push), the shared inbox, the Twilio   *)
(* webhook and the office's "link to client" (modules/comms/router.py).    *)
(*                                                                         *)
(* A sync threads all the mail it fetched in one transaction and moves the *)
(* account's history cursor in the next.  The thread of a person is looked *)
(* up, or opened, under a lock on the person which is held to the end of   *)
(* the transaction.                                                        *)
(*                                                                         *)
(* A history id is the set of mails that had arrived when it was taken.    *)
(* Conversations are counted per person, messages only known as stored.    *)
(***************************************************************************)
EXTENDS Integers, FiniteSets

CONSTANTS
    Clients,    \* people the CRM knows
    Strangers,  \* addresses it does not know, and does not make a client of
    Mails, Texts,
    Sender,     \* who wrote each mail and text
    Workers,    \* ticks, pushes, webhooks and office requests at work at once
    NoCursor, NoMail, NoOneYet,
    MaxThreads, \* conversations per stranger (a bound for TLC)
    Losses      \* a mail arrives between a scan and its cursor; a mail, or a commit, fails

ASSUME MailAssumption ==
    /\ Sender \in [Mails \cup Texts -> Clients \cup Strangers]
    /\ Clients \cap Strangers = {} /\ Mails \cap Texts = {} /\ NoMail \notin Mails \cup Texts
    /\ MaxThreads \in Nat /\ Losses \in BOOLEAN

VARIABLES
    arrived,  \* mails in the Gmail inbox
    cursor,   \* user_google_accounts.gmail_history_id
    stored,   \* messages
    threads,  \* conversations per person
    work      \* what each worker is doing, and its transaction

mailVars == <<arrived, cursor, stored, threads, work>>

People == Clients \cup Strangers
Letters == Mails \cup Texts

\* wrote, opened and locks belong to the open transaction; upTo is the cursor to
\* be stored after it; hand is the letter that waits for its sender's lock.
Work == [doing: {"nothing", "scanned", "threading", "marking", "linking", "folding"},
         todo: SUBSET Letters, upTo: (SUBSET Mails) \cup {NoCursor}, hand: Letters \cup {NoMail},
         wrote: SUBSET Letters, opened: SUBSET People, locks: SUBSET People,
         thread: Strangers \cup {NoOneYet}, client: Clients \cup {NoOneYet}, siblings: Nat]
NoWork == [doing |-> "nothing", todo |-> {}, upTo |-> NoCursor, hand |-> NoMail, wrote |-> {},
           opened |-> {}, locks |-> {}, thread |-> NoOneYet, client |-> NoOneYet, siblings |-> 0]

MailTypeOK ==
    /\ arrived \subseteq Mails
    /\ cursor \in (SUBSET Mails) \cup {NoCursor}
    /\ stored \subseteq Letters
    /\ threads \in [People -> Nat]
    /\ work \in [Workers -> Work]

MailInit ==
    /\ arrived = {}
    /\ cursor = NoCursor
    /\ stored = {}
    /\ threads = [p \in People |-> 0]
    /\ work = [w \in Workers |-> NoWork]

-----------------------------------------------------------------------------
Is(w, doing) == work[w].doing = doing
Works(w, new) == work' = [work EXCEPT ![w] = new]
Rests(w) == Works(w, NoWork)

\* Mutation: the person is looked up without the lock.
LookUpUnlocked(w, p) == TRUE

\* _lock_conversation_identity
LockFree(w, p) == \A v \in Workers \ {w} : p \notin work[v].locks

\* Whether a mail, or a commit, succeeds.
Results == IF Losses THEN BOOLEAN ELSE {TRUE}

-----------------------------------------------------------------------------
(* What starts a worker *)

Arrive(m) ==
    /\ m \notin arrived
    /\ Losses \/ \A w \in Workers : ~Is(w, "scanned")
    /\ arrived' = arrived \cup {m}
    /\ UNCHANGED <<cursor, stored, threads, work>>

\* Mutation: the cursor is stored with the fetch.
FetchAndMark(w) ==
    /\ Is(w, "nothing") /\ cursor # NoCursor
    /\ Works(w, [NoWork EXCEPT !.doing = "threading", !.todo = arrived \ cursor, !.upTo = arrived])
    /\ cursor' = arrived
    /\ UNCHANGED <<arrived, stored, threads>>

\* fetch_inbox_incremental
Fetch(w) ==
    /\ Is(w, "nothing") /\ cursor # NoCursor
    /\ Works(w, [NoWork EXCEPT !.doing = "threading", !.todo = arrived \ cursor, !.upTo = arrived])
    /\ UNCHANGED <<arrived, cursor, stored, threads>>

\* The first sync, or one whose cursor Gmail no longer knows: a full scan, and
\* then the mailbox's current id.
Scan(w) ==
    /\ Is(w, "nothing")
    /\ Works(w, [NoWork EXCEPT !.doing = "scanned", !.todo = arrived])
    /\ UNCHANGED <<arrived, cursor, stored, threads>>

Seed(w) ==
    /\ Is(w, "scanned")
    /\ Works(w, [work[w] EXCEPT !.doing = "threading", !.upTo = arrived])
    /\ UNCHANGED <<arrived, cursor, stored, threads>>

\* The shared inbox has no cursor among these; a webhook brings one text.
Bring(w, letters) ==
    /\ Is(w, "nothing")
    /\ Works(w, [NoWork EXCEPT !.doing = "threading", !.todo = letters])
    /\ UNCHANGED <<arrived, cursor, stored, threads>>

-----------------------------------------------------------------------------
(* Threading *)

\* _thread_inbound_email and twilio_inbound look for the message before the lock.
Check(w) ==
    /\ Is(w, "threading") /\ work[w].hand = NoMail
    /\ \E m \in work[w].todo :
          Works(w, IF m \in stored \cup work[w].wrote THEN [work[w] EXCEPT !.todo = @ \ {m}]
                   ELSE [work[w] EXCEPT !.todo = @ \ {m}, !.hand = m])
    /\ UNCHANGED <<arrived, cursor, stored, threads>>

\* find_or_create_conversation, by what is committed and what this transaction
\* opened.  A client's resolved conversation is found, a stranger's is not.
Found(w, p) == threads[p] > 0 \/ p \in work[w].opened
Resolved(p) == p \in Strangers /\ threads[p] < MaxThreads

\* A mail that fails does so in its savepoint, and the sync goes on.
ThreadMail(w) ==
    LET p == Sender[work[w].hand]
        dropped == [work[w] EXCEPT !.hand = NoMail, !.locks = @ \cup {p}]
        threaded == [dropped EXCEPT !.wrote = @ \cup {work[w].hand}]
    IN /\ Is(w, "threading") /\ work[w].hand # NoMail
       /\ LockFree(w, p)
       /\ \E ok \in Results, open \in BOOLEAN :
             /\ open => ok /\ (~Found(w, p) \/ Resolved(p))
             /\ ok /\ ~open => Found(w, p)
             /\ Works(w, CASE ~ok -> dropped
                           [] open -> [threaded EXCEPT !.opened = @ \cup {p}]
                           [] OTHER -> threaded)
       /\ UNCHANGED <<arrived, cursor, stored, threads>>

\* A commit that fails is rolled back and logged, and the cursor follows as well.
Commit(w) ==
    /\ Is(w, "threading") /\ work[w].hand = NoMail /\ work[w].todo = {}
    /\ \E ok \in Results :
          LET made == IF ok THEN work[w] ELSE NoWork
          IN /\ stored' = stored \cup made.wrote
             /\ threads' = [p \in People |-> threads[p] + (IF p \in made.opened THEN 1 ELSE 0)]
    /\ Works(w, IF work[w].upTo = NoCursor THEN NoWork
                ELSE [NoWork EXCEPT !.doing = "marking", !.upTo = work[w].upTo])
    /\ UNCHANGED <<arrived, cursor>>

\* mark_sync commits the cursor of the sync that finished last, even an older one.
Mark(w) ==
    /\ Is(w, "marking")
    /\ cursor' = work[w].upTo
    /\ Rests(w)
    /\ UNCHANGED <<arrived, stored, threads>>

Dies(w) ==
    /\ ~Is(w, "nothing")
    /\ Rests(w)
    /\ UNCHANGED <<arrived, cursor, stored, threads>>

-----------------------------------------------------------------------------
(* link_conversation_client: a stranger turns out to be a client *)

OpenLink(w, s, c) ==
    /\ Is(w, "nothing") /\ threads[s] > 0
    /\ Works(w, [NoWork EXCEPT !.doing = "linking", !.thread = s, !.client = c])
    /\ UNCHANGED <<arrived, cursor, stored, threads>>

\* Under the client's lock the thread becomes the client's and its siblings are read.
Relink(w) ==
    LET c == work[w].client
    IN /\ Is(w, "linking") /\ threads[work[w].thread] > 0
       /\ LockFree(w, c)
       /\ Works(w, [work[w] EXCEPT !.doing = "folding", !.locks = {c}, !.siblings = threads[c]])
       /\ UNCHANGED <<arrived, cursor, stored, threads>>

\* The oldest keeps all messages; deleting the others waits for messages that
\* are being written to the thread.
CommitLink(w) ==
    LET s == work[w].thread
        c == work[w].client
    IN /\ Is(w, "folding") /\ threads[s] > 0 /\ LockFree(w, s)
       /\ threads' = [threads EXCEPT ![s] = @ - 1, ![c] = @ - work[w].siblings + 1]
       /\ Rests(w)
       /\ UNCHANGED <<arrived, cursor, stored>>

MailNext ==
    \/ \E m \in Mails : Arrive(m)
    \/ \E w \in Workers :
        \/ Fetch(w) \/ Scan(w) \/ Seed(w)
        \/ Bring(w, arrived) \/ \E t \in Texts : Bring(w, {t})
        \/ Check(w) \/ ThreadMail(w) \/ Commit(w) \/ Mark(w) \/ Dies(w)
        \/ \E s \in Strangers, c \in Clients : OpenLink(w, s, c)
        \/ Relink(w) \/ CommitLink(w)

MailSpec == MailInit /\ [][MailNext]_mailVars

-----------------------------------------------------------------------------
(* Properties *)

\* "a known client has ONE thread": texts, syncs that overlap and the linking
\* of a stranger's thread never leave a client with two, now that no index
\* forbids it.
OneThread == \A c \in Clients : threads[c] <= 1

\* "a failure mid-sync re-reads the same window next time rather than skipping
\* messages": the cursor never stands past a mail that is not stored, through
\* crashes and through syncs that overtake each other.
MailIsKept == cursor # NoCursor => cursor \subseteq stored
=============================================================================
