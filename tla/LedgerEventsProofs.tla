------------------------- MODULE LedgerEventsProofs -------------------------
(***************************************************************************)
(* Proofs about LedgerEvents, for any transactions, wallets and readers:   *)
(* what is spent is there, what is shown was true, a message follows its   *)
(* commit, and at most one reaches the owner.                              *)
(*                                                                         *)
(* The ledger, the cache and the messages have an invariant each; the one  *)
(* of the cache reads the ledger, the one of the messages the phases.      *)
(***************************************************************************)
EXTENDS LedgerEvents, LedgerProofs

\* A transaction past its decision still finds the money, because it alone
\* has the wallets.
LedgerInv ==
  /\ book \in Books
  /\ past = [w \in Wallets |-> past[w]]
  /\ \A w \in Wallets : Figures(book, w) \in past[w]
  /\ phase \in [Txns -> {"new", "locked", "posting", "committed", "over"}]
  /\ written \subseteq Entries
  /\ SpendsCovered
  /\ \A t, u \in Active : t # u => Touched(t) \cap Touched(u) = {}
  /\ \A t \in Txns : phase[t] = "posting" =>
       \A w \in Touched(t) : Spends(t, w) => Available(book, w) >= 1

CacheInv ==
  /\ cache = [w \in Wallets |-> cache[w]]
  /\ reader = [r \in Readers |-> reader[r]]
  /\ \A r \in Readers : reader[r] # Idle => reader[r][2] \in Wallets
  /\ ShownWasTrue

\* Until its push an entry has had none, and one that is not the owner's
\* business never comes to it.
MessageInv ==
  /\ task \in [Entries -> TaskStates]
  /\ pushes \in [Entries -> Nat]
  /\ log \in [Entries -> {"none", "sent", "failed"}]
  /\ TasksFindTheirEntries
  /\ \A e \in Entries :
       /\ task[e] \in {"none", "hooked"} => log[e] = "none"
       /\ task[e] \in {"none", "hooked", "queued", "running"} => pushes[e] = 0
       /\ task[e] \in {"running", "sent", "failed"} => Notifiable(e)
       /\ pushes[e] <= IF Notifiable(e) THEN 1 ELSE 0

EventsInv == LedgerInv /\ CacheInv /\ MessageInv

LEMMA EntryParts ==
  ASSUME NEW e \in Entries
  PROVE  /\ e[1] \in Txns /\ e[2] \in Wallets /\ e[3] \in EntryTypes
         /\ <<e[2], e[3]>> \in Rows[e[1]]
  BY DEF Entries

LEMMA TouchedWallets ==
  ASSUME NEW t \in Txns
  PROVE  /\ Touched(t) \subseteq Wallets
         /\ \A w \in Wallets, y \in EntryTypes : <<w, y>> \in Rows[t] => w \in Touched(t)
<1>1. Rows[t] \subseteq Wallets \X EntryTypes
  BY EventsAssumption
<1>2. \A row \in Rows[t] : row[1] \in Wallets
  BY <1>1
<1>3. \A w \in Wallets, y \in EntryTypes : <<w, y>>[1] = w
  OBVIOUS
<1> QED
  BY <1>2, <1>3 DEF Touched

LEMMA InitEventsInv == Init => EventsInv
<1> SUFFICES ASSUME Init PROVE EventsInv
  OBVIOUS
<1>1. book \in Books
  BY EventsAssumption DEF Init, Books, EntryTypes
<1>2. ASSUME NEW w \in Wallets
      PROVE  Available(book, w) >= 0
  <2>1. /\ book[w]["credit"] = Opening[w] /\ book[w]["debit"] = 0
        /\ book[w]["hold"] = 0 /\ book[w]["reversal"] = 0
    BY DEF Init, EntryTypes
  <2>2. Opening[w] \in Nat
    BY EventsAssumption
  <2> QED
    BY <2>1, <2>2 DEF Available, Balance, Held
<1>3. LedgerInv
  BY <1>1, <1>2 DEF Init, LedgerInv, SpendsCovered, Active
<1>4. CacheInv
  BY DEF Init, CacheInv, ShownWasTrue
<1>5. MessageInv
  <2>1. /\ task = [e \in Entries |-> "none"] /\ pushes = [e \in Entries |-> 0]
        /\ log = [e \in Entries |-> "none"]
    BY DEF Init
  <2>2. /\ task \in [Entries -> TaskStates] /\ pushes \in [Entries -> Nat]
        /\ log \in [Entries -> {"none", "sent", "failed"}]
    BY <2>1 DEF TaskStates
  <2>3. \A e \in Entries : task[e] = "none" /\ pushes[e] = 0 /\ log[e] = "none"
    BY <2>1
  <2> QED
    BY <2>2, <2>3 DEF MessageInv, TasksFindTheirEntries
<1> QED
  BY <1>3, <1>4, <1>5 DEF EventsInv

-----------------------------------------------------------------------------
(***************************************************************************)
(* The ledger.                                                             *)
(***************************************************************************)
\* A book a transaction does not write to has the same figures after it.
LEMMA Untouched ==
  ASSUME book \in Books, NEW t \in Txns, NEW w \in Wallets, w \notin Touched(t)
  PROVE  Available(PostEntries(book, Rows[t], 1), w) = Available(book, w)
<1>1. \A y \in EntryTypes : <<w, y>> \notin Rows[t]
  BY TouchedWallets
<1> QED
  BY <1>1, PostEntriesAvailable, FigureTypes DEF EntryTypes

LEMMA CommitLedger ==
  ASSUME NEW t \in Txns, LedgerInv, Commit(t)
  PROVE  LedgerInv'
<1> DEFINE b == PostEntries(book, Rows[t], 1)
<1>1. /\ phase[t] = "posting"
      /\ phase' = [phase EXCEPT ![t] = "committed"]
      /\ book' = b /\ written' \subseteq written
      /\ past' = [w \in Wallets |-> past[w] \cup {Figures(book', w)}]
  BY DEF Commit
<1>2. book' \in Books
  BY <1>1, PostEntriesType DEF LedgerInv
<1>3. \A w \in Wallets : w \notin Touched(t) => Available(book', w) = Available(book, w)
  BY <1>1, Untouched DEF LedgerInv
<1>4. ASSUME NEW w \in Wallets
      PROVE  Available(book', w) >= 0
  <2>1. Available(book, w) \in Int /\ Available(book, w) >= 0
    BY FigureTypes DEF LedgerInv, SpendsCovered
  <2>2. CASE w \notin Touched(t)
    BY <1>3, <2>1, <2>2
  <2>3. CASE w \in Touched(t)
    <3>1. Spends(t, w) => Available(book, w) >= 1
      BY <1>1, <2>3 DEF LedgerInv
    <3>2. Available(book', w) =
            Available(book, w) + (IF <<w, "credit">> \in Rows[t] THEN 1 ELSE 0)
                               - (IF <<w, "debit">> \in Rows[t] THEN 1 ELSE 0)
                               - (IF <<w, "hold">> \in Rows[t] THEN 1 ELSE 0)
                               + (IF <<w, "reversal">> \in Rows[t] THEN 1 ELSE 0)
      BY <1>1, PostEntriesAvailable DEF LedgerInv
    <3>3. <<w, "hold">> \in Rows[t] => <<w, "debit">> \notin Rows[t]
      BY EventsAssumption
    <3> QED
      BY <2>1, <3>1, <3>2, <3>3 DEF Spends
  <2> QED
    BY <2>2, <2>3
<1>5. Active' = Active \ {t} /\ t \in Active
  BY <1>1 DEF LedgerInv, Active
<1>6. ASSUME NEW u \in Txns, phase'[u] = "posting", NEW w \in Touched(u)
      PROVE  Spends(u, w) => Available(book', w) >= 1
  <2>1. u # t /\ phase[u] = "posting" /\ u \in Active
    BY <1>1, <1>6 DEF LedgerInv, Active
  <2>2. w \in Wallets /\ w \notin Touched(t)
    BY <1>5, <1>6, <2>1, TouchedWallets DEF LedgerInv
  <2> QED
    BY <1>3, <1>6, <2>1, <2>2 DEF LedgerInv
<1>7. phase' \in [Txns -> {"new", "locked", "posting", "committed", "over"}]
  BY <1>1 DEF LedgerInv
<1>8. \A w \in Wallets : Figures(book', w) \in past'[w]
  BY <1>1
<1> HIDE DEF b
<1> QED
  BY <1>1, <1>2, <1>4, <1>5, <1>6, <1>7, <1>8 DEF LedgerInv, SpendsCovered

LEMMA LedgerStep ==
  ASSUME LedgerInv, [Next]_vars
  PROVE  LedgerInv'
<1>1. CASE \E t \in Txns : Commit(t)
  BY <1>1, CommitLedger
<1>2. ASSUME NEW t \in Txns, Lock(t)
      PROVE  LedgerInv'
  <2>1. Active' = Active \cup {t}
    BY <1>2 DEF LedgerInv, Active, Lock
  <2>2. \A u \in Active : Touched(u) \cap Touched(t) = {}
    BY <1>2 DEF Lock
  <2> QED
    BY <1>2, <2>1, <2>2 DEF LedgerInv, Lock, SpendsCovered
<1>3. ASSUME NEW t \in Txns, Decide(t)
      PROVE  LedgerInv'
  <2>1. Active' \subseteq Active
    BY <1>3 DEF LedgerInv, Active, Decide
  <2>2. phase'[t] = "posting" => \A w \in Touched(t) : Spends(t, w) => Available(book, w) >= 1
    BY <1>3 DEF LedgerInv, Decide, AvailableNow
  <2> QED
    BY <1>3, <2>1, <2>2 DEF LedgerInv, Decide, SpendsCovered
<1>4. ASSUME NEW t \in Txns, Abort(t)
      PROVE  LedgerInv'
  <2>1. Active' \subseteq Active
    BY <1>4 DEF LedgerInv, Active, Abort
  <2> QED
    BY <1>4, <2>1 DEF LedgerInv, Abort, SpendsCovered, Active
<1>5. ASSUME NEW t \in Txns, NEW e \in Entries, Post(t, e)
      PROVE  LedgerInv'
  BY <1>5 DEF LedgerInv, Post, SpendsCovered, Active
<1>6. CASE UNCHANGED ledger
  BY <1>6 DEF LedgerInv, ledger, SpendsCovered, Active
<1> QED
  BY <1>1, <1>2, <1>3, <1>4, <1>5, <1>6
     DEF Next, Transact, LoseHooks, Fill, ReaderDies, Query, Expire, Queue, Take, Push,
         Log, Lose, vars

-----------------------------------------------------------------------------
(***************************************************************************)
(* The cache.                                                              *)
(***************************************************************************)
LEMMA PastGrows ==
  ASSUME LedgerInv, [Next]_vars, NEW w \in Wallets
  PROVE  past[w] \subseteq past'[w]
<1>1. ASSUME NEW t \in Txns, Commit(t)
      PROVE  past[w] \subseteq past'[w]
  BY <1>1 DEF Commit
<1>2. (\E t \in Txns : Commit(t)) \/ UNCHANGED past
  BY DEF Next, Transact, Lock, Decide, Post, Abort, LoseHooks, Fill, ReaderDies, Query,
         Expire, Queue, Take, Push, Log, Lose, vars, ledger
<1> QED
  BY <1>1, <1>2

LEMMA CacheStep ==
  ASSUME LedgerInv, CacheInv, [Next]_vars
  PROVE  CacheInv'
<1>1. \A w \in Wallets : past[w] \subseteq past'[w]
  BY PastGrows
<1>2. ASSUME NEW t \in Txns, NEW e \in Entries, Post(t, e)
      PROVE  CacheInv'
  BY <1>1, <1>2, EntryParts DEF CacheInv, ShownWasTrue, Post, Drop
<1>3. ASSUME NEW r \in Readers, NEW w \in Wallets, Query(r, w)
      PROVE  CacheInv'
  <2>1. Figures(book, w) \in past'[w]
    BY <1>1 DEF LedgerInv
  <2>2. <<"got", w, Figures(book, w)>>[2] = w
        /\ <<"got", w, Figures(book, w)>>[3] = Figures(book, w)
    OBVIOUS
  <2> QED
    BY <1>1, <1>3, <2>1, <2>2 DEF CacheInv, ShownWasTrue, Query
<1>4. ASSUME NEW r \in Readers, Fill(r)
      PROVE  CacheInv'
  BY <1>1, <1>4 DEF CacheInv, ShownWasTrue, Fill
<1>5. ASSUME NEW r \in Readers, ReaderDies(r)
      PROVE  CacheInv'
  BY <1>1, <1>5 DEF CacheInv, ShownWasTrue, ReaderDies
<1>6. ASSUME NEW w \in Wallets, Expire(w)
      PROVE  CacheInv'
  BY <1>1, <1>6 DEF CacheInv, ShownWasTrue, Expire
<1>7. CASE UNCHANGED caching
  BY <1>1, <1>7 DEF CacheInv, ShownWasTrue, caching
<1> QED
  BY <1>2, <1>3, <1>4, <1>5, <1>6, <1>7
     DEF Next, Transact, Lock, Decide, Commit, Abort, LoseHooks, Queue, Take, Push,
         Log, Lose, vars

-----------------------------------------------------------------------------
(***************************************************************************)
(* The messages.                                                           *)
(***************************************************************************)
\* What was committed stays so.
LEMMA CommittedStays ==
  ASSUME LedgerInv, [Next]_vars, NEW t \in Txns, phase[t] = "committed"
  PROVE  phase'[t] = "committed"
  BY DEF LedgerInv, Next, Transact, Lock, Decide, Commit, Post, Abort, LoseHooks, Fill,
         ReaderDies, Query, Expire, Queue, Take, Push, Log, Lose, vars, ledger, Active

LEMMA MessageStep ==
  ASSUME LedgerInv, MessageInv, [Next]_vars
  PROVE  MessageInv'
<1>1. \A e \in Entries : phase[e[1]] = "committed" => phase'[e[1]] = "committed"
  BY CommittedStays, EntryParts
<1> USE DEF MessageInv, TasksFindTheirEntries, TaskStates
<1>2. ASSUME NEW t \in Txns, NEW e \in Entries, Post(t, e)
      PROVE  MessageInv'
  <2>1. task[e] \in {"none", "hooked"}
    BY <1>2 DEF Post
  <2> QED
    BY <1>1, <1>2, <2>1 DEF Post, Hook
<1>3. ASSUME NEW t \in Txns, Abort(t)
      PROVE  MessageInv'
  BY <1>1, <1>3 DEF Abort
<1>4. ASSUME NEW t \in Txns, LoseHooks(t)
      PROVE  MessageInv'
  BY <1>1, <1>4 DEF LoseHooks, ledger
<1>5. ASSUME NEW e \in Entries, Queue(e)
      PROVE  MessageInv'
  BY <1>1, <1>5 DEF Queue, Goto
<1>6. ASSUME NEW e \in Entries, Take(e)
      PROVE  MessageInv'
  BY <1>1, <1>6 DEF Take, Goto
<1>7. ASSUME NEW e \in Entries, Push(e)
      PROVE  MessageInv'
  BY <1>1, <1>7 DEF Push, Goto
<1>8. ASSUME NEW e \in Entries, Log(e)
      PROVE  MessageInv'
  BY <1>1, <1>8 DEF Log, Goto
<1>9. ASSUME NEW e \in Entries, Lose(e)
      PROVE  MessageInv'
  BY <1>1, <1>9 DEF Lose, Goto
<1>10. CASE UNCHANGED messages
  BY <1>1, <1>10 DEF messages
<1> QED
  BY <1>2, <1>3, <1>4, <1>5, <1>6, <1>7, <1>8, <1>9, <1>10
     DEF Next, Transact, Lock, Decide, Commit, Fill, ReaderDies, Query, Expire, vars

-----------------------------------------------------------------------------
\* What holds of the ledger, the cache and the messages at every moment.
THEOREM EventsInvariance == Spec => []EventsInv
<1>1. EventsInv /\ [Next]_vars => EventsInv'
  BY LedgerStep, CacheStep, MessageStep DEF EventsInv
<1> QED
  BY InitEventsInv, <1>1, PTL DEF Spec

THEOREM EventTypes == Spec => []TypeOK
<1>1. EventsInv => TypeOK
  BY DEF EventsInv, LedgerInv, MessageInv, TypeOK
<1> QED
  BY EventsInvariance, <1>1, PTL

\* get_wallet_balance(use_cache=False) under the lock: whatever is in the
\* cache, no wallet is overdrawn.
THEOREM SpendsAreCovered == Spec => []SpendsCovered
<1>1. EventsInv => SpendsCovered
  BY DEF EventsInv, LedgerInv
<1> QED
  BY EventsInvariance, <1>1, PTL

\* drop_balance_cache inside the transaction: a reader may see figures that
\* are late, never figures that were never committed.
THEOREM CacheIsHonest == Spec => []ShownWasTrue
<1>1. EventsInv => ShownWasTrue
  BY DEF EventsInv, CacheInv
<1> QED
  BY EventsInvariance, <1>1, PTL

\* push_after_ledger_event queues on_commit: no task for what is not there.
THEOREM TasksAfterCommit == Spec => []TasksFindTheirEntries
<1>1. EventsInv => TasksFindTheirEntries
  BY DEF EventsInv, MessageInv
<1> QED
  BY EventsInvariance, <1>1, PTL

\* send_ledger_push is acknowledged when it is taken: no second message.
THEOREM AtMostOncePush == Spec => []PushedOnce
<1>1. EventsInv => PushedOnce
  BY DEF EventsInv, MessageInv, PushedOnce, Notifiable
<1> QED
  BY EventsInvariance, <1>1, PTL
=============================================================================
