---------------------------- MODULE LedgerEvents ----------------------------
(***************************************************************************)
(* What every new ledger entry sets off: post_save drops the balance cache *)
(* inside the transaction (core/signals.py), and registers a message that  *)
(* is queued after its commit (notifications/signals.py).  Readers fill    *)
(* the cache meanwhile, spenders decide without it, and a celery worker    *)
(* sends the messages.                                                     *)
(*                                                                         *)
(* The transactions are those of Settlement, with all their wallets locked *)
(* at once; an entry is its transaction, its wallet and its type.  (The    *)
(* sweep does not lock the wallet: its commit waits for whoever does.  Its *)
(* reversal only adds to what is available, and is treated like the rest.) *)
(***************************************************************************)
EXTENDS Ledger, FiniteSets

CONSTANTS
  Txns,      \* money transactions of amount 1
  Rows,      \* the <<wallet, type>> rows each of them writes
  Opening,   \* what each wallet was credited with before
  Readers    \* threads that answer WalletBalanceView

ASSUME EventsAssumption ==
  /\ Rows \in [Txns -> SUBSET (Wallets \X EntryTypes)]
  \* No handler reserves and spends at once.
  /\ \A t \in Txns, w \in Wallets :
       <<w, "hold">> \in Rows[t] => <<w, "debit">> \notin Rows[t]
  /\ Opening \in [Wallets -> Nat]

Entries == {e \in Txns \X Wallets \X EntryTypes : <<e[2], e[3]>> \in Rows[e[1]]}

\* What get_wallet_balance returns.
Figures(book, w) ==
  [balance |-> Balance(book, w), held |-> Held(book, w),
   available |-> Available(book, w)]

NoFigures == [balance |-> 0, held |-> 0, available |-> -1]

VARIABLES
  book,     \* the committed ledger
  past,     \* history: the figures each wallet has had
  phase,    \* per transaction: "new", "locked", "posting", "committed", "over"
  written,  \* the entries of those that are posting
  cache,    \* wallet:balance:{id} in Redis, or NoFigures
  reader,   \* per reader: the wallet and figures it is about to store
  task,     \* per entry: where its message is
  pushes,   \* history: messages the owner was sent about it
  log       \* NotificationLog rows

ledger == <<book, past, phase, written>>
caching == <<cache, reader>>
messages == <<task, pushes, log>>
vars == <<ledger, caching, messages>>

Idle == <<"idle">>

TaskStates ==
  {"none", "hooked", "queued", "running", "sent", "failed", "done", "lost"}

TypeOK ==
  /\ book \in Books
  /\ phase \in [Txns -> {"new", "locked", "posting", "committed", "over"}]
  /\ written \subseteq Entries
  /\ task \in [Entries -> TaskStates]
  /\ pushes \in [Entries -> Nat]
  /\ log \in [Entries -> {"none", "sent", "failed"}]
  /\ \A e \in Entries : task[e] = "none" => pushes[e] = 0 /\ log[e] = "none"

Init ==
  /\ book = [w \in Wallets |->
               [t \in EntryTypes |-> IF t = "credit" THEN Opening[w] ELSE 0]]
  /\ past = [w \in Wallets |-> {Figures(book, w)}]
  /\ phase = [t \in Txns |-> "new"]
  /\ written = {}
  /\ cache = [w \in Wallets |-> NoFigures]
  /\ reader = [r \in Readers |-> Idle]
  /\ task = [e \in Entries |-> "none"]
  /\ pushes = [e \in Entries |-> 0]
  /\ log = [e \in Entries |-> "none"]

-----------------------------------------------------------------------------
(***************************************************************************)
(* The transactions.                                                       *)
(***************************************************************************)
Touched(t) == {row[1] : row \in Rows[t]}

Active == {t \in Txns : phase[t] \in {"locked", "posting"}}

\* A new hold, or a debit no reservation stands for, needs available funds.
Spends(t, w) ==
  \/ <<w, "hold">> \in Rows[t]
  \/ <<w, "debit">> \in Rows[t] /\ <<w, "reversal">> \notin Rows[t]

\* select_for_update on the wallets.
Lock(t) ==
  /\ phase[t] = "new"
  /\ \A u \in Active : Touched(u) \cap Touched(t) = {}
  /\ phase' = [phase EXCEPT ![t] = "locked"]
  /\ UNCHANGED <<book, past, written, caching, messages>>

\* A decision on the cached figure, use_cache=True.
CachedAvailable(w) ==
  IF cache[w] = NoFigures THEN Available(book, w) ELSE cache[w].available

\* get_wallet_balance(use_cache=False): the aggregate, under the lock.
AvailableNow(w) == Available(book, w)

Decide(t) ==
  /\ phase[t] = "locked"
  /\ phase' = [phase EXCEPT ![t] =
       IF \A w \in Touched(t) : Spends(t, w) => AvailableNow(w) >= 1
         THEN "posting" ELSE "over"]
  /\ UNCHANGED <<book, past, written, caching, messages>>

\* The figures stored anew instead of dropped.
Refresh(e) ==
  cache' = [cache EXCEPT ![e[2]] =
    Figures(PostEntries(book, {<<e[2], d[3]>> : d \in {d \in written \cup {e} :
                                  d[1] = e[1] /\ d[2] = e[2]}}, 1), e[2])]

\* drop_balance_cache
Drop(e) == cache' = [cache EXCEPT ![e[2]] = NoFigures]

\* send_ledger_push.delay without on_commit.
QueueAtOnce(e) == task' = [task EXCEPT ![e] = "queued"]

\* push_after_ledger_event
Hook(e) == task' = [task EXCEPT ![e] = "hooked"]

\* post_entry with both receivers of post_save.
Post(t, e) ==
  /\ phase[t] = "posting"
  /\ e \notin written /\ e[1] = t
  /\ written' = written \cup {e}
  /\ Drop(e)
  /\ Hook(e)
  /\ UNCHANGED <<book, past, phase, reader, pushes, log>>

Of(t) == {e \in Entries : e[1] = t}

Commit(t) ==
  /\ phase[t] = "posting"
  /\ Of(t) \subseteq written
  /\ phase' = [phase EXCEPT ![t] = "committed"]
  /\ written' = written \ Of(t)
  /\ book' = PostEntries(book, Rows[t], 1)
  /\ past' = [w \in Wallets |-> past[w] \cup {Figures(book', w)}]
  /\ UNCHANGED <<caching, messages>>

\* A guard, an error of Redis in a receiver, a deadlock or a crash: the
\* transaction is rolled back and what was registered in it forgotten.
Abort(t) ==
  /\ t \in Active
  /\ phase' = [phase EXCEPT ![t] = "over"]
  /\ written' = written \ Of(t)
  /\ task' = [e \in Entries |->
                IF e[1] = t /\ task[e] = "hooked" THEN "none" ELSE task[e]]
  /\ UNCHANGED <<book, past, caching, pushes, log>>

-----------------------------------------------------------------------------
(***************************************************************************)
(* The cache.                                                              *)
(***************************************************************************)

\* A miss; the aggregate.  (A hit changes nothing.)
Query(r, w) ==
  /\ reader[r] = Idle
  /\ cache[w] = NoFigures
  /\ reader' = [reader EXCEPT ![r] = <<"got", w, Figures(book, w)>>]
  /\ UNCHANGED <<ledger, cache, messages>>

\* cache.set with the figures as they were; or the thread dies before.
Fill(r) ==
  /\ reader[r] # Idle
  /\ cache' = [cache EXCEPT ![reader[r][2]] = reader[r][3]]
  /\ reader' = [reader EXCEPT ![r] = Idle]
  /\ UNCHANGED <<ledger, messages>>

ReaderDies(r) ==
  /\ reader[r] # Idle
  /\ reader' = [reader EXCEPT ![r] = Idle]
  /\ UNCHANGED <<ledger, cache, messages>>

\* cache.set without a timeout.
NeverExpire(w) == FALSE /\ UNCHANGED vars

\* CACHE_TTL_SECONDS have passed.
Expire(w) ==
  /\ cache[w] # NoFigures
  /\ cache' = [cache EXCEPT ![w] = NoFigures]
  /\ UNCHANGED <<ledger, reader, messages>>

-----------------------------------------------------------------------------
(***************************************************************************)
(* The messages.                                                           *)
(***************************************************************************)
Goto(e, state) == task' = [task EXCEPT ![e] = state]

\* After the commit, the registered calls one after the other.
Queue(e) ==
  /\ task[e] = "hooked" /\ phase[e[1]] = "committed"
  /\ Goto(e, "queued")
  /\ UNCHANGED <<ledger, caching, pushes, log>>

\* The broker is away, or the process dies: delay raises, and the calls
\* behind it are not made either.
LoseHooks(t) ==
  /\ phase[t] = "committed"
  /\ \E e \in Of(t) : task[e] = "hooked"
  /\ task' = [e \in Entries |->
                IF e[1] = t /\ task[e] = "hooked" THEN "lost" ELSE task[e]]
  /\ UNCHANGED <<ledger, caching, pushes, log>>

Notifiable(e) == e[3] \in {"credit", "debit"}

\* The worker takes the task off the queue, which acknowledges it.
Take(e) ==
  /\ task[e] = "queued"
  /\ Goto(e, IF Notifiable(e) THEN "running" ELSE "done")
  /\ UNCHANGED <<ledger, caching, pushes, log>>

\* send_telegram_push; after a timeout the owner may have got the message.
Push(e) ==
  /\ task[e] = "running"
  /\ \/ Goto(e, "sent") /\ pushes' = [pushes EXCEPT ![e] = @ + 1]
     \/ Goto(e, "failed") /\ pushes' \in {pushes, [pushes EXCEPT ![e] = @ + 1]}
  /\ UNCHANGED <<ledger, caching, log>>

\* Only what was sent is logged.
LogSent(e) ==
  /\ task[e] \in {"sent", "failed"}
  /\ log' = [log EXCEPT ![e] = IF task[e] = "sent" THEN "sent" ELSE @]
  /\ Goto(e, "done")
  /\ UNCHANGED <<ledger, caching, pushes>>

\* NotificationLog.objects.create
Log(e) ==
  /\ task[e] \in {"sent", "failed"}
  /\ log' = [log EXCEPT ![e] = task[e]]
  /\ Goto(e, "done")
  /\ UNCHANGED <<ledger, caching, pushes>>

\* acks_late: the task of a worker that dies is delivered again.
Redeliver(e) ==
  /\ task[e] \in {"running", "sent", "failed"} /\ pushes[e] < 2
  /\ Goto(e, "queued")
  /\ UNCHANGED <<ledger, caching, pushes, log>>

\* The worker dies, or the broker loses the message: a plain shared_task is
\* acknowledged when it is taken.
Lose(e) ==
  /\ task[e] \in {"queued", "running", "sent", "failed"}
  /\ Goto(e, "lost")
  /\ UNCHANGED <<ledger, caching, pushes, log>>

-----------------------------------------------------------------------------
Transact(t) == Lock(t) \/ Decide(t) \/ Commit(t) \/ \E e \in Entries : Post(t, e)

Next ==
  \/ \E t \in Txns : Transact(t) \/ Abort(t) \/ LoseHooks(t)
  \/ \E r \in Readers : Fill(r) \/ ReaderDies(r) \/ \E w \in Wallets : Query(r, w)
  \/ \E w \in Wallets : Expire(w)
  \/ \E e \in Entries : Queue(e) \/ Take(e) \/ Push(e) \/ Log(e) \/ Lose(e)

Spec == Init /\ [][Next]_vars

\* Handlers and the worker go on, a reader ends, a cached value expires.
\* Nobody has to ask for anything.
FairSpec ==
  /\ Spec
  /\ \A t \in Txns : WF_vars(phase[t] # "new" /\ Transact(t))
  /\ \A r \in Readers : WF_vars(Fill(r))
  /\ \A w \in Wallets : WF_vars(Expire(w))
  /\ \A e \in Entries : WF_vars(Queue(e) \/ Take(e) \/ Push(e) \/ Log(e))

-----------------------------------------------------------------------------
\* "A financial decision must never be made on a cached number": whatever
\* the cache shows, nobody spends more than there is.
SpendsCovered == \A w \in Wallets : Available(book, w) >= 0

\* What a balance request may answer was true at some commit: never an entry
\* of a transaction that is open or was rolled back.
ShownWasTrue ==
  /\ \A w \in Wallets : cache[w] # NoFigures => cache[w] \in past[w]
  /\ \A r \in Readers : reader[r] # Idle => reader[r][3] \in past[reader[r][2]]

\* A fill that lost the race against a commit does not last: when nothing
\* more is posted, the cache shows the ledger or nothing.
CacheCatchesUp ==
  <>[](\A w \in Wallets : cache[w] \in {NoFigures, Figures(book, w)})

\* "Never notify about a transaction that rolled back": a task finds its
\* entry, and the Transfer that names the sender, because it is not queued
\* before everything its transaction writes is committed.
TasksFindTheirEntries ==
  \A e \in Entries : task[e] \notin {"none", "hooked"} => phase[e[1]] = "committed"

\* The owner hears at most once of a credit or debit, and never of a hold or
\* a reversal.
PushedOnce == \A e \in Entries : pushes[e] <= IF e[3] \in {"credit", "debit"} THEN 1 ELSE 0

\* How the message of an entry may end.  A failed push may have arrived.
Handled(e) ==
  \/ task[e] = "lost"
  \/ task[e] = "done" /\ IF Notifiable(e)
                          THEN log[e] = "failed" \/ (log[e] = "sent" /\ pushes[e] = 1)
                          ELSE log[e] = "none" /\ pushes[e] = 0

\* "Every push attempt is logged": a committed credit or debit ends with a row
\* in the log, sent if its owner was told and failed if nobody knows, and a
\* hold or reversal in silence, unless a process or the broker failed on the
\* way (send_ledger_push).
EveryEntryHandled ==
  \A e \in Entries : phase[e[1]] = "committed" ~> Handled(e)
=============================================================================
