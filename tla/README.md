# TLA+ verification of Hamyon

Hamyon is a wallet backend: Django REST handlers over PostgreSQL, one-time codes
and a balance cache in Redis, and a celery worker with a one-minute beat. A
wallet has no balance column. Every figure is summed from an append-only ledger,
and money moves only through requests that a client opens with an idempotency
key and confirms with a one-time code. This directory holds TLA+ models of that
core, TLC configurations that check them on small instances, and proofs that
TLAPS checks for every instance.

## 1. The system

| component | state | operations | talks to |
|---|---|---|---|
| ledger (`apps/core`) | `LedgerEntry` rows, insert only | `post_entry`, `get_wallet_balance` | written by the services below, inside their transactions |
| payment requests (`apps/payments`) | `PaymentRequest` rows: status, hold entry, expiry, unique key | `initiate_payment`, `confirm_payment`, `cancel_payment`, `expire_request` | guards, OTP, ledger |
| transfers (`apps/p2p`) | `TransferRequest` and `Transfer` rows | `initiate_transfer`, `confirm_transfer`, `expire_transfer_request` | guards, OTP, ledger |
| expiry sweep (`apps/payments/tasks.py`) | none of its own | `expire_stale_requests`, sent by beat every minute | both request tables |
| one-time codes (`apps/otp`) | three Redis keys per user and purpose: hash, attempts, lock | `send_otp`, `verify_otp` | Telegram |
| guards (`apps/core/services/guards.py`) | none of its own | `run_guards`: blacklist, KYC, balance | blacklist, KYC, ledger |
| KYC (`apps/kyc`, `apps/users/admin.py`) | applications, level per user | submit, approve, reject, spend limit; the form of a user | guards |
| blacklist (`apps/blacklist`) | entries, each its own audit record | block, unblock, `is_blocked`, middleware; the form of an entry | guards |
| balance cache (`balance.py`, `signals.py`) | one Redis key per wallet, 5 s | read through, invalidate in `post_save` | ledger |
| history (`apps/history`) | none of its own | cursor pages, CSV export task | ledger |
| notifications (`apps/notifications`) | a log row per attempt | `on_commit`, then a celery task | ledger |
| dynamic QR (`apps/p2p/qr.py`) | none: a signed token whose `ref_id` becomes the idempotency key | issue, decode | transfers |
| OTP bot (`apps/otp/telegram.py`) | none | sends a code, its failure is ignored | OTP |
| users, authentication, pages | users and tokens, kept by the framework | login, routing, read-only pages of the ledger | every handler |

The handlers run in three gunicorn workers with a 60 s timeout, next to celery
workers. The database runs at READ COMMITTED, every query in a transaction of
its own unless the code opens one (`transaction.atomic`). So the hard behaviours
are these:

* **interleavings.** Handlers look at a row without a lock, burn a code in
  Redis, and only then lock and decide. Two confirmations, a cancellation and
  the sweep may be after one request at once;
* **retries.** A client that got no answer sends its key again, perhaps while
  its first call is still running;
* **crashes.** A worker may die between any two statements. Redis and
  PostgreSQL do not commit together, and `initiate_transfer` commits twice;
* **time.** Requests and QR codes (900 s), one-time codes (90 s), attempt
  counters and locks (600 s) and cached balances (5 s) expire while handlers
  are at work;
* **stale reads.** A level, a status, a block or a page boundary is read in one
  statement and acted on in a later one. The forms of the admin site write back
  everything they were opened with;
* **messages.** A balance is dropped from the cache before its commit, a
  notification is queued after it, and either process may be gone by then;
* **locks.** Two rows, or three, are locked by most handlers, and PostgreSQL
  locks more of them on its own.

What makes each part correct: no wallet ever spends or reserves more than it
has; a request moves money exactly once, and only if it ends confirmed; a hold
is given back or spent exactly once; a closed request stays closed; every
request is closed in the end; a code that was used up or replaced is of no use;
the number of tries is bounded; nobody gets a level that was not approved for
him, and nobody blocked or rejected opens a request; a QR code opens one
request; the cache never shows what was not true and no decision rests on it;
the owner hears of an entry at most once, and of none that was rolled back; a
walk through the history repeats and skips nothing. `PROJECT.json` lists the hazards at their lines.

## 2. The modules

| module | models | state, and what it stands for |
|---|---|---|
| `Ledger` | `LedgerEntry`, `post_entry`, `get_wallet_balance` | a *book*: the four filtered sums of each wallet |
| `Requests` | what a client may ask for | a *call* is the key, kind, wallets and amount of a request row |
| `Accounts` | the promise of the handlers, abstractly | book, call and phase (`new`, `open`, `settled`, `void`) per request; three atomic actions |
| `Settlement` | all handlers of payments and transfers and the sweep, as concurrent processes | committed rows (`ledger`, `posted`, `call`, `status`), expired requests (`overdue`), row locks, and per process the statement it executes next, its call, and the status of the row object in its memory |
| `MCSettlement` | values of the constants for the three runs over `Settlement` | |
| `LedgerProofs` | lemmas about books and about sums over finite sets, for the modules that post or add up | |
| `SettlementProofs` | theorems about `Settlement` | |
| `RowLocks` | the same handlers reduced to the locks they take, those PostgreSQL takes on its own included | committed rows; per process its handler, call and number of locks granted |
| `MCRowLocks` | values for `RowLocks` | |
| `RowLocksProofs` | theorems about `RowLocks` | |
| `Otp` | `send_otp`, `verify_otp`, one Redis command per action | the three Redis keys, what each worker has read, and the history of every code |
| `MCOtp` | values for `Otp` | |
| `OtpProofs` | theorems about `Otp` | |
| `Kyc` | submission, approval and rejection of the applications of one user, and the form of the user admin | the rows and the user's level; per worker what it is about to write and the status or level it has read |
| `Guards` | `check_kyc` between the reviews and the money requests | per request its stage, its amount and the level its handler has loaded; the debits of the last 30 days |
| `MCGuards` | values for `Guards` | |
| `GuardsProofs` | theorems about `Guards` and `Kyc` | |
| `Blacklist` | `block`, `unblock`, `is_blocked` and the form of an entry | the rows, who has lifted each; per admin the row it has loaded and what it said |
| `Gate` | the middleware, the QR codes and the blacklist guards in front of transfers | codes, transfer requests; per worker its call and the next check of it |
| `MCGate` | values for `Gate` | |
| `GateProofs` | theorems about `Gate` and `Blacklist` | |
| `LedgerEvents` | the receivers of `post_save`, the balance cache, the message queue, the push task and its log | the committed book, the phase of each transaction and the entries it has written; the cached figures and what each reader is about to store; per entry where its message is |
| `MCLedgerEvents` | values for `LedgerEvents` | |
| `LedgerEventsProofs` | theorems about `LedgerEvents` | |
| `History` | the cursor walk with its filters, and the export task | entries with timestamp, type and the hold they release, posted, swept and committed; cursor, page and answers so far; the snapshot and the file |
| `MCHistory` | values for `History` | |
| `HistoryProofs` | theorems about `History` | |

`Settlement` extends `Requests`, which extends `Ledger`. It instantiates
`Accounts` with the refinement mapping `Phase`. `RowLocks` extends `Requests`
too, so both speak of the same calls. `Guards` extends `Kyc` and composes its
steps with those of the requests, of which it keeps only what the guard can see.
`Gate` extends `Blacklist` in the same way. `LedgerEvents` extends `Ledger` and
posts to the same book as `Settlement`, row by row. `History` needs no sums: its
rows are keys, timestamps and types.

### How actions correspond to code (`Settlement`)

One action is what a handler does up to the next point where another process
can matter: a row lock it waits for, an unlocked read it decides on, or its
commit. Rows written inside a transaction are invisible to the others before the
commit, so they are written by the action that commits them. A lock is released
by the end of its transaction, `Finish`.

| code | actions |
|---|---|
| `initiate_payment` | `InitiatePayment` (lookup), `PayLock` (wallet), `PayRefuse`/`PayNoFunds`/`PayGuard` (`run_guards`), `PayInsert` (insert or `IntegrityError`, hold, transition, commit) |
| `initiate_transfer` | `InitiateTransfer`, `XferGuard`, `XferInsert` (first commit), `XferMark` (second commit) |
| `confirm_payment` | `Confirm` (unlocked status), `ConfirmOtp`, `ConfirmRow`, `PayWallet`, `PaySettle` |
| `confirm_transfer` | `Confirm`, `ConfirmOtp`, `ConfirmRow`, `XferDecide`, `XferLock1`, `XferLock2`, `XferFunds`, `XferSettle` |
| `cancel_payment` | `CancelPayment`, `CancelRow`, `CancelWallet`, `CancelWrite` (its `FOR UPDATE` joins the wallet, so it locks both) |
| `expire_stale_requests` | `Expire` (the scan), `ExpireRow`, `ExpireWrite` |

Abstractions, and why they are safe:

* The answers of the blacklist and of KYC, and of `verify_otp`, are left open:
  either may come back at any time. Whatever they do, the properties hold.
* A retry that finds its row returns it and changes nothing. Only calls that
  find none are actions.
* The send of a code after the commit does not touch the database. That it may
  never happen is covered: users need not confirm.
* A transaction PostgreSQL aborts (deadlock, serialization, bigint overflow) is
  a `Crash`: nothing is written and its locks are free.
* A killed worker's transaction is rolled back when its connection breaks, in
  the same step as the crash.
* The foreign-key locks are in `RowLocks`. Here they could only delay a step.
* `BecomeOverdue` waits for the handler between the two commits of
  `initiate_transfer`. A handler lives 60 s, a request 900 s, so either the
  transition is over or the handler is dead by then.

### `RowLocks`

A transaction is the sequence of locks it takes (`PaymentLocks`,
`TransferLocks`), and may end between any two of them. Django declares foreign
keys `DEFERRABLE INITIALLY DEFERRED`, so the row a new row refers to is shared
(`FOR KEY SHARE`) at commit. The insert of an idempotency key waits for an
uncommitted insert of the same key. Request statuses are not kept: a handler
that would be turned away for one may run here too, which only adds waits.

### `Otp`

Redis runs one command, or one MULTI/EXEC pipeline, at a time, and nothing
larger is atomic. No command touches the keys of two users or purposes, so one
triple of keys stands for all. Codes are numbered as they are stored (`issue`);
`dead` holds those used, replaced, expired or locked out. Expiry guards follow
from the lifetimes: the counter is set to 90 s after the code was, and the lock
outlives every code stored before it.

### `Kyc` and `Guards`

One statement that others can see is one action. A submission looks (`Submit`)
and inserts (`Create`) in two transactions. A review loads the row without a
lock (`Load`), `transition_to` checks the status in memory, and the update names
the row by its id alone (`Approve`, `Reject`). The actions of the admin page
load several rows and then review them one by one, which a worker with one row
in hand does as well.

`check_kyc` reads three things at three times: the level comes from the user row
loaded at authentication (`Authenticate`; `seenLevel` keeps it until the request
is closed), then the latest application
(`CheckLatest`), then the sum of the debits (`CheckLimit`). The debit follows at
confirmation (`Settle`), and leaves the window after 30 days (`Age`). What the
blacklist, the balance and the code make of a request is `Refuse`.

The form of the user admin holds every field of the user from when it is opened
(`OpenForm`) and writes all of them (`SaveForm`). So it may put a level back that
a review has changed meanwhile. A level typed into it on purpose is not
modelled: it is what an operator wants.

### `Blacklist` and `Gate`

An entry is one row, active while nobody has lifted it. `unblock` trusts the
`is_active` of the row in memory and its update names the row by its id. The
admin site's form of an entry writes every field back, those that say who lifted
it included (`SaveForm`). A phone is looked up wherever its user is, so one
identity stands for both.

In `Gate` a transfer answers an *offer*: a dynamic QR code of the payee, which
anybody may scan, or a key the payer draws. One check is one action, because
each is a query of its own:

| code | actions |
|---|---|
| `issue_dynamic_qr`, lifetime of a code | `Issue`, `Expire` |
| `BlacklistMiddleware` before a view | `Initiate` or `Confirm` (the call comes in), `PassGate` |
| `decode_dynamic_qr` | `Decode` |
| `initiate_transfer` | `Lookup`, `GuardSender`, `GuardRecipient`, `Insert` |
| `confirm_transfer`, `expire_transfer_request` | `Settle`, `Void` |
| any refusal, or a killed worker | `Refuse` |

The middleware blocks the user of the token and the wallets that the body names.
It reads wallets from a JSON object only (`apps/blacklist/middleware.py:55-62`),
while the views take form bodies as well. So whether a body is JSON is left open
(`Named`): the user of the token is always looked up, the wallets perhaps. A QR code
names no wallet to it either, and a confirmation names none at all. A payer whose wallet is blocked may thus come through the
gate, and then `GuardSender` alone stops him. Issuing a code runs no guards, so
there a blocked wallet is stopped only if it is named in JSON. The
`shadow` of a call is the set of blocks of either party that stood when it came
in and have stood since.

### `LedgerEvents`

A transaction locks its wallets (`Lock`), decides on the aggregate (`Decide`),
writes its rows one after the other (`Post`) and commits. Every `Post` drops the
cached balance and registers a message at once, before the commit. After it,
the registered messages are queued one by one (`Queue`), unless the broker or the
process is gone (`LoseHooks`). The worker takes a task (`Take`), sends (`Push`)
and logs (`Log`). Celery acknowledges a task when it is taken, so a worker that
dies loses it (`Lose`). After a timeout of Telegram nobody knows whether the
message has arrived, so a failed push may have told the owner.

A reader that misses the cache sums the ledger (`Query`) and stores what it
found (`Fill`), with any number of commits in between. An entry of a kind nobody is
told about ends in silence; a failed push is logged like one that arrived.

The sweep does not lock the wallet of the reversal it posts. It is treated like
the others nevertheless, because its commit checks the foreign key and so waits
for whoever holds the wallet, and a reversal only adds to what can be spent.

### `History`

`created_at` is taken when the object is made, and the entry is visible from its
commit on, so the order of the timestamps is not that of the commits. Two kinds of
transactions post to a wallet:

* those that hold its row lock, one at a time: `Construct` for each entry, then
  `Commit` for all of them, or `Rollback`;
* the sweep, which locks only the request (`expire_request`,
  `apps/payments/services.py:110-118`). Each request is a transaction with a
  reversal of its own: `Sweep`, then `CommitSweep`, or `Rollback`. Any number of
  them may be open beside the other. The foreign key of the reversal is checked at
  commit, which waits for whoever holds the wallet. So the reversal may become
  visible after entries that are newer than it is.

Ids are random, so entries with equal timestamps become visible in no order of
their ids. `Fetch` is one page: the rows behind the cursor, up to the clamped page
size, and a cursor on the last of them if there are more. The clock does not go
back. The status of a hold depends on a reversal that may come later, so a row can start or
stop to match a filter during a walk. `steady` holds the rows a walk owes its
client: those that matched when it began or that came in behind its cursor later,
as long as they match.

The export task reads one snapshot through a server-side cursor (`ExportOpen`),
writes row by row (`ExportRow`) and sends the link last (`SendLink`).

## 3. The runs

| run | shows | properties |
|---|---|---|
| `Pairs` | any two requests that compete: two withdrawals, a withdrawal and a top-up, two transfers in opposite directions, one of each | `TypeOK`, `IndInv`, `NoOverdraft`, `HeldIsPending`, `EntriesMatchStatus`, `MoneyConserved`, `TerminalIsFinal`, `KeepsPromise` |
| `Closing` | every request is closed in the end: a withdrawal with its hold against a transfer over the same wallet, or two opposite transfers | `EveryRequestCloses` |
| `Waiting` | who may wait for whom in a circle | `TypeOK`, `OnlyInsertsDeadlock` |
| `OtpCodes` | codes with three workers, replacement, expiry, lockout, a crash | `TypeOK`, `DeadStaysDead`, `TriesBounded`, `OtpInv` |
| `SpendGuards` | requests against reviews of two applications, and the user form, by two workers | `GuardsTypeOK`, `BarredOpensNothing`, `LevelIsApproved`, `AloneWithinLimit`, `OverturnedByRace` |
| `Scans` | two payers with one code, or with keys of their own, against two admins | `GateTypeOK`, `GateInv`, `BlockedOpensNothing`, `BlockedUserSettlesNothing`, `CodeOpensOnce`, `StaleCodeOpensNothing`, `AuditKept` |
| `Events` | a transfer and a withdrawal over one unit of money, two readers of the cache, a worker that sends | `TypeOK`, `SpendsCovered`, `ShownWasTrue`, `TasksFindTheirEntries`, `PushedOnce`, `CacheCatchesUp`, `EveryEntryHandled` |
| `Walks` | a walk, or an export, while entries are posted and commit out of the order of their timestamps | `TypeOK`, `Descending`, `NothingSkipped`, `WalkInv`, `StatementComplete`, `WalkEnds` |
| `RetryRefused` | finding 1 | `RetryGetsTheRequest` is violated |
| `WaitingCircle` | finding 2 | `NoDeadlock` is violated |
| `OtpSingleUse` | finding 3 | `SingleUse` is violated |
| `SpendLimit` | finding 4 | `WithinLimit` is violated |

Bounds of the `Settlement` runs: two wallets (`RetryRefused`: one), two web
workers, one celery worker, one crash. `Pairs` has four keys, of which a
behaviour may use any two (`TwoRequests`, a state constraint). `Closing` has three
keys, a withdrawal and two transfers, of which a behaviour may use the withdrawal
and the first transfer, or both transfers (`OnePair`). The constraint cuts off
only calls of users, of whom no fairness is assumed, so no behaviour that it
drops is one that fairness would have enforced. A further key costs more there
than in `Pairs`, because each adds conditions of fairness; a top-up takes
the same steps as a withdrawal but for the hold. Every race the code has to survive is between two handlers
over one request, or over one wallet; the third process lets the sweep join. Both
web workers may use one key at once (retry), and amounts are chosen so that the
two requests do not fit the balance together. Keys and workers are unordered
(the workers are a symmetry set in the safety runs). Wallets are numbers because
the code orders them. `Waiting` has three web workers, so that circles of three
could arise, and a key that two clients send in opposite directions. `OtpCodes` has two
attempts instead of three, two codes sent and three workers: one more worker
than attempts. `SpendGuards` has two requests, because a limit is met or missed by
two of them, and two applications, because the latest must be told from an
earlier one.

`Scans` has two payers, one payee, one code, two workers, two admins and two
blocks. Its races are between two payers over the code, two admins over a row,
or a call and the blocks that concern it; `SmallCases`, a state constraint,
keeps these three apart: a second block while at most one call is under way,
and nothing but admins once two of them have a row. Payers, admins and workers
are symmetry sets. `Events` has one unit of money, so that the two transactions
exclude each other, and two readers, so that one may store a figure another has
made stale. `Walks` has four entries and two instants with pages of one and two
rows, so that timestamps tie within a page and across its end, and so that a
reversal of the first instant can be committed after an entry of the second; page
sizes 0 and 5 are clamped to 1 and 2. One filter is on a status that a later entry changes,
one combines type, time and status. `OneReader` drops only what cannot matter:
debits, which are read like credits, an export next to a walk, and what is posted
after the walk.

The runs that turn the deadlock check off are about systems that may stop: in
`Closing` both transfers of a behaviour may be closed and no payment exists to be cancelled, in
`Events` everything is posted and announced, in `Walks` the ids and the clock are
used up, in `Scans` everything is decided and the constraint admits no new call.

Fairness. `Settlement` (`FairSpec`): a handler that was started goes on, and
PostgreSQL grants a row lock in the order it was asked for (strong fairness of
`Step`). Time passes (weak fairness of `BecomeOverdue`). Beat sends the sweep
every minute (`config/celery.py:11-16`) and a sweep visits each stale row it
finds, so a request that stays stale is visited again and again (strong fairness
of `Expire`). Nothing is assumed of users or of the answers they get, and crashes
are bounded in number. Fairness is not what resolves deadlocks: with
sender-first locking (`SenderFirst`) the run fails.

`LedgerEvents`: transactions that hold their wallets go on, a reader stores or
dies, Redis expires what it holds, the process after its commit and the worker
go on; each is weak fairness, because each stays possible until it is done.
Nobody has to begin a transaction or ask for a balance, and any message may be lost.
`History`: a client that walks asks for the next page; nothing is assumed of
those who post, and the walk must not go in circles whatever they do.

### Findings

1. **A concurrent retry of a withdrawal may be refused.** The retry looks for
   the request before it waits for the wallet lock and not again before the
   balance guard, which then counts the hold of the request the retry repeats.
   No money is at risk (`EntriesMatchStatus`), but the answer is
   `insufficient_funds` instead of the existing request that the docstring
   (`apps/payments/services.py:20-21`) promises.
2. **The stable lock order does not rule out deadlocks.** The insert of a
   transfer request shares recipient, then sender at commit, whichever comes
   first, and may meet a confirmation half-way through its ordered locks.
   PostgreSQL aborts one of the two. `OnlyInsertsDeadlock` shows that no other
   combination of handlers can block.
3. **A code may be accepted twice**, when two verifications read it before
   either deletes it. The requests themselves still settle once each, because
   `ConfirmRow` looks again under the lock; two *different* requests of one
   purpose can be confirmed with one code.
4. **The spend limit can be exceeded.** Only debits count, and requests debit on
   confirmation, which does not look at the limit again. Two requests opened
   side by side may each fit and together exceed what
   `kyc/services.py:5` calls the maximum. `AloneWithinLimit` shows that a
   request that overlaps no other stays within the limit of the level its user
   had when he was authenticated for it. That level may have fallen since:
   neither the guard nor the confirmation reads it again.

More disagreements show in the models and have no run of their own:

* A decided application may be decided again, by an approval and a rejection
  that both loaded it while it was pending. After the second, a rejection, the
  user keeps the level, although `core/state.py:8` says that invalid transitions
  raise. `OverturnedByRace` shows that this race is the only way to it.
* Two submissions sent at once both insert a pending application, although
  `tests/test_api.py:122` says the second is rejected.
* A request that was open when the user's application was rejected is still
  settled, although `core/exceptions.py:13` says all transactions are forbidden
  then; `BarredOpensNothing` states what holds for those begun later.
* A block of a *wallet* does not stop the confirmation of a transfer that is
  open, although the confirmation is behind the middleware
  (`config/settings.py:150-151`): its body names no wallet. A block of the user
  does (`BlockedUserSettlesNothing`).
* The middleware sees no block of a wallet when the body is not JSON. Initiations
  are safe because the guards look again (`BlockedOpensNothing`).
* A reversal of the sweep may be committed among rows that a walk has already
  shown, and that walk never shows it. Cursor pages are called stable under
  concurrent inserts (`apps/history/pagination.py`), which `NothingSkipped` makes
  precise: nothing is lost that was there before, or came in behind the cursor.
* Two admins who lift one block at once both succeed and the second overwrites
  the record of the first, and a form of the admin site saved late may put a
  lifted block back and erase who lifted it (`blacklist/models.py` calls the row the audit record).
  `AuditKept` shows that nothing else does.
* A payer who scans a code again after his first scan opened a request is
  answered with an error and not with his request, because the code counts as
  used, although a repeated key otherwise returns the request.
* A push whose worker dies before the log row leaves no trace, although every
  attempt is said to be logged (`notifications/models.py`).

## 4. What is proved

In `SettlementProofs`, from the assumptions on the constants alone (wallets are
numbers; wallets and keys, being UUIDs, are finitely many; calls are well-formed
with positive amounts; the keys of the two tables are apart; web and celery
processes are different; opening balances are natural):

| theorem | statement |
|---|---|
| `Invariance` | `Spec => []IndInv` |
| `TypeSafety` | `Spec => []TypeOK` |
| `Solvency` | `Spec => []NoOverdraft` |
| `Bookkeeping` | `Spec => []EntriesMatchStatus` |
| `Finality` | `Spec => TerminalIsFinal` |
| `Refinement` | `Spec => KeepsPromise` |
| `HoldsAreWithdrawals` | `Spec => []HeldIsPending` |
| `MoneyIsConserved` | `Spec => []MoneyConserved` |
| `NoMoneyFromNowhere` | `Spec => []PayoutsCovered` |
| `BalancesExplained` | `Spec => []BalanceExplained` |

None of the safety properties is inductive alone. A state in which a process is
about to settle a request that is closed already satisfies them all, and its next step breaks them.
`IndInv` says what the locks are for: whoever stands behind a row lock remembers
the status the row has (`RowsLocked`), whoever stands behind a wallet lock finds
the funds it checked (`FundsLocked`), the unmarked transfer belongs to the handler that
inserted it (`MarksOwned`), and jobs and rows agree (`RowsWellFormed`,
`JobsWellFormed`). Its preservation is proved action by action. Those that close
a request share lemmas on the rows a status calls for (`RowsDue`). The
refinement maps each closing step to `Settle` or `Void`, each insert to `Open`,
and everything else to a stutter.

The last four theorems are about sums, and there the refinement pays off. By
`StepRefines` every step of the handlers is one of the three of `Accounts` or
none, so it is enough to see what opening, settling and voiding one request do
to the sums over the requests of a phase: `HeldStep` for the holds of each wallet
(`HeldAddsUp`), `MoneyStep` for the balances of all (`MoneyAddsUp`). Settling a
transfer moves an amount between two different wallets, as `SumMoved` says.
`PayoutsCovered` needs everything at once: the holds are no debts, so with
`NoOverdraft` no balance is, and with conservation the confirmed withdrawals
cannot exceed what was there and what came in. `BalanceExplained` says the same
as conservation wallet by wallet: a balance is what the confirmed requests of
the wallet come to. No run lists these two:
`PayoutsCovered` follows from three properties that `Pairs` checks, and TLC found
both to hold on the instance of `Pairs` as well.

The community modules define a sum by a recursive function on sets, of which
`LedgerProofs` proves what the others use. Induction over sets is out of
reach as a theorem to cite, because its predicate is a parameter; instead each
lemma takes the smallest set that refutes it (`SmallestSet`, from the library's
theorem that a finite set of sets has a minimal element) and finds a smaller one.
On this rest the uniqueness and the existence of the recursive function
(`SumUnique`, `SumExists`), that any element may be taken out first (`SumRemove`),
and what a sum does when one or two of its terms change.

In `RowLocksProofs`, for any workers, requests and calls:

| theorem | statement |
|---|---|
| `LocksInvariance` | `Spec => []LocksInv` |
| `WorkersTyped` | `Spec => []TypeOK` |
| `InsertsAloneDeadlock` | `Spec => []OnlyInsertsDeadlock` |

`LocksInv` adds that the locks of two transactions never conflict
(`LocksExclude`), because `Acquire` is enabled only then. From it follows who can
wait for whom in a knot, a set of transactions each of which waits for another of
the set. The other handlers of a payment take its wallet last and then commit,
and a payment being initiated, which takes the wallet first, asks only for its
own key after that, which nobody who waits can hold (`NoKeyInKnots`). So a wallet
somebody in a knot waits for is held by a transfer (`WalletHolders`), and the
transfers of a knot form one among themselves
(`TransfersStayAmongThemselves`). If none of them were an insert, each
confirmation would wait for a wallet whose holder waits for a higher one, but
among finitely many wallets there is a highest.

In `OtpProofs`, from its assumptions (workers are finitely many, the bounds are
natural, at least one attempt is allowed):

| theorem | statement |
|---|---|
| `OtpInvariance` | `Spec => []OtpInv` |
| `NoReplay` | `Spec => []DeadStaysDead` |
| `GuessesBounded` | `Spec => []TriesBounded` |
| `CodesTyped` | `Spec => []TypeOK` |
| `AcceptancesBounded` | `Spec => []AcceptedBounded` |

The bound on tries follows from `TriesCounted`: each try of the live code has
been counted, is in the hands of a worker past the comparison, or belongs to a
worker that died; and once the allowed number is counted somebody is on the way
to delete the code. Those two groups of workers are disjoint, so together they
are no more than the workers there are. Most steps only move a worker between
the groups, and the proof counts them with the theorems on cardinality.

`AcceptancesBounded` says how far the code falls short of `SingleUse`, which it
breaks: a code lets through at most one verification per worker. While it is live it
has let nobody through, and afterwards only those who had read it can still
succeed (`AcceptedInv`). The bound is reached when all of them read it first.

In `GuardsProofs`, for any workers, applications, requests and limits:

| theorem | statement |
|---|---|
| `GuardsTypes` | `GuardsSpec => []GuardsTypeOK` |
| `LevelsAreApproved` | `GuardsSpec => []LevelIsApproved` |
| `DecisionsStand` | `GuardsSpec => OverturnedByRace` |
| `BarredStayOut` | `GuardsSpec => []BarredOpensNothing` |
| `AloneStaysWithin` | `GuardsSpec => AloneWithinLimit` |

`GuardsInv` adds that applications are numbered without gaps, that a review
whose row no other review had loaded knows its status (`ReviewsKnow`,
`ReviewsRace`), that a form shows an approved level (`FormsAreHonest`), and that
nobody is barred but by a rejection that stands. `AloneStaysWithin` needs two
facts more (`LimitInv`): two requests that are under way together have both
overlapped; and one that has passed the check without overlap still has room in
the window under the limit of the level its handler loaded, since only its own debit could
have filled it. The window is a sequence, and its sum that of the
indices, so that an append and the loss of the oldest debit fall under the
lemmas on sums.

In `GateProofs`, for any parties, admins, workers, codes and blocks:

| theorem | statement |
|---|---|
| `GateInvariance` | `GateSpec => []GateInv` |
| `GateTypes` | `GateSpec => []GateTypeOK` |
| `BlockedOpens` | `GateSpec => []BlockedOpensNothing` |
| `BlockedUserSettles` | `GateSpec => []BlockedUserSettlesNothing` |
| `OneRequestPerCode` | `GateSpec => []CodeOpensOnce` |
| `StaleCodeOpens` | `GateSpec => []StaleCodeOpensNothing` |
| `AuditTrail` | `GateSpec => AuditKept` |

The checks look at different identities one after the other, so the invariant
says how the shadow of a call shrinks as it passes them, up to nothing before the
insert. Of the gate the proof uses only that it looks at the user of the token; the
wallets are what the guards take from the shadow. Rows
are never deleted, so a code that is used stays used; an expired one stays expired.

In `LedgerEventsProofs`, for any transactions, rows and readers, from the
assumption that no transaction reserves and spends from one wallet:

| theorem | statement |
|---|---|
| `EventTypes` | `Spec => []TypeOK` |
| `SpendsAreCovered` | `Spec => []SpendsCovered` |
| `CacheIsHonest` | `Spec => []ShownWasTrue` |
| `TasksAfterCommit` | `Spec => []TasksFindTheirEntries` |
| `AtMostOncePush` | `Spec => []PushedOnce` |

The invariant has three parts: the wallets of two active transactions are
disjoint, so what was decided under the locks stays true until the commit
(`LedgerInv`); what a reader holds and the cache keeps is one of the past
figures (`CacheInv`); and a message has been pushed only if it is past that step
(`MessageInv`). The lemmas on books in `LedgerProofs` serve
`Settlement`, too.

In `HistoryProofs`, for any entries, filters, page sizes and instants:

| theorem | statement |
|---|---|
| `WalkInvariance` | `Spec => []WalkInv` |
| `PagesDescend` | `Spec => []Descending` |
| `NothingIsSkipped` | `Spec => []NothingSkipped` |
| `StatementIsComplete` | `Spec => []StatementComplete` |
| `WalksTyped` | `Spec => []TypeOK` |

What a walk has shown lies at or before its cursor, and an entry that becomes
visible meanwhile, one of the sweep with an old timestamp included, lies either
there or behind it, in which case it joins `steady` and is still to come. A page
holds no more than the largest page size (`FirstKeeps`). The order is total, because
ids differ where timestamps tie, and a finite set has a last row to put the cursor on.

Only model-checked: `EveryRequestCloses`, `CacheCatchesUp`, `EveryEntryHandled`
and `WalkEnds`, which are liveness under fairness and out of the prover's reach.
Every invariant and every action property of the passing runs has a theorem. The
four expected violations are counterexamples, and there is nothing to prove.

## 5. Not modelled, and the plan

Next, in this order: `Otp` composed with `Settlement` (one code, two requests of
one purpose); an abstract history that the walk implements, with the proof that
it does.

Left out, and why:

* the text of messages, the Telegram calls of the OTP bot, PNG and JWT encoding,
  the base64 of a cursor and the layout of the CSV: input, output and pure
  encoding, about which no property here speaks;
* fields that an operator changes on purpose in a form of the admin site: any
  value may be typed there, so no property of the data would be left. Saving a
  form for another field is modelled;
* login, tokens, routing and the read-only pages: the framework's code;
* the creation of users and wallets: a wallet without entries has balance 0 and
  concerns nobody, so the sets of users and wallets are constants;
* `otp.service.invalidate`, which nothing calls;
* amounts beyond bigint: the insert raises and the transaction rolls back, which
  is a `Crash`.
