----------------------------- MODULE Settlement -----------------------------
(***************************************************************************)
(* The money handlers: apps/payments/services.py, apps/p2p/services.py and *)
(* the expiry task, running as concurrent processes over PostgreSQL at     *)
(* READ COMMITTED.                                                         *)
(*                                                                         *)
(* One action is one database transaction's step up to the next row lock   *)
(* it takes, the next unlocked read it bases a decision on, or its commit. *)
(* Rows written inside a transaction are invisible to the others before it *)
(* commits, so they are written by the action that commits it; a crash     *)
(* before that action rolls everything back and frees the locks.           *)
(*                                                                         *)
(* The answers of the blacklist and KYC guards and of verify_otp are left  *)
(* open (either answer may come back): their own state is not part of this *)
(* module.                                                                 *)
(***************************************************************************)
EXTENDS Requests, FiniteSetsExt

CONSTANTS
  Web,         \* gunicorn workers: they serve the HTTP handlers
  Celery,      \* celery workers: they run expire_stale_requests
  NoProc,      \* holder of a lock nobody holds
  MaxCrashes   \* bound on the handlers that die half-way

Procs == Web \cup Celery

ASSUME ProcsAssumption ==
  /\ Web \cap Celery = {}
  /\ NoProc \notin Procs
  /\ MaxCrashes \in Nat

OpenStatuses == {"initiated", "otp_pending"}
FinalStatuses == {"confirmed", "cancelled", "expired"}
Statuses == {"absent"} \cup OpenStatuses \cup FinalStatuses

(***************************************************************************)
(* Where a handler stands: the statement it executes next.                 *)
(***************************************************************************)
PayLabels == {"pay_lock", "pay_guard", "pay_insert"}
XferLabels == {"xfer_guard", "xfer_insert", "xfer_mark"}
ConfirmLabels == {"conf_otp", "conf_row", "pay_wallet", "pay_settle",
                  "xfer_decide", "xfer_lock1", "xfer_lock2", "xfer_funds",
                  "xfer_settle"}
CancelLabels == {"cancel_row", "cancel_wallet", "cancel_write"}
ExpireLabels == {"exp_row", "exp_write"}
Labels == {"idle"} \cup PayLabels \cup XferLabels \cup ConfirmLabels
            \cup CancelLabels \cup ExpireLabels

VARIABLES
  ledger,      \* the committed ledger rows, as the four sums per wallet
  posted,      \* per request and entry type: how many ledger rows it wrote
  call,        \* the columns of each committed request row
  status,      \* its status column; "absent" when there is no row
  overdue,     \* the requests whose expires_at has passed
  rowLock,     \* who holds the FOR UPDATE lock of each request row
  walletLock,  \* and of each wallet row
  pc,          \* where each process stands
  job,         \* the call or request row it works on
  mem,         \* the status of the row object in its memory
  crashes      \* how many handlers have died so far

db == <<ledger, posted, call, status>>
locks == <<rowLock, walletLock>>
procs == <<pc, job, mem>>
vars == <<db, overdue, locks, procs, crashes>>

TypeOK ==
  /\ ledger \in Books
  /\ posted \in [Keys -> [EntryTypes -> Nat]]
  /\ call \in [Keys -> Calls \cup {NoCall}]
  /\ status \in [Keys -> Statuses]
  /\ overdue \subseteq Keys
  /\ rowLock \in [Keys -> Procs \cup {NoProc}]
  /\ walletLock \in [Wallets -> Procs \cup {NoProc}]
  /\ pc \in [Procs -> Labels]
  /\ job \in [Procs -> Calls \cup {NoCall}]
  /\ mem \in [Procs -> Statuses]
  /\ crashes \in Nat

Init ==
  /\ ledger = OpeningBook
  /\ posted = [k \in Keys |-> [t \in EntryTypes |-> 0]]
  /\ call = [k \in Keys |-> NoCall]
  /\ status = [k \in Keys |-> "absent"]
  /\ overdue = {}
  /\ rowLock = [k \in Keys |-> NoProc]
  /\ walletLock = [w \in Wallets |-> NoProc]
  /\ pc = [p \in Procs |-> "idle"]
  /\ job = [p \in Procs |-> NoCall]
  /\ mem = [p \in Procs |-> "absent"]
  /\ crashes = 0

-----------------------------------------------------------------------------
(***************************************************************************)
(* Steps every handler is made of.                                         *)
(***************************************************************************)
Goto(p, label) == pc' = [pc EXCEPT ![p] = label]

Begin(p, label, c) ==
  /\ pc[p] = "idle"
  /\ Goto(p, label)
  /\ job' = [job EXCEPT ![p] = c]
  /\ UNCHANGED <<db, overdue, locks, mem, crashes>>

\* The end of a transaction, committed or rolled back, and of its handler.
Finish(p) ==
  /\ Goto(p, "idle")
  /\ job' = [job EXCEPT ![p] = NoCall]
  /\ mem' = [mem EXCEPT ![p] = "absent"]
  /\ rowLock' = [k \in Keys |-> IF rowLock[k] = p THEN NoProc ELSE rowLock[k]]
  /\ walletLock' = [w \in Wallets |->
                      IF walletLock[w] = p THEN NoProc ELSE walletLock[w]]

\* A handler that raises or returns without having written anything.
GiveUp(p) ==
  /\ Finish(p)
  /\ UNCHANGED <<db, overdue, crashes>>

Free(holder) == holder = NoProc

\* The wallet read without select_for_update.
ReadWallet(p, w, label) ==
  /\ Goto(p, label)
  /\ UNCHANGED <<db, overdue, locks, job, mem, crashes>>

LockWallet(p, w, label) ==
  /\ Free(walletLock[w])
  /\ walletLock' = [walletLock EXCEPT ![w] = p]
  /\ Goto(p, label)
  /\ UNCHANGED <<db, overdue, rowLock, job, mem, crashes>>

\* The handler keeps working with the row object of its first look.
LockRowOnly(p, label) ==
  LET k == job[p].key IN
  /\ Free(rowLock[k])
  /\ rowLock' = [rowLock EXCEPT ![k] = p]
  /\ mem' = [mem EXCEPT ![p] = "otp_pending"]
  /\ Goto(p, label)
  /\ UNCHANGED <<db, overdue, walletLock, job, crashes>>

\* The row is read again when the lock is granted.
LockRow(p, label) ==
  LET k == job[p].key IN
  /\ Free(rowLock[k])
  /\ rowLock' = [rowLock EXCEPT ![k] = p]
  /\ mem' = [mem EXCEPT ![p] = status[k]]
  /\ Goto(p, label)
  /\ UNCHANGED <<db, overdue, walletLock, job, crashes>>

\* The recipient's leg is not written with the sender's.
PostWithoutCredit(c, entries) ==
  LET written == {e \in entries : e[2] # "credit"} IN
  /\ ledger' = PostEntries(ledger, written, c.amount)
  /\ posted' = [posted EXCEPT ![c.key] =
                  [t \in EntryTypes |->
                     IF \E w \in Wallets : <<w, t>> \in written
                       THEN @[t] + 1 ELSE @[t]]]

(***************************************************************************)
(* post_entry for the given <<wallet, type>> pairs, in the amount of c.    *)
(***************************************************************************)
Post(c, entries) ==
  /\ ledger' = PostEntries(ledger, entries, c.amount)
  /\ posted' = [posted EXCEPT ![c.key] =
                  [t \in EntryTypes |->
                     IF \E w \in Wallets : <<w, t>> \in entries
                       THEN @[t] + 1 ELSE @[t]]]

\* The hold's id never stored on the request.
NoHoldFound(k) == FALSE

\* hold_entry_id is set, and no reversal refers to that entry yet.
HoldOpen(k) == posted[k]["hold"] > 0 /\ posted[k]["reversal"] = 0

(***************************************************************************)
(* _release_hold: a reversal row, unless there is nothing to release.      *)
(***************************************************************************)
ReleaseHold(c) == IF HoldOpen(c.key) THEN {<<c.wallet, "reversal">>} ELSE {}

\* transition_to that does not look at the status it leaves.
AnyTransition(from, to) == TRUE

(***************************************************************************)
(* StateMachineMixin.transition_to over the ALLOWED of both request models.*)
(***************************************************************************)
MayBecome(from, to) ==
  \/ from = "initiated" /\ to \in {"otp_pending", "cancelled", "expired"}
  \/ from = "otp_pending" /\ to \in {"confirmed", "cancelled", "expired"}

Save(k, to) == status' = [status EXCEPT ![k] = to]

-----------------------------------------------------------------------------
(***************************************************************************)
(* initiate_payment.  A retry that finds the row returns it and changes    *)
(* nothing, so only the calls that find none are actions.                  *)
(***************************************************************************)
InitiatePayment(p, c) ==
  /\ c.kind \in {"topup", "withdraw"}
  /\ status[c.key] = "absent"
  /\ Begin(p, "pay_lock", c)

PayLock(p) ==
  /\ pc[p] = "pay_lock"
  /\ LockWallet(p, job[p].wallet, "pay_guard")

\* run_guards: the blacklist or KYC may refuse anyone ...
PayRefuse(p) ==
  /\ pc[p] = "pay_guard"
  /\ GiveUp(p)

\* ... the balance refuses a withdrawal it cannot cover ...
PayNoFunds(p) ==
  /\ pc[p] = "pay_guard"
  /\ job[p].kind = "withdraw"
  /\ job[p].amount > Available(ledger, job[p].wallet)
  /\ GiveUp(p)

\* ... or all three let it pass.
PayGuard(p) ==
  /\ pc[p] = "pay_guard"
  /\ job[p].kind = "withdraw" => job[p].amount <= Available(ledger, job[p].wallet)
  /\ Goto(p, "pay_insert")
  /\ UNCHANGED <<db, overdue, locks, job, mem, crashes>>

\* The unique key not declared, or its violation not caught.
NeverTaken(k) == FALSE

\* The insert runs into the unique index: IntegrityError.
KeyTaken(k) == status[k] # "absent"

PayInsert(p) ==
  LET c == job[p] IN
  /\ pc[p] = "pay_insert"
  /\ IF KeyTaken(c.key)
       THEN GiveUp(p)
       ELSE /\ call' = [call EXCEPT ![c.key] = c]
            /\ Post(c, IF c.kind = "withdraw" THEN {<<c.wallet, "hold">>} ELSE {})
            /\ Save(c.key, "otp_pending")
            /\ Finish(p)
            /\ UNCHANGED <<overdue, crashes>>

-----------------------------------------------------------------------------
(***************************************************************************)
(* initiate_transfer: no lock, the balance is looked at again on confirm.  *)
(* The row is committed before it is marked otp_pending.                   *)
(***************************************************************************)
InitiateTransfer(p, c) ==
  /\ c.kind = "p2p"
  /\ c.wallet # c.peer
  /\ status[c.key] = "absent"
  /\ Begin(p, "xfer_guard", c)

XferGuard(p) ==
  /\ pc[p] = "xfer_guard"
  /\ \/ GiveUp(p)
     \/ /\ job[p].amount <= Available(ledger, job[p].wallet)
        /\ Goto(p, "xfer_insert")
        /\ UNCHANGED <<db, overdue, locks, job, mem, crashes>>

XferInsert(p) ==
  LET c == job[p] IN
  /\ pc[p] = "xfer_insert"
  /\ IF KeyTaken(c.key)
       THEN GiveUp(p)
       ELSE /\ call' = [call EXCEPT ![c.key] = c]
            /\ Save(c.key, "initiated")
            /\ mem' = [mem EXCEPT ![p] = "initiated"]
            /\ Goto(p, "xfer_mark")
            /\ UNCHANGED <<ledger, posted, overdue, locks, job, crashes>>

\* transition_to trusts the status in memory; its UPDATE waits for the row.
XferMark(p) ==
  LET k == job[p].key IN
  /\ pc[p] = "xfer_mark"
  /\ Free(rowLock[k])
  /\ MayBecome(mem[p], "otp_pending")
  /\ Save(k, "otp_pending")
  /\ Finish(p)
  /\ UNCHANGED <<ledger, posted, call, overdue, crashes>>

-----------------------------------------------------------------------------
(***************************************************************************)
(* confirm_payment and confirm_transfer up to the lock on the request: an  *)
(* unlocked look at the status, then the OTP, which may refuse.            *)
(***************************************************************************)
Confirm(p, k) ==
  /\ status[k] = "otp_pending"
  /\ Begin(p, "conf_otp", call[k])

ConfirmOtp(p) ==
  /\ pc[p] = "conf_otp"
  /\ \/ GiveUp(p)
     \/ /\ Goto(p, "conf_row")
        /\ UNCHANGED <<db, overdue, locks, job, mem, crashes>>

ConfirmRow(p) ==
  /\ pc[p] = "conf_row"
  /\ LockRow(p, IF job[p].kind = "p2p" THEN "xfer_decide" ELSE "pay_wallet")

StillPending(p) == mem[p] = "otp_pending"

PayWallet(p) ==
  /\ pc[p] = "pay_wallet"
  /\ LockWallet(p, job[p].wallet, "pay_settle")

\* A request found overdue is expired instead, and that commits too.
PaySettle(p) ==
  LET c    == job[p]
      late == c.key \in overdue
      fate == IF late THEN "expired" ELSE "confirmed"
      paid == IF c.kind = "withdraw"
                THEN {<<c.wallet, "debit">>} \cup ReleaseHold(c)
                ELSE {<<c.wallet, "credit">>}
  IN
  /\ pc[p] = "pay_settle"
  /\ IF ~StillPending(p) \/ ~MayBecome(mem[p], fate)
       THEN GiveUp(p)
       ELSE /\ Post(c, IF late THEN ReleaseHold(c) ELSE paid)
            /\ Save(c.key, fate)
            /\ Finish(p)
            /\ UNCHANGED <<call, overdue, crashes>>

XferDecide(p) ==
  LET k == job[p].key IN
  /\ pc[p] = "xfer_decide"
  /\ \/ /\ ~StillPending(p)
        /\ GiveUp(p)
     \/ /\ StillPending(p)
        /\ k \in overdue
        /\ MayBecome(mem[p], "expired")
        /\ Save(k, "expired")
        /\ Finish(p)
        /\ UNCHANGED <<ledger, posted, call, overdue, crashes>>
     \/ /\ StillPending(p)
        /\ k \notin overdue
        /\ Goto(p, "xfer_lock1")
        /\ UNCHANGED <<db, overdue, locks, job, mem, crashes>>

\* The sender first, then the recipient.
SenderFirst(c) == <<c.wallet, c.peer>>

\* order_by("id")
LockOrder(c) == IF c.wallet < c.peer THEN <<c.wallet, c.peer>>
                                     ELSE <<c.peer, c.wallet>>

XferLock1(p) ==
  /\ pc[p] = "xfer_lock1"
  /\ LockWallet(p, LockOrder(job[p])[1], "xfer_lock2")

XferLock2(p) ==
  /\ pc[p] = "xfer_lock2"
  /\ LockWallet(p, LockOrder(job[p])[2], "xfer_funds")

XferFunds(p) ==
  LET c == job[p] IN
  /\ pc[p] = "xfer_funds"
  /\ \/ /\ c.amount > Available(ledger, c.wallet)
        /\ MayBecome(mem[p], "cancelled")
        /\ Save(c.key, "cancelled")
        /\ Finish(p)
        /\ UNCHANGED <<ledger, posted, call, overdue, crashes>>
     \/ /\ c.amount <= Available(ledger, c.wallet)
        /\ Goto(p, "xfer_settle")
        /\ UNCHANGED <<db, overdue, locks, job, mem, crashes>>

\* Debit, credit, the Transfer row and the new status commit together.
XferSettle(p) ==
  LET c == job[p] IN
  /\ pc[p] = "xfer_settle"
  /\ MayBecome(mem[p], "confirmed")
  /\ Post(c, {<<c.wallet, "debit">>, <<c.peer, "credit">>})
  /\ Save(c.key, "confirmed")
  /\ Finish(p)
  /\ UNCHANGED <<call, overdue, crashes>>

-----------------------------------------------------------------------------
(***************************************************************************)
(* cancel_payment.  Its select_for_update joins the wallet to check the    *)
(* owner, and FOR UPDATE without OF locks the row of either table.         *)
(***************************************************************************)
CancelPayment(p, k) ==
  /\ status[k] # "absent"
  /\ call[k].kind # "p2p"
  /\ Begin(p, "cancel_row", call[k])

CancelRow(p) ==
  /\ pc[p] = "cancel_row"
  /\ LockRow(p, "cancel_wallet")

CancelWallet(p) ==
  /\ pc[p] = "cancel_wallet"
  /\ LockWallet(p, job[p].wallet, "cancel_write")

CancelWrite(p) ==
  LET c == job[p] IN
  /\ pc[p] = "cancel_write"
  /\ IF ~MayBecome(mem[p], "cancelled")
       THEN GiveUp(p)
       ELSE /\ Save(c.key, "cancelled")
            /\ Post(c, ReleaseHold(c))
            /\ Finish(p)
            /\ UNCHANGED <<call, overdue, crashes>>

-----------------------------------------------------------------------------
(***************************************************************************)
(* expire_stale_requests picks a row its scan found stale, then            *)
(* expire_request or expire_transfer_request looks again under the lock.   *)
(***************************************************************************)
Expire(p, k) ==
  /\ status[k] \in OpenStatuses
  /\ k \in overdue
  /\ Begin(p, "exp_row", call[k])

ExpireRow(p) ==
  /\ pc[p] = "exp_row"
  /\ LockRow(p, "exp_write")

ExpireWrite(p) ==
  LET c == job[p] IN
  /\ pc[p] = "exp_write"
  /\ IF \/ mem[p] \notin OpenStatuses
        \/ c.key \notin overdue
        \/ ~MayBecome(mem[p], "expired")
       THEN GiveUp(p)
       ELSE /\ Save(c.key, "expired")
            /\ Post(c, ReleaseHold(c))
            /\ Finish(p)
            /\ UNCHANGED <<call, overdue, crashes>>

-----------------------------------------------------------------------------
(***************************************************************************)
(* expires_at passes.  A handler lives for at most 60 s (gunicorn          *)
(* --timeout), a request for 900 s: the handler that inserted a row has    *)
(* marked it, or died, before it is overdue.                               *)
(***************************************************************************)
BecomeOverdue(k) ==
  /\ status[k] # "absent"
  /\ k \notin overdue
  /\ \A p \in Procs : ~(pc[p] = "xfer_mark" /\ job[p].key = k)
  /\ overdue' = overdue \cup {k}
  /\ UNCHANGED <<db, locks, procs, crashes>>

\* The process dies, or the database aborts its transaction.
Crash(p) ==
  /\ pc[p] # "idle"
  /\ crashes < MaxCrashes
  /\ crashes' = crashes + 1
  /\ Finish(p)
  /\ UNCHANGED <<db, overdue>>

Start(p) ==
  \/ /\ p \in Web
     /\ \/ \E c \in Calls : InitiatePayment(p, c) \/ InitiateTransfer(p, c)
        \/ \E k \in Keys : Confirm(p, k) \/ CancelPayment(p, k)
  \/ /\ p \in Celery
     /\ \E k \in Keys : Expire(p, k)

Step(p) ==
  \/ PayLock(p) \/ PayRefuse(p) \/ PayNoFunds(p) \/ PayGuard(p) \/ PayInsert(p)
  \/ XferGuard(p) \/ XferInsert(p) \/ XferMark(p)
  \/ ConfirmOtp(p) \/ ConfirmRow(p) \/ PayWallet(p) \/ PaySettle(p)
  \/ XferDecide(p) \/ XferLock1(p) \/ XferLock2(p) \/ XferFunds(p)
  \/ XferSettle(p)
  \/ CancelRow(p) \/ CancelWallet(p) \/ CancelWrite(p)
  \/ ExpireRow(p) \/ ExpireWrite(p)

Next ==
  \/ \E p \in Procs : Start(p) \/ Step(p) \/ Crash(p)
  \/ \E k \in Keys : BecomeOverdue(k)

Spec == Init /\ [][Next]_vars

(***************************************************************************)
(* A started handler goes on: the scheduler runs it, and PostgreSQL grants *)
(* a row lock in the order it was asked for (SF).  expires_at passes, and  *)
(* celery beat sends the expiry task, which visits every stale row it      *)
(* found, every minute.  Users need not do anything.                       *)
(***************************************************************************)
Fairness ==
  /\ \A p \in Procs : SF_vars(Step(p))
  /\ \A k \in Keys : WF_vars(BecomeOverdue(k))
  /\ \A k \in Keys : SF_vars(\E p \in Celery : Expire(p, k))

FairSpec == Spec /\ Fairness

-----------------------------------------------------------------------------
(***************************************************************************)
(* What must not go wrong.                                                 *)
(***************************************************************************)

\* No interleaving of withdrawals, confirmations, expiries and crashes lets
\* a wallet spend or reserve more than it has (the guards of run_guards and
\* confirm_transfer against the wallet locks they rely on).
NoOverdraft == \A w \in Wallets : Held(ledger, w) <= Balance(ledger, w)

PendingWithdrawals(w) ==
  {k \in Keys : /\ status[k] \in OpenStatuses
                /\ call[k].kind = "withdraw"
                /\ call[k].wallet = w}

\* What a wallet shows as held is exactly the sum of its open withdrawals:
\* no hold is lost, leaked or released twice, whoever closes the request.
HeldIsPending ==
  \A w \in Wallets :
    Held(ledger, w) =
      MapThenSumSet(LAMBDA k : call[k].amount, PendingWithdrawals(w))

(***************************************************************************)
(* How many rows of each type a request must have written, by its status.  *)
(***************************************************************************)
RowsDue(kind, s) ==
  LET due(b) == IF b THEN 1 ELSE 0 IN
  [t \in EntryTypes |->
     CASE t = "credit"   -> due(s = "confirmed" /\ kind # "withdraw")
       [] t = "debit"    -> due(s = "confirmed" /\ kind # "topup")
       [] t = "hold"     -> due(s # "absent" /\ kind = "withdraw")
       [] t = "reversal" -> due(s \in FinalStatuses /\ kind = "withdraw")]

\* The ledger agrees with the request tables after every commit: a request
\* moved money if and only if it is confirmed, once, whatever retries,
\* confirmations, cancellations and expiries raced for it.
EntriesMatchStatus ==
  \A k \in Keys :
    posted[k] = RowsDue(call[k].kind, status[k])

Confirmed(kind) == {k \in Keys : status[k] = "confirmed" /\ call[k].kind = kind}
Total(keys) == MapThenSumSet(LAMBDA k : call[k].amount, keys)

\* Money enters by confirmed top-ups and leaves by confirmed withdrawals
\* only; a transfer, complete or cut short, creates and destroys none.
MoneyConserved ==
  MapThenSumSet(LAMBDA w : Balance(ledger, w), Wallets) =
    MapThenSumSet(LAMBDA w : Opening[w], Wallets)
      + Total(Confirmed("topup")) - Total(Confirmed("withdraw"))

ClosedStays ==
  \A k \in Keys : status[k] \in FinalStatuses =>
    UNCHANGED <<status[k], posted[k], call[k]>>

\* A closed request stays as it is: a handler that looked at it before it
\* was closed neither reopens it nor writes another row for it.
TerminalIsFinal == [][ClosedStays]_vars

\* Every request is closed in the end, and so every hold given back or
\* spent, although users may stop answering and handlers may die.
EveryRequestCloses ==
  \A k \in Keys : status[k] # "absent" ~> status[k] \in FinalStatuses

\* "Retrying with the same idempotency key returns the existing request": a
\* retry is not refused for want of funds once the request it repeats exists.
\* It can be: the retry looks for the request before it waits for the wallet,
\* and the balance guard then counts the hold of the very request it repeats.
RetryGetsTheRequest ==
  [][\A p \in Web : PayNoFunds(p) => status[job[p].key] = "absent"]_vars

(***************************************************************************)
(* Why it does not: what the locks protect while a handler is under way.   *)
(* The conjunction IndInv is inductive; SettlementProofs proves it.        *)
(***************************************************************************)
RowLockLabels ==
  {"pay_wallet", "pay_settle", "xfer_decide", "xfer_lock1", "xfer_lock2",
   "xfer_funds", "xfer_settle", "cancel_wallet", "cancel_write", "exp_write"}
WalletLockLabels ==
  {"pay_guard", "pay_insert", "pay_settle", "xfer_funds", "xfer_settle",
   "cancel_write"}

\* A request row exists exactly if it has been inserted, under its own key.
RowsWellFormed ==
  \A k \in Keys :
    /\ status[k] = "absent" <=> call[k] = NoCall
    /\ status[k] # "absent" =>
         call[k].key = k /\ (call[k].kind = "p2p" => call[k].wallet # call[k].peer)
    /\ status[k] = "absent" => k \notin overdue

\* Each handler works on a call of its kind, and all but the initiating ones
\* on a row that exists.
JobsWellFormed ==
  \A p \in Procs : pc[p] # "idle" =>
    /\ job[p] \in Calls
    /\ pc[p] \in PayLabels \cup CancelLabels \cup {"pay_wallet", "pay_settle"}
         => job[p].kind # "p2p"
    /\ pc[p] \in XferLabels \cup {"xfer_decide", "xfer_lock1", "xfer_lock2",
                                  "xfer_funds", "xfer_settle"}
         => job[p].kind = "p2p" /\ job[p].wallet # job[p].peer
    /\ pc[p] \notin PayLabels \cup {"xfer_guard", "xfer_insert"}
         => call[job[p].key] = job[p] /\ status[job[p].key] # "absent"

\* A locked request is as its holder remembers it.
RowsLocked ==
  \A p \in Procs :
    /\ pc[p] \in RowLockLabels =>
         rowLock[job[p].key] = p /\ mem[p] = status[job[p].key]
    /\ pc[p] \in {"xfer_lock1", "xfer_lock2", "xfer_funds", "xfer_settle"} =>
         mem[p] = "otp_pending"

\* The transfer just inserted belongs to the handler that will mark it.
MarksOwned ==
  \A p \in Procs : pc[p] = "xfer_mark" =>
    /\ mem[p] = "initiated"
    /\ status[job[p].key] = "initiated"
    /\ job[p].key \notin overdue
    /\ \A q \in Procs : pc[q] = "xfer_mark" /\ job[q].key = job[p].key => q = p

\* The wallet a handler decides about is locked, and what it was found to
\* have available is still there when it is spent or reserved.
FundsLocked ==
  \A p \in Procs :
    /\ pc[p] \in WalletLockLabels => walletLock[job[p].wallet] = p
    /\ pc[p] = "xfer_lock2" => walletLock[LockOrder(job[p])[1]] = p
    /\ \/ pc[p] = "xfer_settle"
       \/ pc[p] = "pay_insert" /\ job[p].kind = "withdraw"
       => job[p].amount <= Available(ledger, job[p].wallet)

\* The inductive invariant behind the safety properties above.
IndInv ==
  /\ TypeOK
  /\ RowsWellFormed
  /\ JobsWellFormed
  /\ RowsLocked
  /\ MarksOwned
  /\ FundsLocked
  /\ EntriesMatchStatus
  /\ NoOverdraft

(***************************************************************************)
(* The handlers implement the abstract promise of Accounts.                *)
(***************************************************************************)
Phase == [k \in Keys |->
            CASE status[k] = "absent"                   -> "new"
              [] status[k] \in OpenStatuses             -> "open"
              [] status[k] = "confirmed"                -> "settled"
              [] status[k] \in {"cancelled", "expired"} -> "void"]

Promise == INSTANCE Accounts WITH book <- ledger, call <- call, phase <- Phase

\* Seen through Phase, everything the handlers do is opening, settling or
\* voiding a request in one step with its ledger rows, or nothing.
KeepsPromise == Promise!Spec
=============================================================================
