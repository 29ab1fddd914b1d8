-------------------------- MODULE SettlementProofs --------------------------
(***************************************************************************)
(* IndInv is an invariant of Settlement for every set of wallets, keys,    *)
(* calls, processes and bound on crashes; with it, the type invariant, the *)
(* absence of overdrafts, the agreement of ledger and request tables, the  *)
(* finality of closed requests and the refinement of Accounts; and with    *)
(* the refinement, what the ledger's sums come to.                         *)
(***************************************************************************)
EXTENDS Settlement, LedgerProofs

\* What the assumptions say of a single call.
LEMMA CallTypes ==
  ASSUME NEW c \in Calls
  PROVE  /\ c.key \in Keys
         /\ c.kind \in Kinds
         /\ c.wallet \in Wallets
         /\ c.peer \in Wallets
         /\ c.amount \in Nat
         /\ c # NoCall
  BY CallsAssumption

-----------------------------------------------------------------------------
\* The rows a request owes at each status it can have.
LEMMA DueAbsent ==
  ASSUME NEW kind
  PROVE  RowsDue(kind, "absent") = [t \in EntryTypes |-> 0]
  BY DEF RowsDue, EntryTypes, FinalStatuses

\* The hold of a withdrawal while it is open, ...
LEMMA DueOpen ==
  ASSUME NEW kind, NEW s \in OpenStatuses
  PROVE  RowsDue(kind, s) =
           [t \in EntryTypes |-> IF t = "hold" /\ kind = "withdraw" THEN 1 ELSE 0]
  BY DEF RowsDue, EntryTypes, FinalStatuses, OpenStatuses

\* ... its reversal as well once it is cancelled or expired, ...
LEMMA DueVoid ==
  ASSUME NEW kind, NEW s \in {"cancelled", "expired"}
  PROVE  RowsDue(kind, s) =
           [t \in EntryTypes |->
              IF t \in {"hold", "reversal"} /\ kind = "withdraw" THEN 1 ELSE 0]
  BY DEF RowsDue, EntryTypes, FinalStatuses

\* ... and, confirmed, the rows that move the money.
LEMMA DueConfirmed ==
  ASSUME NEW kind \in Kinds
  PROVE  RowsDue(kind, "confirmed") =
           [t \in EntryTypes |->
              CASE kind = "topup"    -> IF t = "credit" THEN 1 ELSE 0
                [] kind = "withdraw" -> IF t = "credit" THEN 0 ELSE 1
                [] kind = "p2p"      -> IF t \in {"credit", "debit"} THEN 1 ELSE 0]
  BY DEF RowsDue, EntryTypes, FinalStatuses, Kinds

-----------------------------------------------------------------------------
\* An opening book without requests satisfies the invariant.
LEMMA InitIndInv == Init => IndInv
<1> SUFFICES ASSUME Init PROVE IndInv
  OBVIOUS
<1>1. OpeningBook \in Books
  BY OpeningAssumption DEF OpeningBook, Books
<1>2. TypeOK
  BY <1>1, ProcsAssumption DEF Init, TypeOK, Labels, Statuses, EntryTypes
<1>3. NoOverdraft
  <2> SUFFICES ASSUME NEW w \in Wallets PROVE Held(ledger, w) <= Balance(ledger, w)
    BY DEF NoOverdraft
  <2>1. /\ ledger[w]["credit"] = Opening[w]
        /\ \A t \in {"debit", "hold", "reversal"} : ledger[w][t] = 0
    BY DEF Init, OpeningBook, EntryTypes
  <2> QED
    BY <2>1, OpeningAssumption DEF Held, Balance
<1>4. RowsWellFormed /\ EntriesMatchStatus
  BY DueAbsent DEF Init, RowsWellFormed, EntriesMatchStatus
<1>5. JobsWellFormed /\ RowsLocked /\ MarksOwned /\ FundsLocked
  BY DEF Init, JobsWellFormed, RowsLocked, MarksOwned, FundsLocked,
         RowLockLabels, WalletLockLabels
<1> QED
  BY <1>2, <1>3, <1>4, <1>5 DEF IndInv

(***************************************************************************)
(* Steps that write nothing.                                               *)
(***************************************************************************)
\* What speaks of the tables alone survives a step that leaves them alone.
LEMMA QuietTables ==
  ASSUME RowsWellFormed, EntriesMatchStatus, NoOverdraft, UNCHANGED <<db, overdue>>
  PROVE  RowsWellFormed' /\ EntriesMatchStatus' /\ NoOverdraft'
<1> USE DEF db
<1>1. RowsWellFormed'
  BY DEF RowsWellFormed
<1>2. EntriesMatchStatus'
  BY DEF EntriesMatchStatus
<1>3. NoOverdraft'
  BY DEF NoOverdraft, Held, Balance
<1> QED
  BY <1>1, <1>2, <1>3

\* A handler that ends without writing leaves the rest as it was.
LEMMA GiveUpIndInv ==
  ASSUME IndInv, NEW p \in Procs, Finish(p), UNCHANGED <<db, overdue>>,
         crashes' \in Nat
  PROVE  IndInv'
<1> USE DEF IndInv, Finish, Goto, db
<1>1. TypeOK'
  BY DEF TypeOK, Labels, Statuses
<1>2. RowsWellFormed' /\ EntriesMatchStatus' /\ NoOverdraft'
  BY QuietTables
<1>3. JobsWellFormed'
  BY DEF JobsWellFormed, TypeOK
<1>4. RowsLocked'
  BY CallTypes DEF RowsLocked, JobsWellFormed, TypeOK, RowLockLabels
<1>5. MarksOwned'
  BY DEF MarksOwned, TypeOK
<1>6. FundsLocked'
  BY CallTypes DEF FundsLocked, JobsWellFormed, TypeOK, WalletLockLabels, LockOrder
<1> QED
  BY <1>1, <1>2, <1>3, <1>4, <1>5, <1>6

\* A handler that begins has nothing locked and nothing decided yet.
LEMMA BeginIndInv ==
  ASSUME IndInv, NEW p \in Procs, NEW c \in Calls,
         NEW label \in {"pay_lock", "xfer_guard", "conf_otp", "cancel_row", "exp_row"},
         Begin(p, label, c),
         label \in {"pay_lock", "cancel_row"} => c.kind # "p2p",
         label = "xfer_guard" => c.kind = "p2p" /\ c.wallet # c.peer,
         label \in {"conf_otp", "cancel_row", "exp_row"} =>
           call[c.key] = c /\ status[c.key] # "absent"
  PROVE  IndInv'
<1> USE DEF IndInv, Begin, Goto, db, locks
<1>1. TypeOK'
  BY DEF TypeOK, Labels, PayLabels, XferLabels, ConfirmLabels, CancelLabels,
         ExpireLabels
<1>2. RowsWellFormed' /\ EntriesMatchStatus' /\ NoOverdraft'
  BY QuietTables
<1>3. JobsWellFormed'
  BY DEF JobsWellFormed, TypeOK, PayLabels, XferLabels, CancelLabels
<1>4. RowsLocked'
  BY DEF RowsLocked, TypeOK, RowLockLabels
<1>5. MarksOwned'
  BY DEF MarksOwned, TypeOK
<1>6. FundsLocked'
  BY DEF FundsLocked, TypeOK, WalletLockLabels, LockOrder
<1> QED
  BY <1>1, <1>2, <1>3, <1>4, <1>5, <1>6

(***************************************************************************)
(* The labels a handler may go on to without taking a lock, and what it    *)
(* has to have found out to do so.                                         *)
(***************************************************************************)
LEMMA GoOnIndInv ==
  ASSUME IndInv, NEW p \in Procs, NEW label,
         Goto(p, label), UNCHANGED <<db, overdue, locks, job, mem, crashes>>,
         \/ /\ pc[p] = "pay_guard" /\ label = "pay_insert"
            /\ job[p].kind = "withdraw" =>
                 job[p].amount <= Available(ledger, job[p].wallet)
         \/ pc[p] = "xfer_guard" /\ label = "xfer_insert"
         \/ pc[p] = "conf_otp" /\ label = "conf_row"
         \/ pc[p] = "xfer_decide" /\ label = "xfer_lock1" /\ mem[p] = "otp_pending"
         \/ /\ pc[p] = "xfer_funds" /\ label = "xfer_settle"
            /\ job[p].amount <= Available(ledger, job[p].wallet)
  PROVE  IndInv'
<1> USE DEF IndInv, Goto, db, locks
<1>1. TypeOK'
  BY DEF TypeOK, Labels, PayLabels, XferLabels, ConfirmLabels
<1>2. RowsWellFormed' /\ EntriesMatchStatus' /\ NoOverdraft'
  BY QuietTables
<1>3. JobsWellFormed'
  BY DEF JobsWellFormed, TypeOK, PayLabels, XferLabels, CancelLabels
<1>4. RowsLocked'
  BY DEF RowsLocked, TypeOK, RowLockLabels
<1>5. MarksOwned'
  BY DEF MarksOwned, TypeOK
<1>6. FundsLocked'
  BY DEF FundsLocked, TypeOK, WalletLockLabels, LockOrder, Available, Held, Balance
<1> QED
  BY <1>1, <1>2, <1>3, <1>4, <1>5, <1>6

\* A wallet lock keeps what it protects from everybody else.
LEMMA LockWalletIndInv ==
  ASSUME IndInv, NEW p \in Procs, NEW w \in Wallets, NEW label,
         LockWallet(p, w, label),
         \/ pc[p] = "pay_lock" /\ label = "pay_guard" /\ w = job[p].wallet
         \/ pc[p] = "pay_wallet" /\ label = "pay_settle" /\ w = job[p].wallet
         \/ pc[p] = "cancel_wallet" /\ label = "cancel_write" /\ w = job[p].wallet
         \/ pc[p] = "xfer_lock1" /\ label = "xfer_lock2" /\ w = LockOrder(job[p])[1]
         \/ pc[p] = "xfer_lock2" /\ label = "xfer_funds" /\ w = LockOrder(job[p])[2]
  PROVE  IndInv'
<1> USE DEF IndInv, LockWallet, Goto, db
<1>1. TypeOK'
  BY DEF TypeOK, Labels, PayLabels, ConfirmLabels, CancelLabels
<1>2. RowsWellFormed' /\ EntriesMatchStatus' /\ NoOverdraft'
  BY QuietTables
<1>3. JobsWellFormed'
  BY DEF JobsWellFormed, TypeOK, PayLabels, XferLabels, CancelLabels
<1>4. RowsLocked'
  BY DEF RowsLocked, TypeOK, RowLockLabels
<1>5. MarksOwned'
  BY DEF MarksOwned, TypeOK
<1>6. FundsLocked'
  <2> SUFFICES ASSUME NEW q \in Procs PROVE
        /\ pc'[q] \in WalletLockLabels => walletLock'[job'[q].wallet] = q
        /\ pc'[q] = "xfer_lock2" => walletLock'[LockOrder(job'[q])[1]] = q
        /\ \/ pc'[q] = "xfer_settle"
           \/ pc'[q] = "pay_insert" /\ job'[q].kind = "withdraw"
           => job'[q].amount <= Available(ledger', job'[q].wallet)
    BY DEF FundsLocked, LockOrder, Available, Balance, Held
  <2>1. CASE q = p
    BY <2>1, ProcsAssumption
    DEF FundsLocked, TypeOK, WalletLockLabels, LockOrder, Free
  <2>2. CASE q # p
    BY <2>2, ProcsAssumption
    DEF FundsLocked, TypeOK, WalletLockLabels, LockOrder, Free
  <2> QED
    BY <2>1, <2>2
<1> QED
  BY <1>1, <1>2, <1>3, <1>4, <1>5, <1>6

\* A row lock makes the row in memory and the row in the table agree.
LEMMA LockRowIndInv ==
  ASSUME IndInv, NEW p \in Procs, NEW label,
         LockRow(p, label),
         \/ /\ pc[p] = "conf_row"
            /\ label = IF job[p].kind = "p2p" THEN "xfer_decide" ELSE "pay_wallet"
         \/ pc[p] = "cancel_row" /\ label = "cancel_wallet"
         \/ pc[p] = "exp_row" /\ label = "exp_write"
  PROVE  IndInv'
<1> USE DEF IndInv, LockRow, Goto, db
<1>0. job[p] \in Calls /\ job[p].key \in Keys
  BY CallTypes DEF JobsWellFormed
<1>1. TypeOK'
  BY <1>0 DEF TypeOK, Labels, ConfirmLabels, CancelLabels, ExpireLabels
<1>2. RowsWellFormed' /\ EntriesMatchStatus' /\ NoOverdraft'
  BY QuietTables
<1>3. JobsWellFormed'
  <2> SUFFICES ASSUME NEW q \in Procs, pc'[q] # "idle" PROVE
        /\ job[q] \in Calls
        /\ pc'[q] \in PayLabels \cup CancelLabels \cup {"pay_wallet", "pay_settle"}
             => job[q].kind # "p2p"
        /\ pc'[q] \in XferLabels \cup {"xfer_decide", "xfer_lock1", "xfer_lock2",
                                      "xfer_funds", "xfer_settle"}
             => job[q].kind = "p2p" /\ job[q].wallet # job[q].peer
        /\ pc'[q] \notin PayLabels \cup {"xfer_guard", "xfer_insert"}
             => call[job[q].key] = job[q] /\ status[job[q].key] # "absent"
    BY DEF JobsWellFormed
  <2>1. CASE q # p
    BY <2>1 DEF JobsWellFormed, TypeOK
  <2>2. CASE q = p
    BY <1>0, <2>2 DEF JobsWellFormed, RowsWellFormed, TypeOK, PayLabels,
       XferLabels, CancelLabels
  <2> QED
    BY <2>1, <2>2
<1>4. RowsLocked'
  BY <1>0, ProcsAssumption, CallTypes
  DEF RowsLocked, JobsWellFormed, TypeOK, RowLockLabels, Free
<1>5. MarksOwned'
  BY DEF MarksOwned, TypeOK
<1>6. FundsLocked'
  BY DEF FundsLocked, TypeOK, WalletLockLabels, LockOrder, Available, Held, Balance
<1> QED
  BY <1>1, <1>2, <1>3, <1>4, <1>5, <1>6

\* No request is marked by its handler after it has become overdue.
LEMMA OverdueIndInv ==
  ASSUME IndInv, NEW k \in Keys, BecomeOverdue(k)
  PROVE  IndInv'
<1> USE DEF IndInv, BecomeOverdue, db, locks, procs
<1>1. TypeOK'
  BY DEF TypeOK
<1>2. RowsWellFormed' /\ EntriesMatchStatus' /\ NoOverdraft'
  BY DEF RowsWellFormed, EntriesMatchStatus, NoOverdraft, Held, Balance
<1>3. JobsWellFormed' /\ RowsLocked'
  BY DEF JobsWellFormed, RowsLocked
<1>4. MarksOwned'
  BY DEF MarksOwned
<1>5. FundsLocked'
  BY DEF FundsLocked, LockOrder, Available, Held, Balance
<1> QED
  BY <1>1, <1>2, <1>3, <1>4, <1>5

-----------------------------------------------------------------------------
(***************************************************************************)
(* The two invariants that read the ledger, in the state a write leaves.   *)
(***************************************************************************)
\* The invariant bounds the holds of a wallet by its balance, ...
LEMMA SolventNow ==
  ASSUME IndInv, NEW w \in Wallets
  PROVE  Available(ledger, w) \in Int /\ Available(ledger, w) >= 0
<1>1. ledger \in Books
  BY DEF IndInv, TypeOK
<1> QED
  BY <1>1, FigureTypes DEF IndInv, NoOverdraft, Available

\* ... and a book whose available figures are natural overdraws no wallet.
LEMMA SolventAfter ==
  ASSUME ledger' \in Books, \A w \in Wallets : Available(ledger', w) >= 0
  PROVE  NoOverdraft'
<1> SUFFICES ASSUME NEW w \in Wallets PROVE Held(ledger', w) <= Balance(ledger', w)
  BY DEF NoOverdraft, Held, Balance
<1> QED
  BY FigureTypes DEF Available

\* Locks and funds, said of the available balance alone.
LEMMA FundsLockedAfter ==
  ASSUME \A q \in Procs :
           /\ pc'[q] \in WalletLockLabels => walletLock'[job'[q].wallet] = q
           /\ pc'[q] = "xfer_lock2" => walletLock'[LockOrder(job'[q])[1]] = q
           /\ \/ pc'[q] = "xfer_settle"
              \/ pc'[q] = "pay_insert" /\ job'[q].kind = "withdraw"
              => job'[q].amount <= Available(ledger', job'[q].wallet)
  PROVE  FundsLocked'
  BY DEF FundsLocked, LockOrder, Available, Balance, Held

(***************************************************************************)
(* A handler may take from a wallet only what it has locked; the others    *)
(* then still find what they counted on.                                   *)
(***************************************************************************)
LEMMA WriteFundsLocked ==
  ASSUME IndInv, NEW p \in Procs, Finish(p),
         \A w \in Wallets : /\ Available(ledger', w) \in Int
                            /\ \/ Available(ledger', w) >= Available(ledger, w)
                               \/ walletLock[w] = p
  PROVE  FundsLocked'
<1> USE DEF IndInv
<1> SUFFICES ASSUME NEW q \in Procs PROVE
      /\ pc'[q] \in WalletLockLabels => walletLock'[job'[q].wallet] = q
      /\ pc'[q] = "xfer_lock2" => walletLock'[LockOrder(job'[q])[1]] = q
      /\ \/ pc'[q] = "xfer_settle"
         \/ pc'[q] = "pay_insert" /\ job'[q].kind = "withdraw"
         => job'[q].amount <= Available(ledger', job'[q].wallet)
  BY FundsLockedAfter
<1>1. CASE q = p
  BY <1>1 DEF Finish, Goto, TypeOK, WalletLockLabels
<1>2. CASE q # p
  <2>1. pc'[q] = pc[q] /\ job'[q] = job[q]
    BY <1>2 DEF Finish, Goto, TypeOK
  <2>2. pc[q] # "idle" =>
          job[q].wallet \in Wallets /\ LockOrder(job[q])[1] \in Wallets
            /\ job[q].amount \in Nat
    BY CallTypes DEF JobsWellFormed, LockOrder
  <2>3. \A w \in Wallets : walletLock[w] = q => walletLock'[w] = q
    BY <1>2 DEF Finish
  <2>4. \A w \in Wallets : walletLock[w] = q => Available(ledger', w) >= Available(ledger, w)
    BY <1>2
  <2>5. \A w \in Wallets : Available(ledger, w) \in Int
    BY SolventNow
  <2> QED
    BY <2>1, <2>2, <2>3, <2>4, <2>5 DEF FundsLocked, WalletLockLabels
<1> QED
  BY <1>1, <1>2

(***************************************************************************)
(* Steps that insert a request.                                            *)
(***************************************************************************)
\* A withdrawal is inserted with its hold under the lock of the wallet, or the
\* key turns out to be taken.
LEMMA PayInsertIndInv ==
  ASSUME IndInv, NEW p \in Procs, PayInsert(p)
  PROVE  IndInv'
<1> DEFINE c == job[p]
           rows == IF c.kind = "withdraw" THEN {<<c.wallet, "hold">>} ELSE {}
<1>1. CASE KeyTaken(c.key)
  <2>1. GiveUp(p)
    BY <1>1 DEF PayInsert
  <2> QED
    BY <2>1, GiveUpIndInv DEF GiveUp, IndInv, TypeOK
<1>2. CASE ~KeyTaken(c.key)
  <2> USE DEF IndInv
  <2>1. /\ pc[p] = "pay_insert"
        /\ call' = [call EXCEPT ![c.key] = c]
        /\ Post(c, rows)
        /\ status' = [status EXCEPT ![c.key] = "otp_pending"]
        /\ Finish(p)
        /\ UNCHANGED <<overdue, crashes>>
    BY <1>2 DEF PayInsert, Save
  <2>2. c \in Calls /\ c.kind \in {"topup", "withdraw"}
    BY <2>1, CallTypes DEF JobsWellFormed, PayLabels, Kinds
  <2>3. c.key \in Keys /\ c.wallet \in Wallets /\ c.amount \in Nat /\ c # NoCall
    BY <2>2, CallTypes
  <2>4. ledger \in Books /\ ledger' = PostEntries(ledger, rows, c.amount)
    BY <2>1 DEF TypeOK, Post
  <2>5. status[c.key] = "absent"
    BY <1>2 DEF KeyTaken
  <2>6. posted' = [posted EXCEPT ![c.key] = RowsDue(c.kind, "otp_pending")]
    <3>1. posted[c.key] = [t \in EntryTypes |-> 0]
      BY <2>3, <2>5, DueAbsent DEF EntriesMatchStatus
    <3>2. RowsDue(c.kind, "otp_pending") =
            [t \in EntryTypes |-> IF t = "hold" /\ c.kind = "withdraw" THEN 1 ELSE 0]
      BY DueOpen DEF OpenStatuses
    <3>3. \A t \in EntryTypes : (\E w \in Wallets : <<w, t>> \in rows)
                                  <=> t = "hold" /\ c.kind = "withdraw"
      BY <2>3
    <3>4. [t \in EntryTypes |-> IF \E w \in Wallets : <<w, t>> \in rows
                                  THEN posted[c.key][t] + 1 ELSE posted[c.key][t]]
            = RowsDue(c.kind, "otp_pending")
      <4>1. \A t \in EntryTypes :
              (IF \E w \in Wallets : <<w, t>> \in rows
                 THEN posted[c.key][t] + 1 ELSE posted[c.key][t])
              = IF t = "hold" /\ c.kind = "withdraw" THEN 1 ELSE 0
        <5> HIDE DEF rows, c
        <5> QED
          BY <3>1, <3>3
      <4> HIDE DEF rows, c
      <4> QED
        BY <3>2, <4>1
    <3> QED
      BY <2>1, <2>3, <3>4 DEF Post, TypeOK
  <2>7. TypeOK'
    <3>1. RowsDue(c.kind, "otp_pending") \in [EntryTypes -> Nat]
      BY DueOpen DEF OpenStatuses
    <3> QED
      BY <2>1, <2>2, <2>3, <2>4, <2>6, <3>1, PostEntriesType
      DEF TypeOK, Finish, Goto, Labels, Statuses, OpenStatuses
  <2>8. RowsWellFormed'
    BY <2>1, <2>2, <2>3, <2>5 DEF RowsWellFormed, TypeOK
  <2>9. EntriesMatchStatus'
    BY <2>1, <2>3, <2>6 DEF EntriesMatchStatus, TypeOK
  <2>10. JobsWellFormed'
    BY <2>1, <2>3, <2>5 DEF JobsWellFormed, TypeOK, Finish, Goto
  <2>11. RowsLocked'
    BY <2>1, <2>3, <2>5, CallTypes
    DEF RowsLocked, JobsWellFormed, TypeOK, Finish, Goto, RowLockLabels, PayLabels
  <2>12. MarksOwned'
    BY <2>1, <2>3, <2>5, CallTypes
    DEF MarksOwned, JobsWellFormed, TypeOK, Finish, Goto
  <2>13. \A w \in Wallets :
           /\ Available(ledger', w) \in Int
           /\ Available(ledger', w) >= 0
           /\ w # c.wallet => Available(ledger', w) = Available(ledger, w)
    <3> SUFFICES ASSUME NEW w \in Wallets
                 PROVE  /\ Available(ledger', w) \in Int
                        /\ Available(ledger', w) >= 0
                        /\ w # c.wallet => Available(ledger', w) = Available(ledger, w)
      OBVIOUS
    <3>1. Available(ledger, w) \in Int /\ Available(ledger, w) >= 0
      BY SolventNow
    <3>2. c.kind = "withdraw" /\ w = c.wallet => c.amount <= Available(ledger, w)
      BY <2>1 DEF FundsLocked
    <3>3. /\ <<w, "credit">> \notin rows
          /\ <<w, "debit">> \notin rows
          /\ <<w, "reversal">> \notin rows
      OBVIOUS
    <3>4. Available(ledger', w) =
            Available(ledger, w) - (IF <<w, "hold">> \in rows THEN c.amount ELSE 0)
      <4> HIDE DEF rows, c
      <4> QED
        BY <2>3, <2>4, <3>1, <3>3, PostEntriesAvailable
    <3> QED
      BY <2>3, <3>1, <3>2, <3>4
  <2>14. NoOverdraft'
    BY <2>7, <2>13, SolventAfter DEF TypeOK
  <2>15. FundsLocked'
    <3>1. walletLock[c.wallet] = p
      BY <2>1 DEF FundsLocked, WalletLockLabels
    <3> QED
      BY <2>1, <2>13, <3>1, SolventNow, WriteFundsLocked
  <2> QED
    BY <2>7, <2>8, <2>9, <2>10, <2>11, <2>12, <2>14, <2>15
<1> QED
  BY <1>1, <1>2

\* A transfer is inserted and marked in two commits; MarksOwned says whose
\* it is in between.
LEMMA XferInsertIndInv ==
  ASSUME IndInv, NEW p \in Procs, XferInsert(p)
  PROVE  IndInv'
<1> DEFINE c == job[p]
<1>1. CASE KeyTaken(c.key)
  <2>1. GiveUp(p)
    BY <1>1 DEF XferInsert
  <2> QED
    BY <2>1, GiveUpIndInv DEF GiveUp, IndInv, TypeOK
<1>2. CASE ~KeyTaken(c.key)
  <2> USE DEF IndInv
  <2>1. /\ pc[p] = "xfer_insert"
        /\ call' = [call EXCEPT ![c.key] = c]
        /\ status' = [status EXCEPT ![c.key] = "initiated"]
        /\ mem' = [mem EXCEPT ![p] = "initiated"]
        /\ pc' = [pc EXCEPT ![p] = "xfer_mark"]
        /\ UNCHANGED <<ledger, posted, overdue, rowLock, walletLock, job, crashes>>
    BY <1>2 DEF XferInsert, Save, Goto, locks
  <2>2. /\ c \in Calls /\ c.kind = "p2p" /\ c.wallet # c.peer
        /\ c.key \in Keys /\ c # NoCall
    BY <2>1, CallTypes DEF JobsWellFormed, XferLabels
  <2>3. status[c.key] = "absent" /\ c.key \notin overdue
    BY <1>2, <2>2 DEF KeyTaken, RowsWellFormed
  <2>4. TypeOK'
    BY <2>1, <2>2 DEF TypeOK, Labels, XferLabels, Statuses, OpenStatuses
  <2>5. RowsWellFormed'
    BY <2>1, <2>2, <2>3 DEF RowsWellFormed, TypeOK
  <2>6. EntriesMatchStatus'
    <3>1. RowsDue("p2p", "initiated") = RowsDue(call[c.key].kind, "absent")
      BY DueAbsent, DueOpen DEF OpenStatuses
    <3> QED
      BY <2>1, <2>2, <2>3, <3>1 DEF EntriesMatchStatus, TypeOK
  <2>7. JobsWellFormed'
    BY <2>1, <2>2, <2>3
    DEF JobsWellFormed, TypeOK, PayLabels, XferLabels, CancelLabels
  <2>8. RowsLocked'
    BY <2>1, <2>2, <2>3, CallTypes
    DEF RowsLocked, JobsWellFormed, TypeOK, RowLockLabels, PayLabels
  <2>9. MarksOwned'
    BY <2>1, <2>2, <2>3, CallTypes DEF MarksOwned, JobsWellFormed, TypeOK
  <2>10. FundsLocked' /\ NoOverdraft'
    BY <2>1 DEF FundsLocked, TypeOK, WalletLockLabels, LockOrder,
       NoOverdraft, Available, Held, Balance
  <2> QED
    BY <2>4, <2>5, <2>6, <2>7, <2>8, <2>9, <2>10
<1> QED
  BY <1>1, <1>2

\* The second commit finds the row its handler inserted as it left it.
LEMMA XferMarkIndInv ==
  ASSUME IndInv, NEW p \in Procs, XferMark(p)
  PROVE  IndInv'
<1> DEFINE k == job[p].key
<1> USE DEF IndInv
<1>1. /\ pc[p] = "xfer_mark"
      /\ rowLock[k] = NoProc
      /\ status' = [status EXCEPT ![k] = "otp_pending"]
      /\ Finish(p)
      /\ UNCHANGED <<ledger, posted, call, overdue, crashes>>
  BY DEF XferMark, Save, Free
<1>2. job[p] \in Calls /\ k \in Keys /\ job[p].kind = "p2p" /\ status[k] = "initiated"
  BY <1>1, CallTypes DEF JobsWellFormed, MarksOwned, XferLabels
<1>3. TypeOK'
  BY <1>1, <1>2 DEF TypeOK, Finish, Goto, Labels, Statuses, OpenStatuses
<1>4. RowsWellFormed'
  BY <1>1, <1>2 DEF RowsWellFormed, TypeOK
<1>5. EntriesMatchStatus'
  <2>1. RowsDue(call[k].kind, "otp_pending") = RowsDue(call[k].kind, "initiated")
    BY DueOpen DEF OpenStatuses
  <2> QED
    BY <1>1, <1>2, <2>1 DEF EntriesMatchStatus, TypeOK
<1>6. JobsWellFormed'
  BY <1>1, <1>2, CallTypes DEF JobsWellFormed, TypeOK, Finish, Goto
<1>7. RowsLocked'
  BY <1>1, <1>2, CallTypes, ProcsAssumption
  DEF RowsLocked, JobsWellFormed, TypeOK, Finish, Goto, RowLockLabels
<1>8. MarksOwned'
  BY <1>1, <1>2, CallTypes DEF MarksOwned, JobsWellFormed, TypeOK, Finish, Goto
<1>9. FundsLocked'
  BY <1>1, SolventNow, WriteFundsLocked
<1>10. NoOverdraft'
  BY <1>1 DEF NoOverdraft, Held, Balance
<1> QED
  BY <1>3, <1>4, <1>5, <1>6, <1>7, <1>8, <1>9, <1>10

-----------------------------------------------------------------------------
(***************************************************************************)
(* Steps that close a request: the row is locked and open, and the rows    *)
(* written are the ones due at the new status.                             *)
(***************************************************************************)
Closes(p, s) ==
  LET k == job[p].key IN
  /\ pc[p] \in RowLockLabels
  /\ mem[p] \in OpenStatuses
  /\ s \in FinalStatuses
  /\ mem[p] = "otp_pending" \/ k \in overdue \/ job[p].kind # "p2p"
  /\ status' = [status EXCEPT ![k] = s]
  /\ posted' = [posted EXCEPT ![k] = RowsDue(job[p].kind, s)]
  /\ Finish(p)
  /\ UNCHANGED <<call, overdue, crashes>>

\* Taken apart: what the closed request was, and that it was p's alone.
LEMMA ClosesFacts ==
  ASSUME IndInv, NEW p \in Procs, NEW s, Closes(p, s)
  PROVE  /\ job[p] \in Calls
         /\ job[p].key \in Keys
         /\ call[job[p].key] = job[p]
         /\ status[job[p].key] = mem[p]
         /\ rowLock[job[p].key] = p
         /\ \A q \in Procs : pc[q] = "xfer_mark" => job[q].key # job[p].key
<1> USE DEF IndInv
<1>1. pc[p] \in RowLockLabels /\ mem[p] \in OpenStatuses
  BY DEF Closes
<1>2. job[p] \in Calls /\ call[job[p].key] = job[p]
  BY <1>1 DEF JobsWellFormed, RowLockLabels, PayLabels
<1>3. job[p].key \in Keys
  BY <1>2, CallTypes
<1>4. status[job[p].key] = mem[p] /\ rowLock[job[p].key] = p
  BY <1>1 DEF RowsLocked
<1>5. ASSUME NEW q \in Procs, pc[q] = "xfer_mark", job[q].key = job[p].key
      PROVE  FALSE
  <2>1. /\ status[job[p].key] = "initiated"
        /\ job[p].key \notin overdue
        /\ call[job[p].key] = job[q] /\ job[q].kind = "p2p"
    BY <1>5 DEF MarksOwned, JobsWellFormed, PayLabels, XferLabels
  <2> QED
    BY <1>2, <1>4, <2>1 DEF Closes
<1> QED
  BY <1>2, <1>3, <1>4, <1>5

\* A step that closes one request, writes the rows due and keeps every wallet
\* solvent preserves the invariant.
LEMMA CloseIndInv ==
  ASSUME IndInv, NEW p \in Procs, NEW s, Closes(p, s), ledger' \in Books,
         \A w \in Wallets : /\ Available(ledger', w) >= 0
                            /\ \/ Available(ledger', w) >= Available(ledger, w)
                               \/ walletLock[w] = p
  PROVE  IndInv'
<1> DEFINE k == job[p].key
<1> USE DEF IndInv, Closes
<1>1. /\ job[p] \in Calls /\ k \in Keys /\ call[k] = job[p]
      /\ status[k] \in OpenStatuses /\ rowLock[k] = p
      /\ \A q \in Procs : pc[q] = "xfer_mark" => job[q].key # k
  BY ClosesFacts
<1>2. TypeOK'
  <2>1. RowsDue(job[p].kind, s) \in [EntryTypes -> Nat]
    BY <1>1, CallTypes, DueConfirmed, DueVoid DEF FinalStatuses, Kinds
  <2> QED
    BY <1>1, <2>1 DEF TypeOK, Finish, Goto, Labels, Statuses
<1>3. RowsWellFormed'
  BY <1>1 DEF RowsWellFormed, TypeOK, OpenStatuses, FinalStatuses
<1>4. JobsWellFormed'
  BY <1>1, CallTypes DEF JobsWellFormed, TypeOK, Finish, Goto, FinalStatuses
<1>5. RowsLocked'
  BY <1>1, CallTypes DEF RowsLocked, JobsWellFormed, TypeOK, Finish, Goto, RowLockLabels
<1>6. MarksOwned'
  BY <1>1, CallTypes DEF MarksOwned, JobsWellFormed, TypeOK, Finish, Goto
<1>7. FundsLocked'
  <2>1. \A w \in Wallets : Available(ledger', w) \in Int
    BY FigureTypes
  <2> QED
    BY <2>1, WriteFundsLocked
<1>8. EntriesMatchStatus'
  BY <1>1 DEF EntriesMatchStatus, TypeOK
<1>9. NoOverdraft'
  BY SolventAfter
<1> QED
  BY <1>2, <1>3, <1>4, <1>5, <1>6, <1>7, <1>8, <1>9

(***************************************************************************)
(* What a transaction counts as posted, given the row due afterwards.      *)
(***************************************************************************)
\* A transaction counts its rows for its own request and for no other.
LEMMA PostedRow ==
  ASSUME posted \in [Keys -> [EntryTypes -> Nat]], NEW c, c.key \in Keys, NEW rows,
         Post(c, rows), NEW due, due = [t \in EntryTypes |-> due[t]],
         \A t \in EntryTypes :
           due[t] = IF \E w \in Wallets : <<w, t>> \in rows
                      THEN posted[c.key][t] + 1 ELSE posted[c.key][t]
  PROVE  posted' = [posted EXCEPT ![c.key] = due]
  BY DEF Post

\* An open withdrawal has its hold in the ledger and no reversal yet; the
\* other requests have no rows there.  So _release_hold does what it should.
LEMMA HoldOfOpen ==
  ASSUME IndInv, NEW k \in Keys, status[k] \in OpenStatuses
  PROVE  /\ posted[k] = [t \in EntryTypes |->
                           IF t = "hold" /\ call[k].kind = "withdraw" THEN 1 ELSE 0]
         /\ HoldOpen(k) <=> call[k].kind = "withdraw"
<1>1. posted[k] = [t \in EntryTypes |->
                     IF t = "hold" /\ call[k].kind = "withdraw" THEN 1 ELSE 0]
  BY DueOpen DEF IndInv, EntriesMatchStatus
<1> QED
  BY <1>1 DEF HoldOpen, EntryTypes

\* Voiding gives back the hold, if there is one.
LEMMA VoidRows ==
  ASSUME IndInv, NEW c \in Calls, call[c.key] = c, status[c.key] \in OpenStatuses,
         NEW s \in {"cancelled", "expired"}, Post(c, ReleaseHold(c))
  PROVE  /\ posted' = [posted EXCEPT ![c.key] = RowsDue(c.kind, s)]
         /\ ledger' \in Books
         /\ \A w \in Wallets : Available(ledger', w) >= Available(ledger, w)
<1> DEFINE rows == ReleaseHold(c)
<1>1. c.key \in Keys /\ c.wallet \in Wallets /\ c.amount \in Nat
  BY CallTypes
<1>2. rows = IF c.kind = "withdraw" THEN {<<c.wallet, "reversal">>} ELSE {}
  BY <1>1, HoldOfOpen DEF ReleaseHold
<1>3. posted' = [posted EXCEPT ![c.key] = RowsDue(c.kind, s)]
  <2>1. RowsDue(c.kind, s) =
          [t \in EntryTypes |->
             IF t \in {"hold", "reversal"} /\ c.kind = "withdraw" THEN 1 ELSE 0]
    BY DueVoid
  <2>2. posted[c.key] = [t \in EntryTypes |->
                           IF t = "hold" /\ c.kind = "withdraw" THEN 1 ELSE 0]
    BY <1>1, HoldOfOpen
  <2>0. Post(c, rows)
    OBVIOUS
  <2> HIDE DEF rows
  <2>3. \A t \in EntryTypes : (\E w \in Wallets : <<w, t>> \in rows)
                                <=> t = "reversal" /\ c.kind = "withdraw"
    BY <1>1, <1>2
  <2>4. \A t \in EntryTypes :
          RowsDue(c.kind, s)[t] = IF \E w \in Wallets : <<w, t>> \in rows
                                    THEN posted[c.key][t] + 1 ELSE posted[c.key][t]
    BY <2>1, <2>2, <2>3
  <2>5. posted \in [Keys -> [EntryTypes -> Nat]]
    BY DEF IndInv, TypeOK
  <2> DEFINE due == RowsDue(c.kind, s)
  <2>6. due = [t \in EntryTypes |-> due[t]]
    BY <2>1
  <2>7. \A t \in EntryTypes :
          due[t] = IF \E w \in Wallets : <<w, t>> \in rows
                     THEN posted[c.key][t] + 1 ELSE posted[c.key][t]
    BY <2>4
  <2> HIDE DEF due
  <2>8. posted' = [posted EXCEPT ![c.key] = due]
    BY <1>1, <2>0, <2>5, <2>6, <2>7, PostedRow
  <2> QED
    BY <2>8 DEF due
<1>4. ledger \in Books /\ ledger' = PostEntries(ledger, rows, c.amount)
  BY DEF IndInv, TypeOK, Post
<1>5. ledger' \in Books
  BY <1>1, <1>4, PostEntriesType
<1>6. ASSUME NEW w \in Wallets
      PROVE  Available(ledger', w) >= Available(ledger, w)
  <2> HIDE DEF rows
  <2>1. /\ <<w, "credit">> \notin rows
        /\ <<w, "debit">> \notin rows
        /\ <<w, "hold">> \notin rows
    BY <1>2
  <2>2. Available(ledger', w) =
          Available(ledger, w) + (IF <<w, "reversal">> \in rows THEN c.amount ELSE 0)
    BY <1>1, <1>4, <2>1, PostEntriesAvailable, FigureTypes
  <2> QED
    BY <1>1, <1>4, <2>2, FigureTypes
<1> QED
  BY <1>3, <1>5, <1>6

\* Paying a withdrawal out of its hold leaves the available balance as it
\* was; a top-up raises it.
LEMMA PaidRows ==
  ASSUME IndInv, NEW c \in Calls, call[c.key] = c, status[c.key] \in OpenStatuses,
         c.kind \in {"topup", "withdraw"},
         Post(c, IF c.kind = "withdraw" THEN {<<c.wallet, "debit">>} \cup ReleaseHold(c)
                                        ELSE {<<c.wallet, "credit">>})
  PROVE  /\ posted' = [posted EXCEPT ![c.key] = RowsDue(c.kind, "confirmed")]
         /\ ledger' = PostEntries(ledger,
              IF c.kind = "withdraw" THEN {<<c.wallet, "debit">>, <<c.wallet, "reversal">>}
                                     ELSE {<<c.wallet, "credit">>}, c.amount)
         /\ ledger' \in Books
         /\ \A w \in Wallets : Available(ledger', w) >= Available(ledger, w)
<1> DEFINE rows == IF c.kind = "withdraw"
                     THEN {<<c.wallet, "debit">>, <<c.wallet, "reversal">>}
                     ELSE {<<c.wallet, "credit">>}
<1>1. c.key \in Keys /\ c.wallet \in Wallets /\ c.amount \in Nat
  BY CallTypes
<1>2. Post(c, rows)
  BY <1>1, HoldOfOpen DEF ReleaseHold
<1>3. posted' = [posted EXCEPT ![c.key] = RowsDue(c.kind, "confirmed")]
  <2>1. RowsDue(c.kind, "confirmed") =
          [t \in EntryTypes |->
             CASE c.kind = "topup"    -> IF t = "credit" THEN 1 ELSE 0
               [] c.kind = "withdraw" -> IF t = "credit" THEN 0 ELSE 1
               [] c.kind = "p2p"      -> IF t \in {"credit", "debit"} THEN 1 ELSE 0]
    BY DueConfirmed DEF Kinds
  <2>2. posted[c.key] = [t \in EntryTypes |->
                           IF t = "hold" /\ c.kind = "withdraw" THEN 1 ELSE 0]
    BY <1>1, HoldOfOpen
  <2>3. \A t \in EntryTypes : (\E w \in Wallets : <<w, t>> \in rows)
          <=> \/ c.kind = "withdraw" /\ t \in {"debit", "reversal"}
              \/ c.kind = "topup" /\ t = "credit"
    BY <1>1
  <2> HIDE DEF rows
  <2>4. \A t \in EntryTypes :
          RowsDue(c.kind, "confirmed")[t] =
            IF \E w \in Wallets : <<w, t>> \in rows
              THEN posted[c.key][t] + 1 ELSE posted[c.key][t]
    BY <2>1, <2>2, <2>3 DEF EntryTypes
  <2>5. posted \in [Keys -> [EntryTypes -> Nat]]
    BY DEF IndInv, TypeOK
  <2> DEFINE due == RowsDue(c.kind, "confirmed")
  <2>6. due = [t \in EntryTypes |-> due[t]]
    BY <2>1
  <2>7. \A t \in EntryTypes :
          due[t] = IF \E w \in Wallets : <<w, t>> \in rows
                     THEN posted[c.key][t] + 1 ELSE posted[c.key][t]
    BY <2>4
  <2> HIDE DEF due
  <2>8. posted' = [posted EXCEPT ![c.key] = due]
    BY <1>1, <1>2, <2>5, <2>6, <2>7, PostedRow
  <2> QED
    BY <2>8 DEF due
<1>4. ledger \in Books /\ ledger' = PostEntries(ledger, rows, c.amount)
  BY <1>2 DEF IndInv, TypeOK, Post
<1>5. ledger' \in Books
  BY <1>1, <1>4, PostEntriesType
<1>6. ASSUME NEW w \in Wallets
      PROVE  Available(ledger', w) >= Available(ledger, w)
  <2>1. /\ <<w, "hold">> \notin rows
        /\ <<w, "debit">> \in rows <=> <<w, "reversal">> \in rows
    OBVIOUS
  <2> HIDE DEF rows
  <2>2. Available(ledger', w) =
          Available(ledger, w) + (IF <<w, "credit">> \in rows THEN c.amount ELSE 0)
    BY <1>1, <1>4, <2>1, PostEntriesAvailable, FigureTypes
  <2> QED
    BY <1>1, <1>4, <2>2, FigureTypes
<1> QED
  BY <1>3, <1>4, <1>5, <1>6

\* A transfer takes its amount from the sender and nothing from anyone else.
LEMMA TransferRows ==
  ASSUME IndInv, NEW c \in Calls, call[c.key] = c, status[c.key] \in OpenStatuses,
         c.kind = "p2p", c.wallet # c.peer,
         Post(c, {<<c.wallet, "debit">>, <<c.peer, "credit">>})
  PROVE  /\ posted' = [posted EXCEPT ![c.key] = RowsDue(c.kind, "confirmed")]
         /\ ledger' \in Books
         /\ Available(ledger', c.wallet) = Available(ledger, c.wallet) - c.amount
         /\ \A w \in Wallets :
              w # c.wallet => Available(ledger', w) >= Available(ledger, w)
<1> DEFINE rows == {<<c.wallet, "debit">>, <<c.peer, "credit">>}
<1>1. /\ c.key \in Keys /\ c.wallet \in Wallets /\ c.peer \in Wallets
      /\ c.amount \in Nat
  BY CallTypes
<1>2. posted' = [posted EXCEPT ![c.key] = RowsDue(c.kind, "confirmed")]
  <2>1. RowsDue(c.kind, "confirmed") =
          [t \in EntryTypes |-> IF t \in {"credit", "debit"} THEN 1 ELSE 0]
    BY DueConfirmed DEF Kinds
  <2>2. posted[c.key] = [t \in EntryTypes |-> 0]
    BY <1>1, HoldOfOpen
  <2>0. Post(c, rows)
    OBVIOUS
  <2>3. \A t \in EntryTypes :
          (\E w \in Wallets : <<w, t>> \in rows) <=> t \in {"debit", "credit"}
    BY <1>1
  <2> HIDE DEF rows
  <2>4. \A t \in EntryTypes :
          RowsDue(c.kind, "confirmed")[t] =
            IF \E w \in Wallets : <<w, t>> \in rows
              THEN posted[c.key][t] + 1 ELSE posted[c.key][t]
    <3> SUFFICES ASSUME NEW t \in EntryTypes
                 PROVE  RowsDue(c.kind, "confirmed")[t] =
                          IF \E w \in Wallets : <<w, t>> \in rows
                            THEN posted[c.key][t] + 1 ELSE posted[c.key][t]
      OBVIOUS
    <3>1. posted[c.key][t] = 0
      BY <2>2
    <3>2. RowsDue(c.kind, "confirmed")[t] = IF t \in {"debit", "credit"} THEN 1 ELSE 0
      BY <2>1
    <3> QED
      BY <2>3, <3>1, <3>2
  <2>5. posted \in [Keys -> [EntryTypes -> Nat]]
    BY DEF IndInv, TypeOK
  <2> DEFINE due == RowsDue(c.kind, "confirmed")
  <2>6. due = [t \in EntryTypes |-> due[t]]
    BY <2>1
  <2>7. \A t \in EntryTypes :
          due[t] = IF \E w \in Wallets : <<w, t>> \in rows
                     THEN posted[c.key][t] + 1 ELSE posted[c.key][t]
    BY <2>4
  <2> HIDE DEF due
  <2>8. posted' = [posted EXCEPT ![c.key] = due]
    <3>1. due = [t \in EntryTypes |-> IF \E w \in Wallets : <<w, t>> \in rows
                                        THEN posted[c.key][t] + 1 ELSE posted[c.key][t]]
      BY <2>6, <2>7
    <3> QED
      BY <2>0, <3>1 DEF Post
  <2> QED
    BY <2>8 DEF due
<1>3. ledger \in Books /\ ledger' = PostEntries(ledger, rows, c.amount)
  BY DEF IndInv, TypeOK, Post
<1>4. ledger' \in Books
  BY <1>1, <1>3, PostEntriesType
<1>5. ASSUME NEW w \in Wallets
      PROVE  Available(ledger', w) =
               Available(ledger, w) + (IF w = c.peer THEN c.amount ELSE 0)
                                    - (IF w = c.wallet THEN c.amount ELSE 0)
  <2>1. /\ <<w, "credit">> \in rows <=> w = c.peer
        /\ <<w, "debit">> \in rows <=> w = c.wallet
        /\ <<w, "hold">> \notin rows
        /\ <<w, "reversal">> \notin rows
    OBVIOUS
  <2> HIDE DEF rows
  <2> QED
    BY <1>1, <1>3, <2>1, PostEntriesAvailable, FigureTypes
<1>6. \A w \in Wallets : Available(ledger, w) \in Int
  BY <1>3, FigureTypes
<1>7. Available(ledger', c.wallet) = Available(ledger, c.wallet) - c.amount
  BY <1>1, <1>5, <1>6
<1>8. \A w \in Wallets : w # c.wallet => Available(ledger', w) >= Available(ledger, w)
  BY <1>1, <1>5, <1>6
<1> QED
  BY <1>2, <1>4, <1>7, <1>8

(***************************************************************************)
(* Every closing step is one of three: it voids, it pays, it transfers.    *)
(* The refinement proof needs the same case split, so it is stated here.   *)
(***************************************************************************)
Voids(p) ==
  \E s \in {"cancelled", "expired"} :
    Closes(p, s) /\ Post(job[p], ReleaseHold(job[p]))

Pays(p) ==
  LET c == job[p] IN
  /\ Closes(p, "confirmed")
  /\ c.kind \in {"topup", "withdraw"}
  /\ Post(c, IF c.kind = "withdraw" THEN {<<c.wallet, "debit">>} \cup ReleaseHold(c)
                                    ELSE {<<c.wallet, "credit">>})

Transfers(p) ==
  LET c == job[p] IN
  /\ Closes(p, "confirmed")
  /\ c.kind = "p2p"
  /\ c.wallet # c.peer
  /\ c.amount <= Available(ledger, c.wallet)
  /\ walletLock[c.wallet] = p
  /\ Post(c, {<<c.wallet, "debit">>, <<c.peer, "credit">>})

\* The facts about its own request that any closing step starts from.
LEMMA HolderFacts ==
  ASSUME IndInv, NEW p \in Procs, pc[p] \in RowLockLabels
  PROVE  /\ job[p] \in Calls
         /\ job[p].key \in Keys
         /\ call[job[p].key] = job[p]
         /\ status[job[p].key] = mem[p]
  BY CallTypes DEF IndInv, JobsWellFormed, RowsLocked, RowLockLabels, PayLabels

\* A status saved as cancelled or expired, with the hold released, is a Voids
\* step.
LEMMA VoidingStep ==
  ASSUME IndInv, NEW p \in Procs, pc[p] \in RowLockLabels,
         NEW s \in {"cancelled", "expired"}, MayBecome(mem[p], s),
         mem[p] = "otp_pending" \/ job[p].key \in overdue \/ job[p].kind # "p2p",
         Post(job[p], ReleaseHold(job[p])), Save(job[p].key, s), Finish(p),
         UNCHANGED <<call, overdue, crashes>>
  PROVE  Voids(p)
<1>1. mem[p] \in OpenStatuses
  BY DEF MayBecome, OpenStatuses
<1>2. posted' = [posted EXCEPT ![job[p].key] = RowsDue(job[p].kind, s)]
  BY <1>1, HolderFacts, VoidRows
<1> QED
  BY <1>1, <1>2 DEF Voids, Closes, Save, FinalStatuses

\* A transfer request has no hold, so releasing it writes nothing.
LEMMA NothingHeld ==
  ASSUME IndInv, NEW p \in Procs, pc[p] \in RowLockLabels, job[p].kind = "p2p",
         mem[p] \in OpenStatuses, UNCHANGED <<ledger, posted>>
  PROVE  Post(job[p], ReleaseHold(job[p]))
<1>1. job[p] \in Calls /\ job[p].key \in Keys /\ job[p].amount \in Nat
  BY HolderFacts, CallTypes
<1>2. ReleaseHold(job[p]) = {}
  BY <1>1, HolderFacts, HoldOfOpen DEF ReleaseHold
<1>3. ledger \in Books /\ posted \in [Keys -> [EntryTypes -> Nat]]
  BY DEF IndInv, TypeOK
<1>4. [posted EXCEPT ![job[p].key] =
         [t \in EntryTypes |-> posted[job[p].key][t]]] = posted
  BY <1>1, <1>3
<1> QED
  BY <1>1, <1>2, <1>3, <1>4, PostNothing DEF Post

\* The commit of confirm_payment settles, expires, or changes no row.
LEMMA PaySettleCases ==
  ASSUME IndInv, NEW p \in Procs, PaySettle(p)
  PROVE  GiveUp(p) \/ Voids(p) \/ Pays(p)
<1> DEFINE c == job[p]
<1> SUFFICES ASSUME ~GiveUp(p) PROVE Voids(p) \/ Pays(p)
  OBVIOUS
<1>1. pc[p] = "pay_settle" /\ mem[p] = "otp_pending" /\ Finish(p)
        /\ UNCHANGED <<call, overdue, crashes>>
  BY DEF PaySettle, StillPending
<1>2. pc[p] \in RowLockLabels
  BY <1>1 DEF RowLockLabels
<1>3. c \in Calls /\ c.kind \in {"topup", "withdraw"} /\ c.key \in Keys
  BY <1>1, CallTypes DEF IndInv, JobsWellFormed, Kinds
<1>4. CASE c.key \in overdue
  BY <1>1, <1>2, <1>4, VoidingStep DEF PaySettle
<1>5. CASE c.key \notin overdue
  <2>1. /\ Save(c.key, "confirmed")
        /\ Post(c, IF c.kind = "withdraw"
                     THEN {<<c.wallet, "debit">>} \cup ReleaseHold(c)
                     ELSE {<<c.wallet, "credit">>})
    BY <1>5 DEF PaySettle
  <2>2. posted' = [posted EXCEPT ![c.key] = RowsDue(c.kind, "confirmed")]
    <3>1. status[c.key] \in OpenStatuses /\ call[c.key] = c
      BY <1>1, <1>2, HolderFacts DEF OpenStatuses
    <3> QED
      BY <1>3, <2>1, <3>1, PaidRows
  <2> QED
    BY <1>1, <1>2, <1>3, <2>1, <2>2
    DEF Pays, Closes, Save, OpenStatuses, FinalStatuses
<1> QED
  BY <1>4, <1>5

\* Behind its row lock confirm_transfer expires the request, goes on or leaves.
LEMMA XferDecideCases ==
  ASSUME IndInv, NEW p \in Procs, XferDecide(p)
  PROVE  \/ GiveUp(p) \/ Voids(p)
         \/ /\ Goto(p, "xfer_lock1") /\ mem[p] = "otp_pending"
            /\ UNCHANGED <<db, overdue, locks, job, mem, crashes>>
<1>1. pc[p] = "xfer_decide" /\ pc[p] \in RowLockLabels /\ job[p].kind = "p2p"
  BY DEF XferDecide, RowLockLabels, IndInv, JobsWellFormed
<1>2. CASE GiveUp(p)
  BY <1>2
<1>3. CASE /\ StillPending(p)
           /\ MayBecome(mem[p], "expired")
           /\ Save(job[p].key, "expired")
           /\ Finish(p)
           /\ UNCHANGED <<ledger, posted, call, overdue, crashes>>
  <2>1. mem[p] = "otp_pending" /\ mem[p] \in OpenStatuses
    BY <1>3 DEF StillPending, OpenStatuses
  <2> QED
    BY <1>1, <1>3, <2>1, NothingHeld, VoidingStep
<1> QED
  BY <1>2, <1>3 DEF XferDecide, StillPending

\* Behind its wallet locks it fails the request for lack of funds or goes on.
LEMMA XferFundsCases ==
  ASSUME IndInv, NEW p \in Procs, XferFunds(p)
  PROVE  \/ Voids(p)
         \/ /\ Goto(p, "xfer_settle")
            /\ job[p].amount <= Available(ledger, job[p].wallet)
            /\ UNCHANGED <<db, overdue, locks, job, mem, crashes>>
<1>1. /\ pc[p] = "xfer_funds" /\ pc[p] \in RowLockLabels /\ job[p].kind = "p2p"
      /\ mem[p] = "otp_pending" /\ mem[p] \in OpenStatuses
  BY DEF XferFunds, RowLockLabels, IndInv, JobsWellFormed, RowsLocked, OpenStatuses
<1>2. CASE /\ MayBecome(mem[p], "cancelled")
           /\ Save(job[p].key, "cancelled")
           /\ Finish(p)
           /\ UNCHANGED <<ledger, posted, call, overdue, crashes>>
  BY <1>1, <1>2, NothingHeld, VoidingStep
<1> QED
  BY <1>2 DEF XferFunds

\* Its commit is a transfer out of a wallet that has the money.
LEMMA XferSettleCases ==
  ASSUME IndInv, NEW p \in Procs, XferSettle(p)
  PROVE  Transfers(p)
<1> DEFINE c == job[p]
<1>1. /\ pc[p] = "xfer_settle" /\ pc[p] \in RowLockLabels
      /\ mem[p] = "otp_pending" /\ mem[p] \in OpenStatuses
      /\ c \in Calls /\ c.kind = "p2p" /\ c.wallet # c.peer
      /\ c.amount <= Available(ledger, c.wallet) /\ walletLock[c.wallet] = p
  BY DEF XferSettle, RowLockLabels, WalletLockLabels, IndInv, JobsWellFormed,
         RowsLocked, FundsLocked, OpenStatuses
<1>2. Post(c, {<<c.wallet, "debit">>, <<c.peer, "credit">>})
        /\ status' = [status EXCEPT ![c.key] = "confirmed"] /\ Finish(p)
        /\ UNCHANGED <<call, overdue, crashes>>
  BY DEF XferSettle, Save
<1>3. posted' = [posted EXCEPT ![c.key] = RowsDue(c.kind, "confirmed")]
  BY <1>1, <1>2, HolderFacts, TransferRows
<1> QED
  BY <1>1, <1>2, <1>3 DEF Transfers, Closes, FinalStatuses

\* The commit of cancel_payment voids the request or changes no row.
LEMMA CancelWriteCases ==
  ASSUME IndInv, NEW p \in Procs, CancelWrite(p)
  PROVE  GiveUp(p) \/ Voids(p)
<1>1. pc[p] \in RowLockLabels /\ job[p].kind # "p2p"
  BY DEF CancelWrite, RowLockLabels, IndInv, JobsWellFormed, CancelLabels
<1> QED
  BY <1>1, VoidingStep DEF CancelWrite

\* So does that of the sweep.
LEMMA ExpireWriteCases ==
  ASSUME IndInv, NEW p \in Procs, ExpireWrite(p)
  PROVE  GiveUp(p) \/ Voids(p)
<1>1. pc[p] \in RowLockLabels
  BY DEF ExpireWrite, RowLockLabels
<1> QED
  BY <1>1, VoidingStep DEF ExpireWrite

\* Closing without moving money preserves the invariant.
LEMMA VoidsIndInv ==
  ASSUME IndInv, NEW p \in Procs, Voids(p)
  PROVE  IndInv'
<1>1. PICK s \in {"cancelled", "expired"} :
        Closes(p, s) /\ Post(job[p], ReleaseHold(job[p]))
  BY DEF Voids
<1>2. /\ job[p] \in Calls /\ call[job[p].key] = job[p]
      /\ status[job[p].key] \in OpenStatuses
  BY <1>1, HolderFacts DEF Closes
<1>3. ledger' \in Books /\ \A w \in Wallets : Available(ledger', w) >= Available(ledger, w)
  BY <1>1, <1>2, VoidRows
<1>4. \A w \in Wallets : Available(ledger', w) >= 0
  BY <1>3, SolventNow, FigureTypes
<1> QED
  BY <1>1, <1>3, <1>4, CloseIndInv

\* Paying a withdrawal or a top-up preserves it.
LEMMA PaysIndInv ==
  ASSUME IndInv, NEW p \in Procs, Pays(p)
  PROVE  IndInv'
<1>1. /\ job[p] \in Calls /\ call[job[p].key] = job[p]
      /\ status[job[p].key] \in OpenStatuses
  BY HolderFacts DEF Pays, Closes
<1>2. ledger' \in Books /\ \A w \in Wallets : Available(ledger', w) >= Available(ledger, w)
  BY <1>1, PaidRows DEF Pays
<1>3. \A w \in Wallets : Available(ledger', w) >= 0
  BY <1>2, SolventNow, FigureTypes
<1> QED
  BY <1>2, <1>3, CloseIndInv DEF Pays

\* A transfer preserves it: the sender's funds are behind the handler's lock.
LEMMA TransfersIndInv ==
  ASSUME IndInv, NEW p \in Procs, Transfers(p)
  PROVE  IndInv'
<1> DEFINE c == job[p]
<1>1. c \in Calls /\ call[c.key] = c /\ status[c.key] \in OpenStatuses
  BY HolderFacts DEF Transfers, Closes
<1>2. c.wallet \in Wallets /\ c.amount \in Nat
  BY <1>1, CallTypes
<1>3. /\ ledger' \in Books
      /\ Available(ledger', c.wallet) = Available(ledger, c.wallet) - c.amount
      /\ \A w \in Wallets :
           w # c.wallet => Available(ledger', w) >= Available(ledger, w)
  BY <1>1, TransferRows DEF Transfers
<1>4. c.amount <= Available(ledger, c.wallet) /\ walletLock[c.wallet] = p
  BY DEF Transfers
<1>5. \A w \in Wallets : /\ Available(ledger', w) \in Int
                         /\ Available(ledger, w) \in Int
                         /\ Available(ledger, w) >= 0
  BY <1>3, SolventNow, FigureTypes
<1>6. \A w \in Wallets : Available(ledger', w) >= 0
  BY <1>2, <1>3, <1>4, <1>5
<1>7. \A w \in Wallets : \/ Available(ledger', w) >= Available(ledger, w)
                         \/ walletLock[w] = p
  BY <1>3, <1>4
<1> QED
  BY <1>3, <1>6, <1>7, CloseIndInv DEF Transfers

-----------------------------------------------------------------------------
\* The first statement of every handler preserves the invariant, ...
LEMMA StartIndInv ==
  ASSUME IndInv, NEW p \in Procs, Start(p)
  PROVE  IndInv'
<1>1. \A k \in Keys : status[k] # "absent" =>
        call[k] \in Calls /\ call[k].key = k /\ call[k] # NoCall
  BY DEF IndInv, RowsWellFormed, TypeOK
<1>2. ASSUME NEW c \in Calls, InitiatePayment(p, c) PROVE IndInv'
  BY <1>2, BeginIndInv DEF InitiatePayment
<1>3. ASSUME NEW c \in Calls, InitiateTransfer(p, c) PROVE IndInv'
  BY <1>3, BeginIndInv DEF InitiateTransfer
<1>4. ASSUME NEW k \in Keys, Confirm(p, k) PROVE IndInv'
  BY <1>1, <1>4, BeginIndInv DEF Confirm
<1>5. ASSUME NEW k \in Keys, CancelPayment(p, k) PROVE IndInv'
  BY <1>1, <1>5, BeginIndInv DEF CancelPayment
<1>6. ASSUME NEW k \in Keys, Expire(p, k) PROVE IndInv'
  BY <1>1, <1>6, BeginIndInv DEF Expire, OpenStatuses
<1> QED
  BY <1>2, <1>3, <1>4, <1>5, <1>6 DEF Start

\* ... and so does each of the later ones.
LEMMA StepIndInv ==
  ASSUME IndInv, NEW p \in Procs, Step(p)
  PROVE  IndInv'
<1>0. /\ crashes \in Nat
      /\ pc[p] # "idle" => job[p].wallet \in Wallets /\ job[p].peer \in Wallets
      /\ pc[p] # "idle" => \A i \in {1, 2} : LockOrder(job[p])[i] \in Wallets
  BY CallTypes DEF IndInv, TypeOK, JobsWellFormed, LockOrder
<1>1. ASSUME GiveUp(p) PROVE IndInv'
  BY <1>0, <1>1, GiveUpIndInv DEF GiveUp
<1>2. CASE PayLock(p)
  BY <1>0, <1>2, LockWalletIndInv DEF PayLock
<1>3. CASE PayRefuse(p) \/ PayNoFunds(p) \/ PayGuard(p)
  BY <1>1, <1>3, GoOnIndInv DEF PayRefuse, PayNoFunds, PayGuard
<1>4. CASE PayInsert(p)
  BY <1>4, PayInsertIndInv
<1>5. CASE XferGuard(p)
  BY <1>1, <1>5, GoOnIndInv DEF XferGuard
<1>6. CASE XferInsert(p)
  BY <1>6, XferInsertIndInv
<1>7. CASE XferMark(p)
  BY <1>7, XferMarkIndInv
<1>8. CASE ConfirmOtp(p)
  BY <1>1, <1>8, GoOnIndInv DEF ConfirmOtp
<1>9. CASE ConfirmRow(p)
  BY <1>9, LockRowIndInv DEF ConfirmRow
<1>10. CASE PayWallet(p)
  BY <1>0, <1>10, LockWalletIndInv DEF PayWallet
<1>11. CASE PaySettle(p)
  BY <1>1, <1>11, PaySettleCases, VoidsIndInv, PaysIndInv
<1>12. CASE XferDecide(p)
  <2>1. pc[p] = "xfer_decide"
    BY <1>12 DEF XferDecide
  <2> QED
    BY <1>1, <1>12, <2>1, XferDecideCases, VoidsIndInv, GoOnIndInv
<1>13. CASE XferLock1(p)
  BY <1>0, <1>13, LockWalletIndInv DEF XferLock1
<1>14. CASE XferLock2(p)
  BY <1>0, <1>14, LockWalletIndInv DEF XferLock2
<1>15. CASE XferFunds(p)
  <2>1. pc[p] = "xfer_funds"
    BY <1>15 DEF XferFunds
  <2> QED
    BY <1>15, <2>1, XferFundsCases, VoidsIndInv, GoOnIndInv
<1>16. CASE XferSettle(p)
  BY <1>16, XferSettleCases, TransfersIndInv
<1>17. CASE CancelRow(p)
  BY <1>17, LockRowIndInv DEF CancelRow
<1>18. CASE CancelWallet(p)
  BY <1>0, <1>18, LockWalletIndInv DEF CancelWallet
<1>19. CASE CancelWrite(p)
  BY <1>1, <1>19, CancelWriteCases, VoidsIndInv
<1>20. CASE ExpireRow(p)
  BY <1>20, LockRowIndInv DEF ExpireRow
<1>21. CASE ExpireWrite(p)
  BY <1>1, <1>21, ExpireWriteCases, VoidsIndInv
<1> QED
  BY <1>2, <1>3, <1>4, <1>5, <1>6, <1>7, <1>8, <1>9, <1>10, <1>11, <1>12,
     <1>13, <1>14, <1>15, <1>16, <1>17, <1>18, <1>19, <1>20, <1>21 DEF Step

\* The lock discipline, the bookkeeping per request and the solvency of every
\* wallet hold together after every step of every handler.
THEOREM Invariance == Spec => []IndInv
<1>1. Init => IndInv
  BY InitIndInv
<1>2. IndInv /\ [Next]_vars => IndInv'
  <2> SUFFICES ASSUME IndInv, [Next]_vars PROVE IndInv'
    OBVIOUS
  <2>1. ASSUME NEW p \in Procs, Start(p) PROVE IndInv'
    BY <2>1, StartIndInv
  <2>2. ASSUME NEW p \in Procs, Step(p) PROVE IndInv'
    BY <2>2, StepIndInv
  <2>3. ASSUME NEW p \in Procs, Crash(p) PROVE IndInv'
    <3>1. Finish(p) /\ UNCHANGED <<db, overdue>> /\ crashes' = crashes + 1
      BY <2>3 DEF Crash
    <3>2. crashes' \in Nat
      BY <3>1 DEF IndInv, TypeOK
    <3> QED
      BY <3>1, <3>2, GiveUpIndInv
  <2>4. ASSUME NEW k \in Keys, BecomeOverdue(k) PROVE IndInv'
    BY <2>4, OverdueIndInv
  <2>5. CASE UNCHANGED vars
    <3> USE <2>5 DEF vars, db, locks, procs, IndInv
    <3>1. TypeOK'
      BY DEF TypeOK
    <3>2. RowsWellFormed' /\ EntriesMatchStatus' /\ NoOverdraft'
      BY QuietTables
    <3>3. JobsWellFormed' /\ RowsLocked' /\ MarksOwned'
      BY DEF JobsWellFormed, RowsLocked, MarksOwned
    <3>4. FundsLocked'
      BY DEF FundsLocked, LockOrder, Available, Held, Balance
    <3> QED
      BY <3>1, <3>2, <3>3, <3>4
  <2> QED
    BY <2>1, <2>2, <2>3, <2>4, <2>5 DEF Next
<1> QED
  BY <1>1, <1>2, PTL DEF Spec

\* Every variable keeps its type.
THEOREM TypeSafety == Spec => []TypeOK
<1>1. IndInv => TypeOK
  BY DEF IndInv
<1> QED
  BY <1>1, Invariance, PTL

\* No wallet ever spends or reserves more than it has.
THEOREM Solvency == Spec => []NoOverdraft
<1>1. IndInv => NoOverdraft
  BY DEF IndInv
<1> QED
  BY <1>1, Invariance, PTL

\* The ledger rows of every request are exactly those its status calls for.
THEOREM Bookkeeping == Spec => []EntriesMatchStatus
<1>1. IndInv => EntriesMatchStatus
  BY DEF IndInv
<1> QED
  BY <1>1, Invariance, PTL

-----------------------------------------------------------------------------
(***************************************************************************)
(* What a step is, seen through the tables: nothing, an insert, a mark, or *)
(* one of the three ways to close.                                         *)
(***************************************************************************)
Inserts(p) ==
  LET c == job[p] IN
  /\ c \in Calls
  /\ status[c.key] = "absent"
  /\ call' = [call EXCEPT ![c.key] = c]
  /\ \E s \in OpenStatuses : status' = [status EXCEPT ![c.key] = s]
  /\ IF c.kind = "withdraw"
       THEN /\ c.amount <= Available(ledger, c.wallet)
            /\ ledger' = PostEntries(ledger, {<<c.wallet, "hold">>}, c.amount)
       ELSE ledger' = ledger
  /\ \A k \in Keys : k # c.key => posted'[k] = posted[k]

Marks(p) ==
  LET k == job[p].key IN
  /\ k \in Keys
  /\ status[k] = "initiated"
  /\ status' = [status EXCEPT ![k] = "otp_pending"]
  /\ UNCHANGED <<ledger, posted, call>>

\* Every step opens a request, marks or closes one, or writes nothing.
LEMMA StepKinds ==
  ASSUME IndInv, [Next]_vars
  PROVE  \/ UNCHANGED db
         \/ \E p \in Procs : Inserts(p) \/ Marks(p) \/ Voids(p) \/ Pays(p) \/ Transfers(p)
<1> DEFINE Kinded == \/ UNCHANGED db
                     \/ \E p \in Procs : \/ Inserts(p) \/ Marks(p)
                                         \/ Voids(p) \/ Pays(p) \/ Transfers(p)
<1>1. ASSUME NEW p \in Procs, Start(p) PROVE UNCHANGED db
  BY <1>1 DEF Start, InitiatePayment, InitiateTransfer, Confirm, CancelPayment,
     Expire, Begin
<1>2. ASSUME NEW p \in Procs, PayInsert(p) PROVE UNCHANGED db \/ Inserts(p)
  <2> DEFINE c == job[p]
  <2>1. CASE KeyTaken(c.key)
    BY <1>2, <2>1 DEF PayInsert, GiveUp
  <2>2. CASE ~KeyTaken(c.key)
    <3>1. c \in Calls /\ c.key \in Keys /\ c.amount \in Nat /\ pc[p] = "pay_insert"
      BY <1>2, CallTypes DEF PayInsert, IndInv, JobsWellFormed
    <3>2. /\ call' = [call EXCEPT ![c.key] = c]
          /\ Post(c, IF c.kind = "withdraw" THEN {<<c.wallet, "hold">>} ELSE {})
          /\ status' = [status EXCEPT ![c.key] = "otp_pending"]
      BY <1>2, <2>2 DEF PayInsert, Save
    <3>3. ledger \in Books /\ posted \in [Keys -> [EntryTypes -> Nat]]
      BY DEF IndInv, TypeOK
    <3>4. \A k \in Keys : k # c.key => posted'[k] = posted[k]
      BY <3>1, <3>2, <3>3 DEF Post
    <3>5. c.kind = "withdraw" =>
            /\ c.amount <= Available(ledger, c.wallet)
            /\ ledger' = PostEntries(ledger, {<<c.wallet, "hold">>}, c.amount)
      BY <3>1, <3>2 DEF IndInv, FundsLocked, Post
    <3>6. c.kind # "withdraw" => ledger' = ledger
      BY <3>1, <3>2, <3>3, PostNothing DEF Post
    <3> QED
      BY <2>2, <3>1, <3>2, <3>4, <3>5, <3>6 DEF Inserts, KeyTaken, OpenStatuses
  <2> QED
    BY <2>1, <2>2
<1>3. ASSUME NEW p \in Procs, XferInsert(p) PROVE UNCHANGED db \/ Inserts(p)
  <2>1. CASE KeyTaken(job[p].key)
    BY <1>3, <2>1 DEF XferInsert, GiveUp
  <2>2. CASE ~KeyTaken(job[p].key)
    <3>1. job[p] \in Calls /\ job[p].kind = "p2p"
      BY <1>3 DEF XferInsert, IndInv, JobsWellFormed, XferLabels
    <3> QED
      BY <1>3, <2>2, <3>1 DEF XferInsert, Inserts, Save, KeyTaken, OpenStatuses
  <2> QED
    BY <2>1, <2>2
<1>4. ASSUME NEW p \in Procs, XferMark(p) PROVE Marks(p)
  <2>1. job[p].key \in Keys /\ status[job[p].key] = "initiated"
    BY <1>4, CallTypes DEF XferMark, IndInv, JobsWellFormed, MarksOwned
  <2> QED
    BY <1>4, <2>1 DEF XferMark, Marks, Save
<1>5. ASSUME NEW p \in Procs, Step(p) PROVE Kinded
  <2>1. GiveUp(p) => UNCHANGED db
    BY DEF GiveUp
  <2>2. \A w, label : LockWallet(p, w, label) => UNCHANGED db
    BY DEF LockWallet
  <2>3. \A label : LockRow(p, label) => UNCHANGED db
    BY DEF LockRow
  <2>4. CASE PayLock(p) \/ PayWallet(p) \/ XferLock1(p) \/ XferLock2(p) \/ CancelWallet(p)
    BY <2>2, <2>4 DEF PayLock, PayWallet, XferLock1, XferLock2, CancelWallet
  <2>5. CASE ConfirmRow(p) \/ CancelRow(p) \/ ExpireRow(p)
    BY <2>3, <2>5 DEF ConfirmRow, CancelRow, ExpireRow
  <2>6. CASE \/ PayRefuse(p) \/ PayNoFunds(p) \/ PayGuard(p)
             \/ XferGuard(p) \/ ConfirmOtp(p)
    BY <2>1, <2>6 DEF PayRefuse, PayNoFunds, PayGuard, XferGuard, ConfirmOtp
  <2>7. CASE PayInsert(p) \/ XferInsert(p) \/ XferMark(p)
    BY <2>7, <1>2, <1>3, <1>4
  <2>8. CASE \/ PaySettle(p) \/ XferDecide(p) \/ XferFunds(p) \/ XferSettle(p)
             \/ CancelWrite(p) \/ ExpireWrite(p)
    BY <2>1, <2>8, PaySettleCases, XferDecideCases, XferFundsCases,
       XferSettleCases, CancelWriteCases, ExpireWriteCases
  <2> QED
    BY <1>5, <2>4, <2>5, <2>6, <2>7, <2>8 DEF Step
<1>6. ASSUME NEW p \in Procs, Crash(p) PROVE UNCHANGED db
  BY <1>6 DEF Crash
<1>7. ASSUME NEW k \in Keys, BecomeOverdue(k) PROVE UNCHANGED db
  BY <1>7 DEF BecomeOverdue
<1>8. CASE UNCHANGED vars
  BY <1>8 DEF vars
<1> QED
  BY <1>1, <1>5, <1>6, <1>7, <1>8 DEF Next

\* A closed request is never written again, by whoever works on it still.
THEOREM Finality == Spec => TerminalIsFinal
<1>1. IndInv /\ [Next]_vars => [ClosedStays]_vars
  <2> SUFFICES ASSUME IndInv, [Next]_vars,
                      NEW k \in Keys, status[k] \in FinalStatuses
               PROVE  UNCHANGED <<status[k], posted[k], call[k]>>
    BY DEF ClosedStays
  <2> USE DEF FinalStatuses, OpenStatuses
  <2>1. /\ status \in [Keys -> Statuses]
        /\ call \in [Keys -> Calls \cup {NoCall}]
        /\ posted \in [Keys -> [EntryTypes -> Nat]]
    BY DEF IndInv, TypeOK
  <2>2. CASE UNCHANGED db
    BY <2>2 DEF db
  <2>3. ASSUME NEW p \in Procs, Inserts(p) \/ Marks(p)
        PROVE  UNCHANGED <<status[k], posted[k], call[k]>>
    BY <2>1, <2>3, CallTypes DEF Inserts, Marks
  <2>4. ASSUME NEW p \in Procs, NEW s, Closes(p, s)
        PROVE  UNCHANGED <<status[k], posted[k], call[k]>>
    BY <2>1, <2>4, HolderFacts DEF Closes
  <2> QED
    BY <2>2, <2>3, <2>4, StepKinds DEF Voids, Pays, Transfers
<1> QED
  BY <1>1, Invariance, PTL DEF Spec, TerminalIsFinal

-----------------------------------------------------------------------------
(***************************************************************************)
(* The refinement of Accounts.                                             *)
(***************************************************************************)
\* Both specifications read and write a book in the same way.
LEMMA SameBooks ==
  /\ Promise!OpeningBook = OpeningBook
  /\ \A b, e, a : Promise!PostEntries(b, e, a) = PostEntries(b, e, a)
  /\ \A b, w : Promise!Available(b, w) = Available(b, w)
  BY DEF Promise!OpeningBook, OpeningBook, Promise!PostEntries, PostEntries,
         Promise!EntryTypes, EntryTypes, Promise!Available, Available,
         Promise!Balance, Balance, Promise!Held, Held

PhaseAt(s) ==
  CASE s = "absent"                   -> "new"
    [] s \in OpenStatuses             -> "open"
    [] s = "confirmed"                -> "settled"
    [] s \in {"cancelled", "expired"} -> "void"

\* The phase of each status.
LEMMA PhaseValues ==
  /\ PhaseAt("absent") = "new"
  /\ \A s \in OpenStatuses : PhaseAt(s) = "open"
  /\ PhaseAt("confirmed") = "settled"
  /\ \A s \in {"cancelled", "expired"} : PhaseAt(s) = "void"
  BY DEF PhaseAt, OpenStatuses

\* The refinement mapping, status by status.
LEMMA PhaseNow ==
  /\ Phase = [k \in Keys |-> PhaseAt(status[k])]
  /\ Phase' = [k \in Keys |-> PhaseAt(status'[k])]
  BY DEF Phase, PhaseAt

\* Changing one status changes one phase.
LEMMA PhaseMoves ==
  ASSUME status \in [Keys -> Statuses], NEW k \in Keys, NEW s,
         status' = [status EXCEPT ![k] = s]
  PROVE  Phase' = [Phase EXCEPT ![k] = PhaseAt(s)]
  BY PhaseNow

\* Every step of the handlers is one of Accounts, or none.
LEMMA StepRefines ==
  IndInv /\ [Next]_vars => [Promise!Next]_(Promise!accountVars)
<1> SUFFICES ASSUME IndInv, [Next]_vars
             PROVE  [Promise!Next]_(Promise!accountVars)
  OBVIOUS
<1>1. /\ status \in [Keys -> Statuses]
      /\ call \in [Keys -> Calls \cup {NoCall}]
      /\ ledger \in Books
  BY DEF IndInv, TypeOK
<1>2. CASE UNCHANGED db
  BY <1>2, PhaseNow DEF db, Promise!accountVars
<1>3. ASSUME NEW p \in Procs, Inserts(p) PROVE Promise!Next
  <2> DEFINE c == job[p]
  <2>1. c \in Calls /\ c.key \in Keys
    BY <1>3, CallTypes DEF Inserts
  <2>2. PICK s \in OpenStatuses : status' = [status EXCEPT ![c.key] = s]
    BY <1>3 DEF Inserts
  <2>3. Phase[c.key] = "new" /\ Phase' = [Phase EXCEPT ![c.key] = "open"]
    BY <1>1, <1>3, <2>1, <2>2, PhaseNow, PhaseMoves, PhaseValues DEF Inserts
  <2>4. Promise!Open(c)
    BY <1>3, <2>3, SameBooks DEF Inserts, Promise!Open
  <2> QED
    BY <2>1, <2>4 DEF Promise!Next
<1>4. ASSUME NEW p \in Procs, Marks(p) PROVE UNCHANGED Promise!accountVars
  <2> DEFINE k == job[p].key
  <2>1. Phase' = [Phase EXCEPT ![k] = "open"] /\ Phase[k] = "open"
    BY <1>1, <1>4, PhaseNow, PhaseMoves, PhaseValues DEF Marks, OpenStatuses
  <2>2. Phase' = Phase
    BY <2>1, PhaseNow
  <2> QED
    BY <1>4, <2>2 DEF Marks, Promise!accountVars
<1>5. ASSUME NEW p \in Procs, Voids(p) PROVE Promise!Next
  <2> DEFINE k == job[p].key
  <2>1. PICK s \in {"cancelled", "expired"} :
          Closes(p, s) /\ Post(job[p], ReleaseHold(job[p]))
    BY <1>5 DEF Voids
  <2>2. k \in Keys /\ call[k] = job[p] /\ status[k] \in OpenStatuses
          /\ job[p] \in Calls /\ job[p].amount \in Nat /\ job[p].wallet \in Wallets
    BY <2>1, HolderFacts, CallTypes DEF Closes
  <2>3. Phase[k] = "open" /\ Phase' = [Phase EXCEPT ![k] = "void"]
    BY <1>1, <2>1, <2>2, PhaseNow, PhaseMoves, PhaseValues DEF Closes
  <2>4. ledger' = IF job[p].kind = "withdraw"
                    THEN PostEntries(ledger, {<<job[p].wallet, "reversal">>}, job[p].amount)
                    ELSE ledger
    BY <1>1, <2>1, <2>2, HoldOfOpen, PostNothing DEF Post, ReleaseHold
  <2>5. Promise!Void(k)
    BY <2>1, <2>2, <2>3, <2>4, SameBooks DEF Closes, Promise!Void
  <2> QED
    BY <2>2, <2>5 DEF Promise!Next
<1>6. ASSUME NEW p \in Procs, Pays(p) \/ Transfers(p) PROVE Promise!Next
  <2> DEFINE c == job[p]
  <2>1. Closes(p, "confirmed")
    BY <1>6 DEF Pays, Transfers
  <2>2. /\ c.key \in Keys /\ call[c.key] = c /\ status[c.key] \in OpenStatuses
        /\ c \in Calls /\ c.amount \in Nat
    BY <2>1, HolderFacts, CallTypes DEF Closes
  <2>3. Phase[c.key] = "open" /\ Phase' = [Phase EXCEPT ![c.key] = "settled"]
    BY <1>1, <2>1, <2>2, PhaseNow, PhaseMoves, PhaseValues DEF Closes
  <2>4. CASE Pays(p)
    <3>1. ledger' = PostEntries(ledger, Promise!SettlementRows(c), c.amount)
      BY <2>2, <2>4, PaidRows DEF Pays, Promise!SettlementRows
    <3>2. c.kind # "p2p"
      BY <2>4 DEF Pays
    <3> QED
      BY <2>1, <2>2, <2>3, <3>1, <3>2, SameBooks DEF Closes, Promise!Settle, Promise!Next
  <2>5. CASE Transfers(p)
    <3>1. ledger' = PostEntries(ledger, Promise!SettlementRows(c), c.amount)
      BY <2>5 DEF Transfers, Post, Promise!SettlementRows
    <3> QED
      BY <2>1, <2>2, <2>3, <2>5, <3>1, SameBooks
      DEF Closes, Transfers, Promise!Settle, Promise!Next
  <2> QED
    BY <1>6, <2>4, <2>5
<1> QED
  BY <1>2, <1>3, <1>4, <1>5, <1>6, StepKinds

\* Every behaviour of the handlers is one that Accounts allows.
THEOREM Refinement == Spec => KeepsPromise
<1>1. Init => Promise!Init
  BY PhaseNow, PhaseValues, SameBooks DEF Init, Promise!Init
<1>2. IndInv /\ [Next]_vars => [Promise!Next]_(Promise!accountVars)
  BY StepRefines
<1> QED
  BY <1>1, <1>2, Invariance, PTL DEF Spec, KeepsPromise, Promise!Spec

-----------------------------------------------------------------------------
(***************************************************************************)
(* What the ledger holds in all.  Sums over the requests of one phase      *)
(* follow the three steps of Accounts.                                     *)
(***************************************************************************)
Amount == [k \in Keys |-> call[k].amount]
Assets == [w \in Wallets |-> Balance(ledger, w)]

Reserving(w) ==
  {k \in Keys : Phase[k] = "open" /\ call[k].kind = "withdraw" /\ call[k].wallet = w}
Settled(kind) == {k \in Keys : Phase[k] = "settled" /\ call[k].kind = kind}

HeldAddsUp == \A w \in Wallets : Held(ledger, w) = Sum(Amount, Reserving(w))
MoneyAddsUp ==
  Sum(Assets, Wallets) =
    Sum(Opening, Wallets) + Sum(Amount, Settled("topup"))
                          - Sum(Amount, Settled("withdraw"))

\* What is being added up are numbers, and each set of requests is finite.
LEMMA Summable ==
  ASSUME IndInv
  PROVE  /\ Amount = [k \in Keys |-> call[k].amount]
         /\ \A k \in Keys : Phase[k] # "new" => call[k] \in Calls /\ Amount[k] \in Int
         /\ \A S \in SUBSET Keys : IsFiniteSet(S)
         /\ \A w \in Wallets : Assets[w] \in Int /\ Opening[w] \in Int
<1>1. \A k \in Keys : Phase[k] # "new" => call[k] \in Calls
  BY PhaseNow, PhaseValues DEF IndInv, TypeOK, RowsWellFormed
<1>2. \A S \in SUBSET Keys : IsFiniteSet(S)
  BY UuidAssumption, FS_Subset
<1>3. \A w \in Wallets : Assets[w] \in Int /\ Opening[w] \in Int
  BY FigureTypes, OpeningAssumption DEF IndInv, TypeOK, Assets
<1> QED
  BY <1>1, <1>2, <1>3, CallTypes DEF Amount

\* Opening a request adds an amount to those of the calls, ...
LEMMA OpenAmounts ==
  ASSUME IndInv, NEW c \in Calls, Promise!Open(c)
  PROVE  /\ c.key \in Keys /\ c.amount \in Nat /\ c.wallet \in Wallets
         /\ Phase[c.key] = "new"
         /\ \A k \in Keys : k # c.key => Phase'[k] = Phase[k] /\ call'[k] = call[k]
         /\ Phase'[c.key] = "open" /\ call'[c.key] = c
         /\ \A k \in Keys : k # c.key => Amount'[k] = Amount[k]
         /\ Amount'[c.key] = c.amount
<1>1. c.key \in Keys /\ c.amount \in Nat /\ c.wallet \in Wallets
  BY CallTypes
<1>2. call \in [Keys -> Calls \cup {NoCall}] /\ DOMAIN Phase = Keys
  BY PhaseNow DEF IndInv, TypeOK
<1>3. /\ \A k \in Keys : k # c.key => Phase'[k] = Phase[k] /\ call'[k] = call[k]
      /\ Phase'[c.key] = "open" /\ call'[c.key] = c /\ Phase[c.key] = "new"
  BY <1>1, <1>2 DEF Promise!Open
<1> QED
  BY <1>1, <1>3 DEF Amount

\* ... and closing one takes it from the open ones.
LEMMA CloseAmounts ==
  ASSUME IndInv, NEW k \in Keys, Promise!Settle(k) \/ Promise!Void(k)
  PROVE  /\ call[k] \in Calls /\ call[k].amount \in Nat /\ call[k].wallet \in Wallets
         /\ call[k].peer \in Wallets /\ call[k].kind \in Kinds
         /\ Phase[k] = "open" /\ Amount[k] = call[k].amount
         /\ call' = call /\ Amount' = Amount
         /\ \A i \in Keys : i # k => Phase'[i] = Phase[i]
         /\ Promise!Settle(k) => Phase'[k] = "settled"
         /\ Promise!Void(k) => Phase'[k] = "void"
<1>1. Phase[k] = "open" /\ call' = call /\ DOMAIN Phase = Keys
  BY PhaseNow DEF Promise!Settle, Promise!Void
<1>2. call[k] \in Calls
  BY <1>1, Summable
<1>3. /\ \A i \in Keys : i # k => Phase'[i] = Phase[i]
      /\ Promise!Settle(k) => Phase'[k] = "settled"
      /\ Promise!Void(k) => Phase'[k] = "void"
  BY <1>1 DEF Promise!Settle, Promise!Void
<1> QED
  BY <1>1, <1>2, <1>3, CallTypes DEF Amount

\* The rows of each step.
LEMMA RowsOpened ==
  ASSUME IndInv, NEW c \in Calls, Promise!Open(c)
  PROVE  ledger' = PostEntries(ledger,
                     IF c.kind = "withdraw" THEN {<<c.wallet, "hold">>} ELSE {},
                     c.amount)
<1>1. ledger \in Books /\ c.amount \in Nat
  BY CallTypes DEF IndInv, TypeOK
<1> QED
  BY <1>1, PostNothing, SameBooks DEF Promise!Open

LEMMA RowsSettled ==
  ASSUME NEW k \in Keys, Promise!Settle(k)
  PROVE  ledger' = PostEntries(ledger, Promise!SettlementRows(call[k]), call[k].amount)
  BY SameBooks DEF Promise!Settle

LEMMA RowsVoided ==
  ASSUME IndInv, NEW k \in Keys, Promise!Void(k)
  PROVE  ledger' = PostEntries(ledger,
                     IF call[k].kind = "withdraw"
                       THEN {<<call[k].wallet, "reversal">>} ELSE {},
                     call[k].amount)
<1>1. ledger \in Books /\ call[k].amount \in Nat
  BY CloseAmounts DEF IndInv, TypeOK
<1> QED
  BY <1>1, PostNothing, SameBooks DEF Promise!Void

\* Holds are written when a withdrawal opens and released when it closes.
LEMMA HeldStep ==
  ASSUME IndInv, HeldAddsUp, [Promise!Next]_(Promise!accountVars)
  PROVE  HeldAddsUp'
<1> SUFFICES ASSUME NEW w \in Wallets
             PROVE  Held(ledger', w) = Sum(Amount', Reserving(w)')
  BY DEF HeldAddsUp, Held
<1>1. /\ ledger \in Books
      /\ Held(ledger, w) = Sum(Amount, Reserving(w)) /\ Held(ledger, w) \in Int
  BY FigureTypes DEF IndInv, TypeOK, HeldAddsUp
<1>2. /\ IsFiniteSet(Reserving(w)) /\ Reserving(w) \subseteq Keys
      /\ \A k \in Reserving(w) : Amount[k] \in Int
  BY Summable DEF Reserving
<1>3. ASSUME NEW c \in Calls, Promise!Open(c)
      PROVE  Held(ledger', w) = Sum(Amount', Reserving(w)')
  <2> DEFINE opens == c.kind = "withdraw" /\ c.wallet = w
  <2>1. Held(ledger', w) = Held(ledger, w) + (IF opens THEN c.amount ELSE 0)
    <3> DEFINE rows == IF c.kind = "withdraw" THEN {<<c.wallet, "hold">>} ELSE {}
    <3>1. ledger' = PostEntries(ledger, rows, c.amount) /\ c.amount \in Nat
      BY <1>3, RowsOpened, OpenAmounts
    <3>2. /\ <<w, "hold">> \in rows <=> opens
          /\ <<w, "reversal">> \notin rows
      OBVIOUS
    <3> HIDE DEF rows
    <3>3. Held(PostEntries(ledger, rows, c.amount), w) =
            Held(ledger, w) + (IF <<w, "hold">> \in rows THEN c.amount ELSE 0)
                            - (IF <<w, "reversal">> \in rows THEN c.amount ELSE 0)
      BY <1>1, <3>1, PostEntriesHeld
    <3> QED
      BY <1>1, <3>1, <3>2, <3>3
  <2>2. c.key \notin Reserving(w)
    BY <1>3, OpenAmounts DEF Reserving
  <2>3. Reserving(w)' = IF opens THEN Reserving(w) \cup {c.key} ELSE Reserving(w)
    BY <1>3, OpenAmounts DEF Reserving
  <2>4. /\ \A k \in Reserving(w) : Amount'[k] = Amount[k]
        /\ Amount'[c.key] = c.amount /\ c.amount \in Int
    BY <1>2, <1>3, <2>2, OpenAmounts
  <2>5. Sum(Amount', Reserving(w)) = Sum(Amount, Reserving(w))
    BY <2>4, SumSame
  <2>6. Sum(Amount', Reserving(w) \cup {c.key}) = Sum(Amount', Reserving(w)) + c.amount
    <3>1. \A k \in Reserving(w) \cup {c.key} : Amount'[k] \in Int
      BY <1>2, <2>4
    <3>2. Sum(Amount', Reserving(w) \cup {c.key}) =
            Sum(Amount', Reserving(w)) + Amount'[c.key]
      BY <1>2, <2>2, <3>1, SumInsert
    <3> QED
      BY <2>4, <3>2
  <2> QED
    BY <1>1, <2>1, <2>3, <2>4, <2>5, <2>6
<1>4. ASSUME NEW k \in Keys, Promise!Settle(k) \/ Promise!Void(k)
      PROVE  Held(ledger', w) = Sum(Amount', Reserving(w)')
  <2> DEFINE c == call[k]
             closes == c.kind = "withdraw" /\ c.wallet = w
  <2>1. Held(ledger', w) = Held(ledger, w) - (IF closes THEN c.amount ELSE 0)
    <3>1. \E rows : /\ ledger' = PostEntries(ledger, rows, c.amount)
                    /\ <<w, "hold">> \notin rows
                    /\ <<w, "reversal">> \in rows <=> closes
      <4>1. CASE Promise!Settle(k)
        <5>1. /\ <<w, "hold">> \notin Promise!SettlementRows(c)
              /\ <<w, "reversal">> \in Promise!SettlementRows(c) <=> closes
          BY <1>4, CloseAmounts DEF Promise!SettlementRows, Kinds
        <5> QED
          BY <4>1, <5>1, RowsSettled
      <4>2. CASE Promise!Void(k)
        <5> DEFINE rows == IF c.kind = "withdraw" THEN {<<c.wallet, "reversal">>} ELSE {}
        <5>1. <<w, "hold">> \notin rows /\ (<<w, "reversal">> \in rows <=> closes)
          OBVIOUS
        <5>2. ledger' = PostEntries(ledger, rows, c.amount)
          BY <4>2, RowsVoided
        <5> QED
          BY <5>1, <5>2
      <4> QED
        BY <1>4, <4>1, <4>2
    <3>2. PICK rows : /\ ledger' = PostEntries(ledger, rows, c.amount)
                      /\ <<w, "hold">> \notin rows
                      /\ <<w, "reversal">> \in rows <=> closes
      BY <3>1
    <3>3. c.amount \in Nat
      BY <1>4, CloseAmounts
    <3>4. Held(PostEntries(ledger, rows, c.amount), w) =
            Held(ledger, w) + (IF <<w, "hold">> \in rows THEN c.amount ELSE 0)
                            - (IF <<w, "reversal">> \in rows THEN c.amount ELSE 0)
      BY <1>1, <3>3, PostEntriesHeld
    <3> QED
      BY <1>1, <3>2, <3>3, <3>4
  <2>2. Amount' = Amount /\ Amount[k] = c.amount /\ c.amount \in Int
    BY <1>4, CloseAmounts
  <2>3. k \in Reserving(w) <=> closes
    BY <1>4, CloseAmounts DEF Reserving
  <2>4. Reserving(w)' = Reserving(w) \ {k}
    BY <1>4, CloseAmounts DEF Reserving
  <2>5. CASE closes
    <3>1. Sum(Amount, Reserving(w)) = c.amount + Sum(Amount, Reserving(w) \ {k})
      BY <1>2, <2>2, <2>3, <2>5, SumRemove
    <3>2. Sum(Amount, Reserving(w) \ {k}) \in Int
      BY <1>2, FS_Subset, SumType
    <3> QED
      BY <1>1, <2>1, <2>2, <2>4, <2>5, <3>1, <3>2
  <2>6. CASE ~closes
    <3>1. Reserving(w) \ {k} = Reserving(w)
      BY <2>3, <2>6
    <3>2. Held(ledger', w) = Held(ledger, w)
      BY <1>1, <2>1, <2>6
    <3> QED
      BY <1>1, <2>2, <2>4, <3>1, <3>2
  <2> QED
    BY <2>5, <2>6
<1>5. CASE UNCHANGED Promise!accountVars
  BY <1>1, <1>5 DEF Promise!accountVars, Amount, Reserving
<1> QED
  BY <1>3, <1>4, <1>5 DEF Promise!Next

\* The balances after a step, wallet by wallet.
LEMMA AssetsAfter ==
  ASSUME IndInv, NEW rows, NEW a \in Nat, ledger' = PostEntries(ledger, rows, a)
  PROVE  \A w \in Wallets :
           /\ Assets'[w] = Assets[w] + (IF <<w, "credit">> \in rows THEN a ELSE 0)
                                     - (IF <<w, "debit">> \in rows THEN a ELSE 0)
           /\ Assets[w] \in Int /\ Assets'[w] \in Int
<1> SUFFICES ASSUME NEW w \in Wallets
             PROVE  /\ Assets'[w] = Assets[w] + (IF <<w, "credit">> \in rows THEN a ELSE 0)
                                              - (IF <<w, "debit">> \in rows THEN a ELSE 0)
                    /\ Assets[w] \in Int /\ Assets'[w] \in Int
  OBVIOUS
<1>1. ledger \in Books
  BY DEF IndInv, TypeOK
<1>2. /\ Assets[w] = Balance(ledger, w)
      /\ Assets'[w] = Balance(PostEntries(ledger, rows, a), w)
  BY DEF Assets, Balance
<1>3. Balance(ledger, w) \in Int
  BY <1>1, FigureTypes
<1>4. Balance(PostEntries(ledger, rows, a), w) =
        Balance(ledger, w) + (IF <<w, "credit">> \in rows THEN a ELSE 0)
                           - (IF <<w, "debit">> \in rows THEN a ELSE 0)
  BY <1>1, PostEntriesBalance
<1> QED
  BY <1>2, <1>3, <1>4

\* Rows that only hold or reverse leave the money where it is.
LEMMA MoneyRests ==
  ASSUME IndInv, MoneyAddsUp,
         NEW rows, NEW a \in Nat, ledger' = PostEntries(ledger, rows, a),
         \A w \in Wallets : <<w, "credit">> \notin rows /\ <<w, "debit">> \notin rows,
         \A kind \in Kinds : Settled(kind)' = Settled(kind),
         \A k \in Keys : Phase[k] = "settled" => Amount'[k] = Amount[k]
  PROVE  MoneyAddsUp'
<1>1. \A w \in Wallets : Assets'[w] = Assets[w]
  <2> SUFFICES ASSUME NEW w \in Wallets PROVE Assets'[w] = Assets[w]
    OBVIOUS
  <2>1. /\ Assets'[w] = Assets[w] + (IF <<w, "credit">> \in rows THEN a ELSE 0)
                                  - (IF <<w, "debit">> \in rows THEN a ELSE 0)
        /\ Assets[w] \in Int
    BY AssetsAfter
  <2> QED
    BY <2>1
<1>2. Sum(Assets', Wallets) = Sum(Assets, Wallets)
  BY <1>1, SumSame
<1>3. ASSUME NEW kind \in Kinds PROVE Sum(Amount', Settled(kind)') = Sum(Amount, Settled(kind))
  <2>1. \A k \in Settled(kind) : Amount'[k] = Amount[k]
    BY DEF Settled
  <2>2. Sum(Amount', Settled(kind)) = Sum(Amount, Settled(kind))
    BY <2>1, SumSame
  <2> QED
    BY <2>2
<1> QED
  BY <1>2, <1>3 DEF MoneyAddsUp, Kinds

\* What the rows of a top-up, a withdrawal and a transfer do to a sum of balances.
Adds(f, g, rows, a) ==
  \A u \in Wallets :
    /\ g[u] = f[u] + (IF <<u, "credit">> \in rows THEN a ELSE 0)
                   - (IF <<u, "debit">> \in rows THEN a ELSE 0)
    /\ f[u] \in Int /\ g[u] \in Int

LEMMA RowsAdded ==
  ASSUME NEW f, NEW g, NEW rows, NEW a \in Nat, NEW w \in Wallets, NEW v \in Wallets,
         Adds(f, g, rows, a)
  PROVE  /\ rows = {<<w, "credit">>} => Sum(g, Wallets) = Sum(f, Wallets) + a
         /\ rows = {<<w, "debit">>, <<w, "reversal">>} =>
              Sum(g, Wallets) = Sum(f, Wallets) - a
         /\ rows = {<<w, "debit">>, <<v, "credit">>} /\ w # v =>
              Sum(g, Wallets) = Sum(f, Wallets)
<1> USE DEF Adds
<1>1. IsFiniteSet(Wallets)
  BY UuidAssumption
<1>2. Sum(f, Wallets) \in Int
  BY <1>1, SumType
<1>3. CASE rows = {<<w, "credit">>}
  <2>1. ASSUME NEW u \in Wallets
        PROVE  /\ <<u, "debit">> \notin rows
               /\ <<u, "credit">> \in rows <=> u = w
    BY <1>3
  <2>2. g[w] = f[w] + a
    <3>1. <<w, "debit">> \notin rows /\ <<w, "credit">> \in rows
      BY <2>1
    <3> QED
      BY <3>1
  <2>3. ASSUME NEW u \in Wallets, u # w PROVE g[u] = f[u]
    <3>1. <<u, "debit">> \notin rows /\ <<u, "credit">> \notin rows
      BY <2>1, <2>3
    <3> QED
      BY <3>1
  <2>4. a \in Int
    OBVIOUS
  <2>5. Sum(g, Wallets) = Sum(f, Wallets) + a
    BY <1>1, <2>2, <2>3, <2>4, SumChange
  <2> QED
    BY <1>3, <2>5
<1>4. CASE rows = {<<w, "debit">>, <<w, "reversal">>}
  <2>1. ASSUME NEW u \in Wallets
        PROVE  /\ <<u, "credit">> \notin rows
               /\ <<u, "debit">> \in rows <=> u = w
    BY <1>4
  <2>2. g[w] = f[w] + (-a) /\ -a \in Int
    <3>1. <<w, "debit">> \in rows /\ <<w, "credit">> \notin rows
      BY <2>1
    <3> QED
      BY <3>1
  <2>3. ASSUME NEW u \in Wallets, u # w PROVE g[u] = f[u]
    <3>1. <<u, "debit">> \notin rows /\ <<u, "credit">> \notin rows
      BY <2>1, <2>3
    <3> QED
      BY <3>1
  <2>4. Sum(g, Wallets) = Sum(f, Wallets) + (-a)
    BY <1>1, <2>2, <2>3, SumChange
  <2>5. Sum(g, Wallets) = Sum(f, Wallets) - a
    BY <1>2, <2>4
  <2> QED
    BY <1>4, <2>5
<1>5. CASE rows = {<<w, "debit">>, <<v, "credit">>} /\ w # v
  <2>1. ASSUME NEW u \in Wallets
        PROVE  /\ <<u, "credit">> \in rows <=> u = v
               /\ <<u, "debit">> \in rows <=> u = w
    BY <1>5
  <2>2. g[w] = f[w] - a /\ g[v] = f[v] + a
    <3>1. /\ <<w, "credit">> \notin rows /\ <<w, "debit">> \in rows
          /\ <<v, "credit">> \in rows /\ <<v, "debit">> \notin rows
      BY <1>5, <2>1
    <3> QED
      BY <3>1
  <2>3. ASSUME NEW u \in Wallets, u # w, u # v PROVE g[u] = f[u]
    <3>1. <<u, "debit">> \notin rows /\ <<u, "credit">> \notin rows
      BY <2>1, <2>3
    <3> QED
      BY <3>1
  <2>4. Sum(g, Wallets) = Sum(f, Wallets)
    BY <1>1, <1>5, <2>2, <2>3, SumMoved
  <2> QED
    BY <1>5, <2>4
<1> QED
  BY <1>3, <1>4, <1>5

\* Only settling a request moves money.
LEMMA AssetsSettled ==
  ASSUME IndInv, NEW k \in Keys, Promise!Settle(k)
  PROVE  Sum(Assets', Wallets) =
           Sum(Assets, Wallets)
             + (IF call[k].kind = "topup" THEN call[k].amount ELSE 0)
             - (IF call[k].kind = "withdraw" THEN call[k].amount ELSE 0)
<1> DEFINE a == call[k].amount
           w == call[k].wallet
           v == call[k].peer
           kind == call[k].kind
           rows == Promise!SettlementRows(call[k])
<1>1. a \in Nat /\ w \in Wallets /\ v \in Wallets /\ kind \in Kinds
  BY CloseAmounts
<1>2. ledger' = PostEntries(ledger, rows, a)
  BY RowsSettled
<1>3. Adds(Assets, Assets', rows, a)
  <2> HIDE DEF rows, a
  <2> QED
    BY <1>1, <1>2, AssetsAfter DEF Adds
<1>4. /\ kind = "topup" => rows = {<<w, "credit">>}
      /\ kind = "withdraw" => rows = {<<w, "debit">>, <<w, "reversal">>}
      /\ kind = "p2p" => rows = {<<w, "debit">>, <<v, "credit">>}
  BY DEF Promise!SettlementRows
<1>5. kind = "p2p" => w # v
  BY DEF Promise!Settle
<1>6. Sum(Assets, Wallets) \in Int
  BY Summable, UuidAssumption, SumType
<1> HIDE DEF a, w, v, kind, rows, Assets
<1>7. /\ rows = {<<w, "credit">>} => Sum(Assets', Wallets) = Sum(Assets, Wallets) + a
      /\ rows = {<<w, "debit">>, <<w, "reversal">>} =>
           Sum(Assets', Wallets) = Sum(Assets, Wallets) - a
      /\ rows = {<<w, "debit">>, <<v, "credit">>} /\ w # v =>
           Sum(Assets', Wallets) = Sum(Assets, Wallets)
  BY <1>1, <1>3, RowsAdded
<1>8. Sum(Assets', Wallets) =
        Sum(Assets, Wallets) + (IF kind = "topup" THEN a ELSE 0)
                             - (IF kind = "withdraw" THEN a ELSE 0)
  BY <1>1, <1>4, <1>5, <1>6, <1>7 DEF Kinds
<1> QED
  BY <1>8 DEF a, kind

LEMMA MoneyStep ==
  ASSUME IndInv, MoneyAddsUp, [Promise!Next]_(Promise!accountVars)
  PROVE  MoneyAddsUp'
<1>1. ASSUME NEW c \in Calls, Promise!Open(c) PROVE MoneyAddsUp'
  <2> DEFINE rows == IF c.kind = "withdraw" THEN {<<c.wallet, "hold">>} ELSE {}
  <2>1. ledger' = PostEntries(ledger, rows, c.amount) /\ c.amount \in Nat
    BY <1>1, RowsOpened, OpenAmounts
  <2>2. \A w \in Wallets : <<w, "credit">> \notin rows /\ <<w, "debit">> \notin rows
    OBVIOUS
  <2>3. \A kind \in Kinds : Settled(kind)' = Settled(kind)
    BY <1>1, OpenAmounts DEF Settled
  <2>4. \A k \in Keys : Phase[k] = "settled" => Amount'[k] = Amount[k]
    BY <1>1, OpenAmounts
  <2> HIDE DEF rows
  <2> QED
    BY <2>1, <2>2, <2>3, <2>4, MoneyRests
<1>2. ASSUME NEW k \in Keys, Promise!Void(k) PROVE MoneyAddsUp'
  <2> DEFINE rows == IF call[k].kind = "withdraw"
                       THEN {<<call[k].wallet, "reversal">>} ELSE {}
  <2>1. ledger' = PostEntries(ledger, rows, call[k].amount) /\ call[k].amount \in Nat
    BY <1>2, RowsVoided, CloseAmounts
  <2>2. \A w \in Wallets : <<w, "credit">> \notin rows /\ <<w, "debit">> \notin rows
    OBVIOUS
  <2>3. \A kind \in Kinds : Settled(kind)' = Settled(kind)
    BY <1>2, CloseAmounts DEF Settled
  <2>4. Amount' = Amount
    BY <1>2, CloseAmounts
  <2> HIDE DEF rows
  <2> QED
    BY <2>1, <2>2, <2>3, <2>4, MoneyRests
<1>3. ASSUME NEW k \in Keys, Promise!Settle(k) PROVE MoneyAddsUp'
  <2> DEFINE c == call[k]
  <2>1. c.amount \in Nat /\ Amount' = Amount /\ Amount[k] = c.amount /\ c.kind \in Kinds
    BY <1>3, CloseAmounts
  <2>2. ASSUME NEW kind \in Kinds
        PROVE  /\ Sum(Amount', Settled(kind)') =
                    Sum(Amount, Settled(kind)) + (IF c.kind = kind THEN c.amount ELSE 0)
               /\ Sum(Amount, Settled(kind)) \in Int
    <3>1. k \notin Settled(kind)
      BY <1>3, CloseAmounts DEF Settled
    <3>2. Settled(kind)' = IF c.kind = kind THEN Settled(kind) \cup {k} ELSE Settled(kind)
      BY <1>3, CloseAmounts DEF Settled
    <3>3. /\ IsFiniteSet(Settled(kind))
          /\ \A i \in Settled(kind) : Amount[i] \in Int
      BY Summable DEF Settled
    <3>4. Sum(Amount, Settled(kind)) \in Int
      BY <3>3, SumType
    <3>5. \A i \in Settled(kind) \cup {k} : Amount[i] \in Int
      BY <2>1, <3>3
    <3>6. Sum(Amount, Settled(kind) \cup {k}) = Sum(Amount, Settled(kind)) + Amount[k]
      BY <3>1, <3>3, <3>5, SumInsert
    <3> QED
      BY <2>1, <3>2, <3>4, <3>6
  <2>3. Sum(Assets', Wallets) =
          Sum(Assets, Wallets) + (IF c.kind = "topup" THEN c.amount ELSE 0)
                               - (IF c.kind = "withdraw" THEN c.amount ELSE 0)
    BY <1>3, AssetsSettled
  <2>4. Sum(Assets, Wallets) \in Int /\ Sum(Opening, Wallets) \in Int
    BY Summable, UuidAssumption, SumType
  <2> QED
    BY <2>1, <2>2, <2>3, <2>4 DEF MoneyAddsUp, Kinds
<1>4. CASE UNCHANGED Promise!accountVars
  BY <1>4 DEF Promise!accountVars, MoneyAddsUp, Assets, Balance, Amount, Settled
<1> QED
  BY <1>1, <1>2, <1>3, <1>4 DEF Promise!Next

\* The two sums as the specification writes them.
LEMMA TotalIsSum ==
  ASSUME NEW S \in SUBSET Keys
  PROVE  MapThenSumSet(LAMBDA k : call[k].amount, S) = Sum(Amount, S)
  BY DEF MapThenSumSet, MapThenFoldSet, Sum, Sums, Recursion, Any, Amount

LEMMA AssetsIsSum ==
  /\ MapThenSumSet(LAMBDA w : Balance(ledger, w), Wallets) = Sum(Assets, Wallets)
  /\ MapThenSumSet(LAMBDA w : Opening[w], Wallets) = Sum(Opening, Wallets)
  BY DEF MapThenSumSet, MapThenFoldSet, Sum, Sums, Recursion, Any, Assets

LEMMA PhasesInWords ==
  ASSUME IndInv
  PROVE  /\ \A w \in Wallets : Reserving(w) = PendingWithdrawals(w)
         /\ \A kind \in Kinds : Settled(kind) = Confirmed(kind)
<1>1. ASSUME NEW k \in Keys
      PROVE  /\ Phase[k] = "open" <=> status[k] \in OpenStatuses
             /\ Phase[k] = "settled" <=> status[k] = "confirmed"
  <2>1. status[k] \in Statuses
    BY DEF IndInv, TypeOK
  <2> QED
    BY <2>1, PhaseNow, PhaseValues DEF Statuses, OpenStatuses, FinalStatuses
<1> QED
  BY <1>1 DEF Reserving, PendingWithdrawals, Settled, Confirmed

LEMMA HeldInWords ==
  ASSUME IndInv, HeldAddsUp
  PROVE  HeldIsPending
<1> SUFFICES ASSUME NEW w \in Wallets
             PROVE  Held(ledger, w) = MapThenSumSet(LAMBDA k : call[k].amount, PendingWithdrawals(w))
  BY DEF HeldIsPending
<1>1. Held(ledger, w) = Sum(Amount, PendingWithdrawals(w))
  BY PhasesInWords DEF HeldAddsUp
<1>2. PendingWithdrawals(w) \in SUBSET Keys
  BY DEF PendingWithdrawals
<1> HIDE DEF PendingWithdrawals
<1>3. MapThenSumSet(LAMBDA k : call[k].amount, PendingWithdrawals(w)) = Sum(Amount, PendingWithdrawals(w))
  BY <1>2, TotalIsSum
<1> QED
  BY <1>1, <1>3

LEMMA MoneyInWords ==
  ASSUME IndInv, MoneyAddsUp
  PROVE  MoneyConserved
<1>1. Confirmed("topup") \in SUBSET Keys /\ Confirmed("withdraw") \in SUBSET Keys
  BY DEF Confirmed
<1>2. /\ Total(Confirmed("topup")) = Sum(Amount, Settled("topup"))
      /\ Total(Confirmed("withdraw")) = Sum(Amount, Settled("withdraw"))
  BY <1>1, TotalIsSum, PhasesInWords DEF Total, Kinds
<1> QED
  BY <1>2, AssetsIsSum DEF MoneyConserved, MoneyAddsUp

LEMMA InitAddsUp ==
  ASSUME Init
  PROVE  HeldAddsUp /\ MoneyAddsUp
<1>1. \A w \in Wallets : Held(ledger, w) = 0 /\ Balance(ledger, w) = Opening[w]
  <2> SUFFICES ASSUME NEW w \in Wallets
               PROVE  Held(ledger, w) = 0 /\ Balance(ledger, w) = Opening[w]
    OBVIOUS
  <2>1. /\ ledger[w]["credit"] = Opening[w] /\ ledger[w]["debit"] = 0
        /\ ledger[w]["hold"] = 0 /\ ledger[w]["reversal"] = 0
    BY DEF Init, OpeningBook, EntryTypes
  <2>2. Opening[w] \in Nat
    BY OpeningAssumption
  <2> QED
    BY <2>1, <2>2 DEF Held, Balance
<1>2. \A k \in Keys : Phase[k] = "new"
  BY PhaseNow, PhaseValues DEF Init
<1>3. (\A w \in Wallets : Reserving(w) = {}) /\ \A kind \in Kinds : Settled(kind) = {}
  BY <1>2 DEF Reserving, Settled
<1>4. Sum(Assets, Wallets) = Sum(Opening, Wallets)
  BY <1>1, SumSame DEF Assets
<1>5. Sum(Opening, Wallets) \in Int
  BY OpeningAssumption, UuidAssumption, SumType
<1>6. Sum(Amount, {}) = 0
  BY SumEmpty
<1>7. HeldAddsUp
  BY <1>1, <1>3, <1>6 DEF HeldAddsUp
<1>8. Sum(Amount, Settled("topup")) = 0 /\ Sum(Amount, Settled("withdraw")) = 0
  BY <1>3, <1>6 DEF Kinds
<1> QED
  BY <1>4, <1>5, <1>7, <1>8 DEF MoneyAddsUp

\* What a wallet's holds not yet released add up to is what its open
\* withdrawals ask for: no hold is lost, forgotten or released twice, however
\* confirmations, cancellations, expiries and crashes interleave.
THEOREM HoldsAreWithdrawals == Spec => []HeldIsPending
<1>1. Init => HeldAddsUp
  BY InitAddsUp
<1>2. IndInv /\ HeldAddsUp /\ [Next]_vars => HeldAddsUp'
  BY StepRefines, HeldStep
<1>3. IndInv /\ HeldAddsUp => HeldIsPending
  BY HeldInWords
<1> QED
  BY <1>1, <1>2, <1>3, Invariance, PTL DEF Spec

\* The balances of all wallets together are the opening balances, the confirmed
\* top-ups and the confirmed withdrawals: settling a transfer debits one wallet
\* by what it credits to another, and nothing else creates or destroys money.
THEOREM MoneyIsConserved == Spec => []MoneyConserved
<1>1. Init => MoneyAddsUp
  BY InitAddsUp
<1>2. IndInv /\ MoneyAddsUp /\ [Next]_vars => MoneyAddsUp'
  BY StepRefines, MoneyStep
<1>3. IndInv /\ MoneyAddsUp => MoneyConserved
  BY MoneyInWords
<1> QED
  BY <1>1, <1>2, <1>3, Invariance, PTL DEF Spec

(***************************************************************************)
(* What the two come to together.                                          *)
(***************************************************************************)
PayoutsCovered ==
  Total(Confirmed("withdraw")) <=
    MapThenSumSet(LAMBDA w : Opening[w], Wallets) + Total(Confirmed("topup"))

LEMMA AssetsAreNoDebts ==
  ASSUME IndInv, HeldAddsUp
  PROVE  \A w \in Wallets : Assets[w] \in Nat
<1> SUFFICES ASSUME NEW w \in Wallets PROVE Assets[w] \in Nat
  OBVIOUS
<1>1. \A k \in Reserving(w) : Amount[k] \in Nat
  BY Summable, PhaseValues, CallTypes DEF Reserving
<1>2. Reserving(w) \in SUBSET Keys
  BY DEF Reserving
<1>3. IsFiniteSet(Reserving(w))
  BY <1>2, Summable
<1>4. Held(ledger, w) \in Nat
  BY <1>1, <1>3, SumNatural DEF HeldAddsUp
<1>5. Held(ledger, w) <= Balance(ledger, w)
  BY DEF IndInv, NoOverdraft
<1>6. Balance(ledger, w) \in Int
  BY FigureTypes DEF IndInv, TypeOK
<1> QED
  BY <1>4, <1>5, <1>6 DEF Assets

LEMMA PayoutsFollow ==
  ASSUME IndInv, HeldAddsUp, MoneyAddsUp
  PROVE  PayoutsCovered
<1>1. Sum(Assets, Wallets) \in Nat
  BY AssetsAreNoDebts, UuidAssumption, SumNatural
<1>2. Sum(Opening, Wallets) \in Int
  BY Summable, UuidAssumption, SumType
<1>3. \A kind \in Kinds : Sum(Amount, Settled(kind)) \in Int
  <2> SUFFICES ASSUME NEW kind \in Kinds PROVE Sum(Amount, Settled(kind)) \in Int
    OBVIOUS
  <2>1. Settled(kind) \in SUBSET Keys
    BY DEF Settled
  <2>2. \A k \in Settled(kind) : Amount[k] \in Int
    BY Summable, PhaseValues DEF Settled
  <2> QED
    BY <2>1, <2>2, Summable, SumType
<1>4. /\ Total(Confirmed("topup")) = Sum(Amount, Settled("topup"))
      /\ Total(Confirmed("withdraw")) = Sum(Amount, Settled("withdraw"))
  <2>1. Confirmed("topup") \in SUBSET Keys /\ Confirmed("withdraw") \in SUBSET Keys
    BY DEF Confirmed
  <2> QED
    BY <2>1, TotalIsSum, PhasesInWords DEF Total, Kinds
<1>5. Sum(Amount, Settled("topup")) \in Int /\ Sum(Amount, Settled("withdraw")) \in Int
  BY <1>3 DEF Kinds
<1>6. Sum(Assets, Wallets) =
        Sum(Opening, Wallets) + Sum(Amount, Settled("topup"))
                              - Sum(Amount, Settled("withdraw"))
  BY DEF MoneyAddsUp
<1>7. Sum(Amount, Settled("withdraw")) <= Sum(Opening, Wallets) + Sum(Amount, Settled("topup"))
  BY <1>1, <1>2, <1>5, <1>6
<1> QED
  BY <1>4, <1>7, AssetsIsSum DEF PayoutsCovered

\* What has left the system by confirmed withdrawals was there at the opening or
\* came in by confirmed top-ups: money that a racing confirmation or a transfer
\* cut short might have made up never gets paid out.
THEOREM NoMoneyFromNowhere == Spec => []PayoutsCovered
<1>1. Init => HeldAddsUp /\ MoneyAddsUp
  BY InitAddsUp
<1>2. IndInv /\ HeldAddsUp /\ MoneyAddsUp /\ [Next]_vars => HeldAddsUp' /\ MoneyAddsUp'
  BY StepRefines, HeldStep, MoneyStep
<1>3. IndInv /\ HeldAddsUp /\ MoneyAddsUp => PayoutsCovered
  BY PayoutsFollow
<1> QED
  BY <1>1, <1>2, <1>3, Invariance, PTL DEF Spec

(***************************************************************************)
(* What each wallet's balance is made of.                                  *)
(***************************************************************************)
\* A confirmed request credits or debits a wallet.
Credits(c, w) ==
  \/ c.kind = "topup" /\ c.wallet = w
  \/ c.kind = "p2p" /\ c.peer = w
Debits(c, w) == c.kind # "topup" /\ c.wallet = w

CreditedTo(w) == {k \in Keys : status[k] = "confirmed" /\ Credits(call[k], w)}
DebitedFrom(w) == {k \in Keys : status[k] = "confirmed" /\ Debits(call[k], w)}

BalanceExplained ==
  \A w \in Wallets :
    Balance(ledger, w) = Opening[w] + Total(CreditedTo(w)) - Total(DebitedFrom(w))

Came(w) == {k \in Keys : Phase[k] = "settled" /\ Credits(call[k], w)}
Went(w) == {k \in Keys : Phase[k] = "settled" /\ Debits(call[k], w)}

StatementAddsUp ==
  \A w \in Wallets :
    Assets[w] = Opening[w] + Sum(Amount, Came(w)) - Sum(Amount, Went(w))

LEMMA Summands ==
  ASSUME IndInv, NEW w
  PROVE  /\ IsFiniteSet(Came(w)) /\ IsFiniteSet(Went(w))
         /\ \A k \in Came(w) \cup Went(w) : Phase[k] = "settled" /\ Amount[k] \in Int
         /\ Sum(Amount, Came(w)) \in Int /\ Sum(Amount, Went(w)) \in Int
<1>1. Came(w) \in SUBSET Keys /\ Went(w) \in SUBSET Keys
  BY DEF Came, Went
<1>2. IsFiniteSet(Came(w)) /\ IsFiniteSet(Went(w))
  BY <1>1, Summable
<1>3. \A k \in Came(w) \cup Went(w) : Phase[k] = "settled" /\ Amount[k] \in Int
  BY Summable DEF Came, Went
<1>4. Sum(Amount, Came(w)) \in Int /\ Sum(Amount, Went(w)) \in Int
  BY <1>2, <1>3, SumType
<1> QED
  BY <1>2, <1>3, <1>4

\* A step that settles nothing leaves every statement as it is.
LEMMA StatementRests ==
  ASSUME IndInv, StatementAddsUp,
         NEW rows, NEW a \in Nat, ledger' = PostEntries(ledger, rows, a),
         \A w \in Wallets : <<w, "credit">> \notin rows /\ <<w, "debit">> \notin rows,
         \A w \in Wallets : Came(w)' = Came(w) /\ Went(w)' = Went(w),
         \A k \in Keys : Phase[k] = "settled" => Amount'[k] = Amount[k]
  PROVE  StatementAddsUp'
<1> SUFFICES ASSUME NEW w \in Wallets
             PROVE  Assets'[w] = Opening[w] + Sum(Amount', Came(w)') - Sum(Amount', Went(w)')
  BY DEF StatementAddsUp
<1>1. /\ Assets'[w] = Assets[w] + (IF <<w, "credit">> \in rows THEN a ELSE 0)
                                - (IF <<w, "debit">> \in rows THEN a ELSE 0)
      /\ Assets[w] \in Int
  BY AssetsAfter
<1>2. Assets'[w] = Assets[w]
  BY <1>1
<1>3. \A k \in Came(w) \cup Went(w) : Amount'[k] = Amount[k]
  BY DEF Came, Went
<1>4. /\ Sum(Amount', Came(w)) = Sum(Amount, Came(w))
      /\ Sum(Amount', Went(w)) = Sum(Amount, Went(w))
  BY <1>3, SumSame
<1> QED
  BY <1>2, <1>4 DEF StatementAddsUp

\* Settling a request adds its amount to the sums of the wallets it moves money
\* between, and its rows to their balances.
LEMMA StatementGrows ==
  ASSUME IndInv, StatementAddsUp, NEW k \in Keys, Promise!Settle(k)
  PROVE  StatementAddsUp'
<1> SUFFICES ASSUME NEW w \in Wallets
             PROVE  Assets'[w] = Opening[w] + Sum(Amount', Came(w)') - Sum(Amount', Went(w)')
  BY DEF StatementAddsUp
<1> DEFINE c == call[k]
           rows == Promise!SettlementRows(c)
<1>1. /\ c.amount \in Nat /\ c.kind \in Kinds /\ Amount' = Amount /\ Amount[k] = c.amount
      /\ Phase[k] = "open" /\ Phase'[k] = "settled" /\ call' = call
      /\ \A i \in Keys : i # k => Phase'[i] = Phase[i]
  BY CloseAmounts
<1>2. /\ Came(w)' = IF Credits(c, w) THEN Came(w) \cup {k} ELSE Came(w)
      /\ Went(w)' = IF Debits(c, w) THEN Went(w) \cup {k} ELSE Went(w)
  BY <1>1 DEF Came, Went
<1>3. k \notin Came(w) /\ k \notin Went(w)
  BY <1>1 DEF Came, Went
<1>4. /\ <<w, "credit">> \in rows <=> Credits(c, w)
      /\ <<w, "debit">> \in rows <=> Debits(c, w)
  BY <1>1 DEF Promise!SettlementRows, Credits, Debits, Kinds
<1>5. /\ Assets'[w] = Assets[w] + (IF <<w, "credit">> \in rows THEN c.amount ELSE 0)
                                - (IF <<w, "debit">> \in rows THEN c.amount ELSE 0)
      /\ Assets[w] \in Int /\ Opening[w] \in Int
  <2>1. ledger' = PostEntries(ledger, rows, c.amount)
    BY RowsSettled
  <2> HIDE DEF rows, c
  <2> QED
    BY <1>1, <2>1, AssetsAfter, Summable
<1>6. /\ Sum(Amount, Came(w) \cup {k}) = Sum(Amount, Came(w)) + c.amount
      /\ Sum(Amount, Went(w) \cup {k}) = Sum(Amount, Went(w)) + c.amount
  <2>1. /\ \A i \in Came(w) \cup {k} : Amount[i] \in Int
        /\ \A i \in Went(w) \cup {k} : Amount[i] \in Int
    BY <1>1, Summands
  <2>2. /\ Sum(Amount, Came(w) \cup {k}) = Sum(Amount, Came(w)) + Amount[k]
        /\ Sum(Amount, Went(w) \cup {k}) = Sum(Amount, Went(w)) + Amount[k]
    BY <1>3, <2>1, Summands, SumInsert
  <2> QED
    BY <1>1, <2>2
<1>7. Assets[w] = Opening[w] + Sum(Amount, Came(w)) - Sum(Amount, Went(w))
  BY DEF StatementAddsUp
<1>8. Sum(Amount, Came(w)) \in Int /\ Sum(Amount, Went(w)) \in Int
  BY Summands
<1>9. /\ Sum(Amount', Came(w)') =
           Sum(Amount, Came(w)) + (IF Credits(c, w) THEN c.amount ELSE 0)
      /\ Sum(Amount', Went(w)') =
           Sum(Amount, Went(w)) + (IF Debits(c, w) THEN c.amount ELSE 0)
  BY <1>1, <1>2, <1>6, <1>8
<1> HIDE DEF rows, c
<1> QED
  BY <1>1, <1>4, <1>5, <1>7, <1>8, <1>9

LEMMA StatementStep ==
  ASSUME IndInv, StatementAddsUp, [Promise!Next]_(Promise!accountVars)
  PROVE  StatementAddsUp'
<1>1. ASSUME NEW c \in Calls, Promise!Open(c) PROVE StatementAddsUp'
  <2> DEFINE rows == IF c.kind = "withdraw" THEN {<<c.wallet, "hold">>} ELSE {}
  <2>1. ledger' = PostEntries(ledger, rows, c.amount) /\ c.amount \in Nat
    BY <1>1, RowsOpened, OpenAmounts
  <2>2. \A w \in Wallets : <<w, "credit">> \notin rows /\ <<w, "debit">> \notin rows
    OBVIOUS
  <2>3. \A w \in Wallets : Came(w)' = Came(w) /\ Went(w)' = Went(w)
    BY <1>1, OpenAmounts DEF Came, Went
  <2>4. \A k \in Keys : Phase[k] = "settled" => Amount'[k] = Amount[k]
    BY <1>1, OpenAmounts
  <2> HIDE DEF rows
  <2> QED
    BY <2>1, <2>2, <2>3, <2>4, StatementRests
<1>2. ASSUME NEW k \in Keys, Promise!Void(k) PROVE StatementAddsUp'
  <2> DEFINE rows == IF call[k].kind = "withdraw"
                       THEN {<<call[k].wallet, "reversal">>} ELSE {}
  <2>1. ledger' = PostEntries(ledger, rows, call[k].amount) /\ call[k].amount \in Nat
    BY <1>2, RowsVoided, CloseAmounts
  <2>2. \A w \in Wallets : <<w, "credit">> \notin rows /\ <<w, "debit">> \notin rows
    OBVIOUS
  <2>3. \A w \in Wallets : Came(w)' = Came(w) /\ Went(w)' = Went(w)
    BY <1>2, CloseAmounts DEF Came, Went
  <2>4. Amount' = Amount
    BY <1>2, CloseAmounts
  <2> HIDE DEF rows
  <2> QED
    BY <2>1, <2>2, <2>3, <2>4, StatementRests
<1>3. ASSUME NEW k \in Keys, Promise!Settle(k) PROVE StatementAddsUp'
  BY <1>3, StatementGrows
<1>4. CASE UNCHANGED Promise!accountVars
  BY <1>4 DEF Promise!accountVars, StatementAddsUp, Assets, Balance, Amount, Came, Went
<1> QED
  BY <1>1, <1>2, <1>3, <1>4 DEF Promise!Next

LEMMA InitStatement ==
  ASSUME Init
  PROVE  StatementAddsUp
<1> SUFFICES ASSUME NEW w \in Wallets
             PROVE  Assets[w] = Opening[w] + Sum(Amount, Came(w)) - Sum(Amount, Went(w))
  BY DEF StatementAddsUp
<1>1. ledger[w]["credit"] = Opening[w] /\ ledger[w]["debit"] = 0 /\ Opening[w] \in Nat
  BY OpeningAssumption DEF Init, OpeningBook, EntryTypes
<1>2. Assets[w] = Opening[w]
  BY <1>1 DEF Assets, Balance
<1>3. \A k \in Keys : Phase[k] = "new"
  BY PhaseNow, PhaseValues DEF Init
<1>4. Came(w) = {} /\ Went(w) = {}
  BY <1>3 DEF Came, Went
<1>5. Sum(Amount, {}) = 0
  BY SumEmpty
<1> QED
  BY <1>1, <1>2, <1>4, <1>5

LEMMA StatementInWords ==
  ASSUME IndInv, StatementAddsUp
  PROVE  BalanceExplained
<1> SUFFICES ASSUME NEW w \in Wallets
             PROVE  Balance(ledger, w) =
                      Opening[w] + Total(CreditedTo(w)) - Total(DebitedFrom(w))
  BY DEF BalanceExplained
<1>1. ASSUME NEW k \in Keys PROVE Phase[k] = "settled" <=> status[k] = "confirmed"
  <2>1. status[k] \in Statuses
    BY DEF IndInv, TypeOK
  <2> QED
    BY <2>1, PhaseNow, PhaseValues DEF Statuses, OpenStatuses, FinalStatuses
<1>2. CreditedTo(w) = Came(w) /\ DebitedFrom(w) = Went(w)
  BY <1>1 DEF CreditedTo, DebitedFrom, Came, Went
<1>3. Came(w) \in SUBSET Keys /\ Went(w) \in SUBSET Keys
  BY DEF Came, Went
<1> HIDE DEF Came, Went
<1>4. Total(Came(w)) = Sum(Amount, Came(w)) /\ Total(Went(w)) = Sum(Amount, Went(w))
  BY <1>3, TotalIsSum DEF Total
<1>5. Assets[w] = Opening[w] + Sum(Amount, Came(w)) - Sum(Amount, Went(w))
  BY DEF StatementAddsUp
<1> QED
  BY <1>2, <1>4, <1>5 DEF Assets

\* A wallet's balance is accounted for by its requests one by one: it is what
\* the wallet opened with, the confirmed top-ups of it and transfers to it, less
\* its confirmed withdrawals and the transfers from it, each counted once.
THEOREM BalancesExplained == Spec => []BalanceExplained
<1>1. Init => StatementAddsUp
  BY InitStatement
<1>2. IndInv /\ StatementAddsUp /\ [Next]_vars => StatementAddsUp'
  BY StepRefines, StatementStep
<1>3. IndInv /\ StatementAddsUp => BalanceExplained
  BY StatementInWords
<1> QED
  BY <1>1, <1>2, <1>3, Invariance, PTL DEF Spec
=============================================================================
