--------------------------- MODULE RowLocksProofs ---------------------------
(***************************************************************************)
(* Proofs about RowLocks, for any number of workers and any calls.         *)
(*                                                                         *)
(* No two transactions hold locks that conflict.  Hence the only knots are *)
(* those of inserts and confirmations of transfers: whoever else waits,    *)
(* waits in the end for one of these, and confirmations alone take their   *)
(* wallets in ascending order.                                             *)
(***************************************************************************)
EXTENDS RowLocks, SequenceTheorems, LedgerProofs, TLAPS

\* The variables are functions; TypeOK says of what.
Tables ==
  /\ handler \in [Procs -> Handlers \cup {"idle"}]
  /\ job \in [Procs -> Calls \cup {NoCall}]
  /\ taken \in [Procs -> Nat]

LocksExclude ==
  \A p, q \in Procs : p # q =>
    \A a \in Holds(p), b \in Holds(q) : ~Conflict(a, b)

LocksInv == TypeOK /\ Tables /\ LocksExclude

-----------------------------------------------------------------------------
(***************************************************************************)
(* The locks of each handler, one by one.                                  *)
(***************************************************************************)
LEMMA CallFacts ==
  ASSUME NEW c \in Calls
  PROVE  /\ c.wallet \in Wallets /\ c.peer \in Wallets /\ c # NoCall
         /\ c.wallet \in Nat /\ c.peer \in Nat
         /\ HandlersFor(c) \subseteq Handlers /\ "idle" \notin HandlersFor(c)
  BY CallsAssumption, WalletsAssumption
     DEF HandlersFor, Handlers, WebHandlers, CeleryHandlers

Lower(c) == IF c.wallet < c.peer THEN c.wallet ELSE c.peer
Upper(c) == IF c.wallet < c.peer THEN c.peer ELSE c.wallet

LEMMA LocksOfPayments ==
  ASSUME NEW c \in Calls, c.kind # "p2p"
  PROVE  /\ HandlersFor(c) = {"initiate_payment", "confirm_payment", "cancel_payment",
                              "expire_request"}
         /\ Locks("initiate_payment", c) =
              <<Update("wallet", c.wallet), Update("key", c.key)>>
         /\ \A h \in {"confirm_payment", "cancel_payment"} :
              Locks(h, c) = <<Update("request", c.key), Update("wallet", c.wallet)>>
         /\ Locks("expire_request", c) =
              <<Update("request", c.key), KeyShare("wallet", c.wallet)>>
  BY DEF HandlersFor, Locks, PaymentLocks

LEMMA LocksOfTransfers ==
  ASSUME NEW c \in Calls, c.kind = "p2p"
  PROVE  /\ HandlersFor(c) = {"initiate_transfer", "confirm_transfer",
                              "expire_transfer_request"}
         /\ Locks("initiate_transfer", c) =
              <<Update("key", c.key),
                KeyShare("wallet", c.peer), KeyShare("wallet", c.wallet)>>
         /\ Locks("confirm_transfer", c) =
              <<Update("request", c.key),
                Update("wallet", Lower(c)), Update("wallet", Upper(c))>>
         /\ Locks("expire_transfer_request", c) = <<Update("request", c.key)>>
<1>1. WalletsInOrder(c) = <<Update("wallet", Lower(c)), Update("wallet", Upper(c))>>
  BY DEF WalletsInOrder, Lower, Upper
<1>2. ASSUME NEW a, NEW b, NEW d PROVE <<a>> \o <<b, d>> = <<a, b, d>>
  <2> DEFINE S == {a, b, d}
             s == <<a>> \o <<b, d>>
             t == <<a, b, d>>
  <2>1. <<a>> \in Seq(S) /\ <<b, d>> \in Seq(S) /\ t \in Seq(S) /\ Len(t) = 3
    OBVIOUS
  <2>2. s \in Seq(S) /\ Len(s) = 3
    BY <2>1, ConcatProperties
  <2>3. \A i \in 1..3 : s[i] = IF i <= 1 THEN <<a>>[i] ELSE <<b, d>>[i - 1]
    BY <2>1, ConcatProperties
  <2>4. s[1] = a /\ s[2] = b /\ s[3] = d
    BY <2>3
  <2>5. \A i \in 1..3 : s[i] = t[i]
    BY <2>4
  <2> HIDE DEF s, t, S
  <2> QED
    BY <2>1, <2>2, <2>5, SeqEqual DEF s, t
<1>3. TransferLocks("confirm_transfer", c) =
        <<Update("request", c.key), Update("wallet", Lower(c)), Update("wallet", Upper(c))>>
  BY <1>1, <1>2 DEF TransferLocks
<1> QED
  BY <1>3 DEF HandlersFor, Locks, TransferLocks

\* They are finitely many.
LEMMA LocksLength ==
  ASSUME NEW c \in Calls, NEW h \in HandlersFor(c)
  PROVE  Len(Locks(h, c)) \in Nat
<1>1. CASE c.kind = "p2p"
  BY <1>1, LocksOfTransfers
<1>2. CASE c.kind # "p2p"
  BY <1>2, LocksOfPayments
<1> QED
  BY <1>1, <1>2

-----------------------------------------------------------------------------
(***************************************************************************)
(* The invariant.                                                          *)
(***************************************************************************)
LEMMA InitLocksInv == Init => LocksInv
<1> SUFFICES ASSUME Init PROVE LocksInv
  OBVIOUS
<1>1. TypeOK /\ Tables
  BY DEF Init, TypeOK, Tables
<1>2. LocksExclude
  BY DEF Init, LocksExclude, Holds
<1> QED
  BY <1>1, <1>2 DEF LocksInv

\* What is true of the rows and of each worker, ...
Typed(p) ==
  IF handler[p] = "idle"
    THEN job[p] = NoCall /\ taken[p] = 0
    ELSE /\ job[p] \in Calls
         /\ handler[p] \in HandlersFor(job[p])
         /\ taken[p] \in 0..Len(Locks(handler[p], job[p]))

\* ... a step of one of them leaves true of the others.
LEMMA OneMoves ==
  ASSUME LocksInv, NEW p \in Procs, NEW h, NEW j, NEW n,
         handler' = [handler EXCEPT ![p] = h], job' = [job EXCEPT ![p] = j],
         taken' = [taken EXCEPT ![p] = n]
  PROVE  /\ handler'[p] = h /\ job'[p] = j /\ taken'[p] = n
         /\ \A q \in Procs : q # p =>
              handler'[q] = handler[q] /\ job'[q] = job[q] /\ taken'[q] = taken[q]
  BY DEF LocksInv, Tables

LEMMA OneTyped ==
  ASSUME LocksInv, NEW p \in Procs, NEW h \in Handlers \cup {"idle"},
         NEW j \in Calls \cup {NoCall}, NEW n \in Nat,
         handler' = [handler EXCEPT ![p] = h], job' = [job EXCEPT ![p] = j],
         taken' = [taken EXCEPT ![p] = n],
         rows' \subseteq Calls, Typed(p)'
  PROVE  TypeOK' /\ Tables'
<1>1. Tables'
  BY DEF LocksInv, Tables
<1>2. ASSUME NEW q \in Procs PROVE Typed(q)'
  <2>1. CASE q = p
    BY <2>1
  <2>2. CASE q # p
    <3>1. Typed(q)
      BY DEF LocksInv, TypeOK, Typed
    <3> QED
      BY <2>2, <3>1, OneMoves DEF Typed
  <2> QED
    BY <2>1, <2>2
<1> QED
  BY <1>1, <1>2 DEF TypeOK, Typed

\* A transaction that begins or ends holds nothing.
LEMMA BareStep ==
  ASSUME LocksInv, NEW p \in Procs, NEW h \in Handlers \cup {"idle"},
         NEW j \in Calls \cup {NoCall},
         handler' = [handler EXCEPT ![p] = h], job' = [job EXCEPT ![p] = j],
         taken' = [taken EXCEPT ![p] = 0],
         rows' \subseteq Calls, Typed(p)'
  PROVE  LocksInv'
<1>1. TypeOK' /\ Tables'
  BY OneTyped
<1>2. Holds(p)' = {}
  <2>1. taken'[p] = 0 /\ 1..0 = {}
    BY DEF LocksInv, Tables
  <2> QED
    BY <2>1 DEF Holds
<1>3. \A q \in Procs : q # p => Holds(q)' = Holds(q)
  BY OneMoves DEF Holds, Wanted
<1>4. LocksExclude'
  BY <1>2, <1>3 DEF LocksInv, LocksExclude
<1> QED
  BY <1>1, <1>4 DEF LocksInv

LEMMA BeginStep ==
  ASSUME LocksInv, NEW p \in Procs, Begin(p)
  PROVE  LocksInv'
<1>1. PICK c \in Calls : \E h \in HandlersFor(c) :
        handler' = [handler EXCEPT ![p] = h] /\ job' = [job EXCEPT ![p] = c]
  BY DEF Begin
<1>2. PICK h \in HandlersFor(c) :
        handler' = [handler EXCEPT ![p] = h] /\ job' = [job EXCEPT ![p] = c]
  BY <1>1
<1>3. taken[p] = 0 /\ taken' = taken /\ rows' = rows /\ rows \subseteq Calls
  BY DEF Begin, LocksInv, TypeOK
<1>4. taken' = [taken EXCEPT ![p] = 0]
  BY <1>3 DEF LocksInv, Tables
<1>5. h \in Handlers /\ h # "idle" /\ Len(Locks(h, c)) \in Nat
  BY CallFacts, LocksLength
<1>6. Typed(p)'
  <2>1. handler'[p] = h /\ job'[p] = c /\ taken'[p] = 0
    BY <1>2, <1>4 DEF LocksInv, Tables
  <2>2. 0 \in 0..Len(Locks(h, c))
    BY <1>5
  <2> QED
    BY <1>5, <2>1, <2>2 DEF Typed
<1> QED
  BY <1>2, <1>3, <1>4, <1>5, <1>6, BareStep

LEMMA LeaveStep ==
  ASSUME LocksInv, NEW p \in Procs, Leave(p), rows' \subseteq Calls
  PROVE  LocksInv'
<1>1. handler'[p] = "idle" /\ job'[p] = NoCall /\ taken'[p] = 0
  BY DEF Leave, LocksInv, Tables
<1>2. Typed(p)'
  BY <1>1 DEF Typed
<1> QED
  BY <1>2, BareStep DEF Leave

\* A lock is granted when no other transaction holds one it conflicts with.
LEMMA AcquireStep ==
  ASSUME LocksInv, NEW p \in Procs, Acquire(p)
  PROVE  LocksInv'
<1> DEFINE n == taken[p]
           w == Wanted(p)
<1>1. /\ handler[p] # "idle" /\ job[p] \in Calls /\ handler[p] \in HandlersFor(job[p])
      /\ n \in Nat /\ n < Len(w) /\ Len(w) \in Nat
  BY LocksLength DEF Acquire, Asking, LocksInv, TypeOK, Wanted, Tables
<1>2. /\ taken' = [taken EXCEPT ![p] = n + 1]
      /\ UNCHANGED <<rows, handler, job>>
  BY DEF Acquire
<1>3. handler' = [handler EXCEPT ![p] = handler[p]] /\ job' = [job EXCEPT ![p] = job[p]]
  BY <1>2 DEF LocksInv, Tables
<1>4. taken'[p] = n + 1 /\ \A q \in Procs : q # p => taken'[q] = taken[q]
  BY <1>2 DEF LocksInv, Tables
<1>5. Typed(p)'
  BY <1>1, <1>2, <1>4 DEF Typed, Wanted
<1>6. TypeOK' /\ Tables'
  <2>1. rows' \subseteq Calls /\ n + 1 \in Nat /\ handler[p] \in Handlers
    BY <1>1, <1>2, CallFacts DEF LocksInv, TypeOK
  <2> QED
    BY <1>1, <1>2, <1>3, <1>5, <2>1, OneTyped
<1>7. Holds(p)' = Holds(p) \cup {Asked(p)}
  <2>1. Holds(p)' = {w[i] : i \in 1..(n + 1)} /\ Holds(p) = {w[i] : i \in 1..n}
    BY <1>1, <1>2, <1>4 DEF Holds, Wanted
  <2>2. 1..(n + 1) = (1..n) \cup {n + 1}
    BY <1>1
  <2> QED
    BY <2>1, <2>2 DEF Asked
<1>8. \A q \in Procs : q # p => Holds(q)' = Holds(q)
  BY <1>2, <1>4 DEF Holds, Wanted
<1>9. \A q \in Procs : q # p => \A b \in Holds(q) : ~Conflict(Asked(p), b)
  BY DEF Acquire, WaitsFor
<1>10. \A a, b : Conflict(a, b) => Conflict(b, a)
  BY DEF Conflict
<1>11. LocksExclude'
  <2> SUFFICES ASSUME NEW q \in Procs, NEW r \in Procs, q # r,
                      NEW a \in Holds(q)', NEW b \in Holds(r)'
               PROVE  ~Conflict(a, b)
    BY DEF LocksExclude, Conflict
  <2>1. CASE q = p
    BY <1>7, <1>8, <1>9, <2>1 DEF LocksInv, LocksExclude
  <2>2. CASE r = p
    BY <1>7, <1>8, <1>9, <1>10, <2>2 DEF LocksInv, LocksExclude
  <2>3. CASE q # p /\ r # p
    BY <1>8, <2>3 DEF LocksInv, LocksExclude
  <2> QED
    BY <2>1, <2>2, <2>3
<1> QED
  BY <1>6, <1>11 DEF LocksInv

LEMMA LocksStep ==
  ASSUME LocksInv, [Next]_vars
  PROVE  LocksInv'
<1>1. ASSUME NEW p \in Procs, Commit(p) PROVE LocksInv'
  <2>1. rows' \subseteq Calls
    BY <1>1 DEF Commit, LocksInv, TypeOK
  <2> QED
    BY <1>1, <2>1, LeaveStep DEF Commit
<1>2. ASSUME NEW p \in Procs, Abandon(p) \/ BreakDeadlock(p) PROVE LocksInv'
  BY <1>2, LeaveStep DEF Abandon, BreakDeadlock, LocksInv, TypeOK
<1>3. CASE UNCHANGED vars
  BY <1>3 DEF vars, LocksInv, TypeOK, Tables, LocksExclude, Holds, Wanted
<1> QED
  BY <1>1, <1>2, <1>3, BeginStep, AcquireStep DEF Next

-----------------------------------------------------------------------------
(***************************************************************************)
(* Who may be waiting for whom, handler by handler.                        *)
(***************************************************************************)
Initiates(p) == handler[p] = "initiate_payment"
Inserts(p) == handler[p] = "initiate_transfer"
Confirms(p) == handler[p] = "confirm_transfer"

\* What a waiting transaction holds and asks for.
PaymentAt(p, c) ==
  \/ /\ Initiates(p) /\ Holds(p) = {} /\ Asked(p) = Update("wallet", c.wallet)
  \/ /\ Initiates(p)
     /\ Holds(p) = {Update("wallet", c.wallet)} /\ Asked(p) = Update("key", c.key)
  \/ /\ handler[p] \in {"confirm_payment", "cancel_payment", "expire_request"}
     /\ Holds(p) = {} /\ Asked(p) = Update("request", c.key)
  \/ /\ handler[p] \in {"confirm_payment", "cancel_payment", "expire_request"}
     /\ Holds(p) = {Update("request", c.key)}
     /\ Asked(p) \in {Update("wallet", c.wallet), KeyShare("wallet", c.wallet)}

TransferAt(p, c) ==
  \/ Inserts(p) /\ Holds(p) = {} /\ Asked(p) = Update("key", c.key)
  \/ /\ Inserts(p)
     /\ Holds(p) \subseteq {Update("key", c.key), KeyShare("wallet", c.peer)}
     /\ Asked(p) \in {KeyShare("wallet", c.peer), KeyShare("wallet", c.wallet)}
  \/ Confirms(p) /\ Holds(p) = {} /\ Asked(p) = Update("request", c.key)
  \/ /\ Confirms(p) /\ Holds(p) = {Update("request", c.key)}
     /\ Asked(p) = Update("wallet", Lower(c))
  \/ /\ Confirms(p)
     /\ Holds(p) = {Update("request", c.key), Update("wallet", Lower(c))}
     /\ Asked(p) = Update("wallet", Upper(c))
  \/ /\ handler[p] = "expire_transfer_request"
     /\ Holds(p) = {} /\ Asked(p) = Update("request", c.key)

LEMMA PaymentWaits ==
  ASSUME LocksInv, NEW p \in Procs, Asking(p), job[p].kind # "p2p"
  PROVE  PaymentAt(p, job[p])
<1> USE DEF PaymentAt
<1> DEFINE c == job[p]
           w == Wanted(p)
<1>1. /\ c \in Calls /\ handler[p] \in HandlersFor(c) /\ handler[p] # "idle"
      /\ taken[p] \in Nat /\ taken[p] < Len(w)
  BY DEF LocksInv, TypeOK, Asking, Tables
<1>2. /\ taken[p] = 0 => Holds(p) = {} /\ Asked(p) = w[1]
      /\ taken[p] = 1 => Holds(p) = {w[1]} /\ Asked(p) = w[2]
  <2>1. 1..0 = {} /\ 1..1 = {1}
    OBVIOUS
  <2> QED
    BY <1>1, <2>1 DEF Holds, Asked
<1>3. CASE Initiates(p)
  <2>1. w = <<Update("wallet", c.wallet), Update("key", c.key)>>
    BY <1>1, <1>3, LocksOfPayments DEF Initiates, Wanted
  <2>2. taken[p] = 0 \/ taken[p] = 1
    BY <1>1, <2>1
  <2> QED
    BY <1>2, <1>3, <2>1, <2>2
<1>4. CASE handler[p] \in {"confirm_payment", "cancel_payment", "expire_request"}
  <2>1. /\ w[1] = Update("request", c.key) /\ Len(w) = 2
        /\ w[2] \in {Update("wallet", c.wallet), KeyShare("wallet", c.wallet)}
    BY <1>1, <1>4, LocksOfPayments DEF Wanted
  <2>2. taken[p] = 0 \/ taken[p] = 1
    BY <1>1, <2>1
  <2> QED
    BY <1>2, <1>4, <2>1, <2>2
<1> QED
  BY <1>1, <1>3, <1>4, LocksOfPayments DEF Initiates

LEMMA TransferWaits ==
  ASSUME LocksInv, NEW p \in Procs, Asking(p), job[p].kind = "p2p"
  PROVE  TransferAt(p, job[p])
<1> USE DEF TransferAt
<1> DEFINE c == job[p]
           w == Wanted(p)
<1>1. /\ c \in Calls /\ handler[p] \in HandlersFor(c) /\ handler[p] # "idle"
      /\ taken[p] \in Nat /\ taken[p] < Len(w)
  BY DEF LocksInv, TypeOK, Asking, Tables
<1>2. /\ taken[p] = 0 => Holds(p) = {} /\ Asked(p) = w[1]
      /\ taken[p] = 1 => Holds(p) = {w[1]} /\ Asked(p) = w[2]
      /\ taken[p] = 2 => Holds(p) = {w[1], w[2]} /\ Asked(p) = w[3]
  <2>1. 1..0 = {} /\ 1..1 = {1} /\ 1..2 = {1, 2}
    OBVIOUS
  <2> QED
    BY <1>1, <2>1 DEF Holds, Asked
<1>3. CASE Inserts(p)
  <2>1. /\ w[1] = Update("key", c.key) /\ Len(w) = 3
        /\ w[2] = KeyShare("wallet", c.peer) /\ w[3] = KeyShare("wallet", c.wallet)
    BY <1>1, <1>3, LocksOfTransfers DEF Inserts, Wanted
  <2>2. taken[p] = 0 \/ taken[p] = 1 \/ taken[p] = 2
    BY <1>1, <2>1
  <2>3. CASE taken[p] = 0
    BY <1>2, <1>3, <2>1, <2>3
  <2>4. CASE taken[p] = 1 \/ taken[p] = 2
    BY <1>2, <1>3, <2>1, <2>4
  <2> QED
    BY <2>2, <2>3, <2>4
<1>4. CASE Confirms(p)
  <2>1. /\ w[1] = Update("request", c.key) /\ Len(w) = 3
        /\ w[2] = Update("wallet", Lower(c)) /\ w[3] = Update("wallet", Upper(c))
    BY <1>1, <1>4, LocksOfTransfers DEF Confirms, Wanted
  <2>2. taken[p] = 0 \/ taken[p] = 1 \/ taken[p] = 2
    BY <1>1, <2>1
  <2> QED
    BY <1>2, <1>4, <2>1, <2>2
<1>5. CASE handler[p] = "expire_transfer_request"
  <2>1. w[1] = Update("request", c.key) /\ Len(w) = 1
    BY <1>1, <1>5, LocksOfTransfers DEF Wanted
  <2>2. taken[p] = 0
    BY <1>1, <2>1
  <2> QED
    BY <1>2, <1>5, <2>1, <2>2
<1> QED
  BY <1>1, <1>3, <1>4, <1>5, LocksOfTransfers DEF Inserts, Confirms

\* Of the waiting transactions, these hold a lock that others may wait for.
Blocked(p) == Confirms(p) /\ \E lock \in Holds(p) : lock.table = "wallet"

LEMMA LockFields ==
  ASSUME NEW t, NEW i
  PROVE  /\ Update(t, i).table = t /\ Update(t, i).id = i
         /\ KeyShare(t, i).table = t /\ KeyShare(t, i).id = i
  BY DEF Update, KeyShare

LEMMA AskedFor ==
  ASSUME LocksInv, NEW p \in Procs, Asking(p)
  PROVE  /\ Asked(p).table \in {"wallet", "key", "request"}
         /\ Asked(p).table \in {"key", "request"} => Asked(p).id = job[p].key
         /\ Asked(p).table = "key" => Inserts(p) \/ Initiates(p)
<1>1. CASE job[p].kind # "p2p"
  <2>1. PaymentAt(p, job[p])
    BY <1>1, PaymentWaits
  <2> QED
    BY <2>1, LockFields DEF PaymentAt
<1>2. CASE job[p].kind = "p2p"
  <2>1. TransferAt(p, job[p])
    BY <1>2, TransferWaits
  <2> QED
    BY <2>1, LockFields DEF TransferAt
<1> QED
  BY <1>1, <1>2

LEMMA Holders ==
  ASSUME LocksInv, NEW q \in Procs, Asking(q), NEW b \in Holds(q)
  PROVE  /\ b.table = "key" => Inserts(q) /\ b.id = job[q].key
         /\ b.table = "request" =>
              /\ b.id = job[q].key /\ Asked(q).table = "wallet"
              /\ Confirms(q) \/ job[q].kind # "p2p"
         /\ b.table = "wallet" =>
              \/ Inserts(q)
              \/ Initiates(q) /\ Asked(q).table = "key"
              \/ /\ Blocked(q) /\ b.id = Lower(job[q]) /\ Asked(q).table = "wallet"
                 /\ Asked(q).id = Upper(job[q])
<1>1. CASE job[q].kind # "p2p"
  <2>1. PaymentAt(q, job[q])
    BY <1>1, PaymentWaits
  <2> QED
    BY <1>1, <2>1, LockFields DEF PaymentAt
<1>2. CASE job[q].kind = "p2p"
  <2>1. TransferAt(q, job[q])
    BY <1>2, TransferWaits
  <2> QED
    BY <1>2, <2>1, LockFields DEF TransferAt, Blocked
<1> QED
  BY <1>1, <1>2

\* Keys and kinds of the calls at work.
LEMMA KindsAtWork ==
  ASSUME LocksInv, NEW p \in Procs, handler[p] # "idle"
  PROVE  /\ job[p] \in Calls
         /\ Inserts(p) \/ Confirms(p) => job[p].kind = "p2p"
         /\ Initiates(p) => job[p].kind # "p2p"
  BY LocksOfPayments, LocksOfTransfers DEF LocksInv, TypeOK, Inserts, Confirms, Initiates

LEMMA SameTable ==
  ASSUME LocksInv, NEW p \in Procs, NEW q \in Procs, WaitsFor(p, q), Asking(q)
  PROVE  \E b \in Holds(q) : /\ b.table = Asked(p).table /\ b.id = Asked(p).id
                             /\ p # q /\ Asking(p)
  BY DEF WaitsFor, Conflict

\* Whoever initiates a payment and waits for its key waits for nobody that
\* waits in turn, so it does so in no knot.
LEMMA NoKeyInKnots ==
  ASSUME LocksInv, NEW S \in SUBSET Procs, Knot(S), NEW p \in S, Initiates(p)
  PROVE  Asked(p).table # "key"
<1> SUFFICES ASSUME Asked(p).table = "key" PROVE FALSE
  OBVIOUS
<1>1. PICK q \in S : WaitsFor(p, q)
  BY DEF Knot
<1>2. Asking(p) /\ Asking(q)
  BY <1>1 DEF Knot, WaitsFor
<1>3. PICK b \in Holds(q) : b.table = "key" /\ b.id = Asked(p).id
  BY <1>1, <1>2, SameTable
<1>4. Inserts(q) /\ b.id = job[q].key
  BY <1>2, <1>3, Holders
<1>5. job[p] \in Calls /\ job[q] \in Calls /\ job[p].kind # "p2p" /\ job[q].kind = "p2p"
  BY <1>2, <1>4, KindsAtWork DEF Asking
<1>6. Asked(p).id = job[p].key
  BY <1>2, AskedFor
<1> QED
  BY <1>3, <1>4, <1>5, <1>6, KeysAssumption

Moving(S) == {p \in S : handler[p] = "initiate_transfer"}
               \cup {p \in S : handler[p] = "confirm_transfer"}

\* In a knot, a wallet is held by a transfer, ...
LEMMA WalletHolders ==
  ASSUME LocksInv, NEW S \in SUBSET Procs, Knot(S), NEW p \in S,
         Asked(p).table = "wallet"
  PROVE  \E q \in Moving(S) :
           /\ WaitsFor(p, q)
           /\ \/ Inserts(q)
              \/ /\ Blocked(q) /\ Asked(p).id = Lower(job[q]) /\ Asked(q).table = "wallet"
                 /\ Asked(q).id = Upper(job[q])
<1>1. PICK q \in S : WaitsFor(p, q)
  BY DEF Knot
<1>2. Asking(q)
  BY DEF Knot, WaitsFor
<1>3. PICK b \in Holds(q) : b.table = "wallet" /\ b.id = Asked(p).id
  BY <1>1, <1>2, SameTable
<1>4. \/ Inserts(q)
      \/ Initiates(q) /\ Asked(q).table = "key"
      \/ /\ Blocked(q) /\ b.id = Lower(job[q]) /\ Asked(q).table = "wallet"
         /\ Asked(q).id = Upper(job[q])
  BY <1>2, <1>3, Holders
<1>5. ~(Initiates(q) /\ Asked(q).table = "key")
  BY NoKeyInKnots
<1> QED
  BY <1>1, <1>3, <1>4, <1>5 DEF Moving, Inserts, Blocked, Confirms

\* ... and so is whatever else a transfer waits for.
LEMMA TransfersStayAmongThemselves ==
  ASSUME LocksInv, NEW S \in SUBSET Procs, Knot(S), NEW p \in Moving(S)
  PROVE  \E q \in Moving(S) : WaitsFor(p, q)
<1>1. p \in S /\ (Inserts(p) \/ Confirms(p))
  BY DEF Moving, Inserts, Confirms
<1>2. PICK q \in S : WaitsFor(p, q)
  BY <1>1 DEF Knot
<1>3. Asking(p) /\ Asking(q)
  BY <1>1, <1>2 DEF Knot, WaitsFor
<1>4. job[p] \in Calls /\ job[p].kind = "p2p" /\ job[q] \in Calls
  BY <1>1, <1>3, KindsAtWork DEF Asking
<1>5. PICK b \in Holds(q) : b.table = Asked(p).table /\ b.id = Asked(p).id
  <2>1. p \in Procs /\ q \in Procs
    BY <1>1
  <2> QED
    BY <1>2, <1>3, <2>1, SameTable
<1>6. \/ Asked(p).table = "wallet"
      \/ Asked(p).table \in {"key", "request"} /\ Asked(p).id = job[p].key
  BY <1>1, <1>3, AskedFor
<1>7. CASE Asked(p).table = "wallet"
  BY <1>1, <1>7, WalletHolders
<1>8. CASE Asked(p).table \in {"key", "request"} /\ Asked(p).id = job[p].key
  <2>1. Inserts(q) \/ Confirms(q) \/ (job[q].kind # "p2p" /\ b.id = job[q].key)
    BY <1>3, <1>5, <1>8, Holders
  <2>2. Inserts(q) \/ Confirms(q)
    BY <1>4, <1>5, <1>8, <2>1, KeysAssumption
  <2> QED
    BY <1>2, <2>2 DEF Moving, Inserts, Confirms
<1> QED
  BY <1>6, <1>7, <1>8

\* Every knot has a transfer in it.
LEMMA KnotsMove ==
  ASSUME LocksInv, NEW S \in SUBSET Procs, Knot(S)
  PROVE  Moving(S) # {}
<1>1. PICK p \in S : Asking(p)
  BY DEF Knot, WaitsFor
<1>2. CASE Asked(p).table = "wallet"
  BY <1>2, WalletHolders
<1>3. CASE Asked(p).table = "key"
  <2>1. Inserts(p) \/ Initiates(p)
    BY <1>1, <1>3, AskedFor
  <2> QED
    BY <1>3, <2>1, NoKeyInKnots DEF Moving, Inserts
<1>4. CASE Asked(p).table = "request"
  <2>1. PICK q \in S : WaitsFor(p, q)
    BY DEF Knot
  <2>2. Asking(q)
    BY DEF Knot, WaitsFor
  <2>3. PICK b \in Holds(q) : b.table = "request"
    BY <1>4, <2>1, <2>2, SameTable
  <2>4. Asked(q).table = "wallet"
    BY <2>2, <2>3, Holders
  <2> QED
    BY <2>4, WalletHolders
<1>5. Asked(p).table \in {"wallet", "key", "request"}
  BY <1>1, AskedFor
<1> QED
  BY <1>2, <1>3, <1>4, <1>5

-----------------------------------------------------------------------------
(***************************************************************************)
(* Confirmations alone climb from wallet to wallet, and cannot do so in a  *)
(* circle.                                                                 *)
(***************************************************************************)
LEMMA GreatestNumber ==
  ASSUME NEW V, IsFiniteSet(V), V \subseteq Nat, V # {}
  PROVE  \E m \in V : \A n \in V : n <= m
<1> DEFINE Topped(A) == \E m \in A : \A n \in A : n <= m
           C == {A \in SUBSET V : A # {} /\ ~Topped(A)}
<1> SUFFICES ASSUME C # {} PROVE FALSE
  OBVIOUS
<1>1. PICK A \in C : \A B \in SUBSET A : B \in C => B = A
  <2>1. C \subseteq SUBSET V
    OBVIOUS
  <2> HIDE DEF C
  <2> QED
    BY ONLY IsFiniteSet(V), C # {}, <2>1, SmallestSet
<1>2. A \subseteq Nat /\ A # {} /\ ~Topped(A)
  OBVIOUS
<1>3. PICK x \in A : TRUE
  BY <1>2
<1>4. PICK y \in A : ~(y <= x)
  BY <1>2
<1> DEFINE B == A \ {x}
<1>5. y \in B
  BY <1>2, <1>4
<1>6. Topped(B)
  <2>1. B \in SUBSET A /\ B # A /\ B \in SUBSET V /\ B # {}
    BY <1>5
  <2>2. B \notin C
    BY <1>1, <2>1
  <2> QED
    BY <2>1, <2>2
<1>7. PICK m \in B : \A n \in B : n <= m
  BY <1>6
<1>8. \A n \in A : n <= m
  BY <1>2, <1>4, <1>5, <1>7
<1> QED
  BY <1>2, <1>7, <1>8

\* A confirmation that holds a wallet holds it alone, and asks for a higher one.
LEMMA BlockedClimbs ==
  ASSUME LocksInv, NEW p \in Procs, NEW q \in Procs, Asking(p), Asking(q),
         Blocked(p), Blocked(q)
  PROVE  /\ Lower(job[p]) \in Wallets /\ Upper(job[p]) \in Wallets
         /\ Lower(job[p]) <= Upper(job[p])
         /\ p # q => Lower(job[p]) # Lower(job[q])
<1>1. ASSUME NEW r \in Procs, Asking(r), Blocked(r)
      PROVE  /\ job[r] \in Calls
             /\ Update("wallet", Lower(job[r])) \in Holds(r)
  <2>1. job[r] \in Calls /\ job[r].kind = "p2p" /\ Confirms(r)
    BY <1>1, KindsAtWork DEF Asking, Blocked
  <2>2. TransferAt(r, job[r])
    BY <1>1, <2>1, TransferWaits
  <2> QED
    BY <1>1, <2>1, <2>2, LockFields DEF TransferAt, Blocked, Inserts, Confirms
<1>2. /\ Lower(job[p]) \in Wallets /\ Upper(job[p]) \in Wallets
      /\ Lower(job[p]) <= Upper(job[p])
  BY <1>1, CallFacts DEF Lower, Upper
<1>3. ASSUME p # q, Lower(job[p]) = Lower(job[q]) PROVE FALSE
  <2> DEFINE lock == Update("wallet", Lower(job[p]))
  <2>1. lock \in Holds(p) /\ lock \in Holds(q)
    BY <1>1, <1>3
  <2>2. Conflict(lock, lock)
    BY DEF Conflict, Update
  <2> HIDE DEF lock
  <2> QED
    BY <1>3, <2>1, <2>2 DEF LocksInv, LocksExclude
<1> QED
  BY <1>2, <1>3

\* So an insert is part of every knot.
LEMMA KnotsInsert ==
  ASSUME LocksInv, NEW S \in SUBSET Procs, Knot(S)
  PROVE  {p \in S : handler[p] = "initiate_transfer"} # {}
<1> SUFFICES ASSUME \A p \in S : ~Inserts(p) PROVE FALSE
  BY DEF Inserts
<1> DEFINE W == {p \in S : Blocked(p) /\ Asked(p).table = "wallet"
                             /\ Asked(p).id = Upper(job[p])}
<1>1. ASSUME NEW p \in S, Asked(p).table = "wallet"
      PROVE  \E q \in W : WaitsFor(p, q) /\ Asked(p).id = Lower(job[q])
  <2>1. PICK q \in Moving(S) :
           /\ WaitsFor(p, q)
           /\ \/ Inserts(q)
              \/ /\ Blocked(q) /\ Asked(p).id = Lower(job[q]) /\ Asked(q).table = "wallet"
                 /\ Asked(q).id = Upper(job[q])
    BY <1>1, WalletHolders
  <2>2. q \in S
    BY DEF Moving
  <2> QED
    BY <2>1, <2>2
<1>2. \A p \in S : p \in Procs /\ Asking(p)
  BY DEF Knot, WaitsFor
<1>3. W # {}
  <2>1. PICK p \in Moving(S) : TRUE
    BY KnotsMove
  <2>2. PICK q \in Moving(S) : WaitsFor(p, q)
    BY TransfersStayAmongThemselves
  <2>3. p \in S /\ q \in S /\ Confirms(p) /\ ~Initiates(p)
    BY DEF Moving, Inserts, Confirms, Initiates
  <2>4. Asked(p).table \in {"wallet", "request"}
    BY <1>2, <2>3, AskedFor
  <2>5. CASE Asked(p).table = "wallet"
    BY <1>1, <2>3, <2>5
  <2>6. CASE Asked(p).table = "request"
    <3>1. PICK b \in Holds(q) : b.table = "request"
      BY <1>2, <2>2, <2>3, <2>6, SameTable
    <3>2. Asked(q).table = "wallet"
      BY <1>2, <2>3, <3>1, Holders
    <3> QED
      BY <1>1, <2>3, <3>2
  <2> QED
    BY <2>4, <2>5, <2>6
<1> DEFINE V == {Upper(job[p]) : p \in W}
<1>4. \A p \in W : /\ p \in S /\ p \in Procs /\ Asking(p) /\ Blocked(p)
                   /\ Asked(p).table = "wallet" /\ Asked(p).id = Upper(job[p])
  BY <1>2
<1> HIDE DEF W
<1>5. PICK m \in V : \A n \in V : n <= m
  <2>1. V \subseteq Wallets /\ V # {}
    BY <1>3, <1>4, BlockedClimbs
  <2>2. IsFiniteSet(V) /\ V \subseteq Nat
    BY <2>1, UuidAssumption, WalletsAssumption, FS_Subset
  <2> HIDE DEF V
  <2> QED
    BY <2>1, <2>2, GreatestNumber
<1>6. PICK p \in W : Upper(job[p]) = m
  OBVIOUS
<1>7. PICK q \in W : WaitsFor(p, q) /\ Upper(job[p]) = Lower(job[q])
  BY <1>1, <1>4
<1>8. Upper(job[q]) = Lower(job[q])
  <2>1. Lower(job[q]) <= Upper(job[q]) /\ Lower(job[q]) \in Nat /\ Upper(job[q]) \in Nat
    BY <1>4, BlockedClimbs, WalletsAssumption
  <2>2. Upper(job[q]) <= m
    BY <1>5
  <2> QED
    BY <1>6, <1>7, <2>1, <2>2
<1>9. PICK r \in W : WaitsFor(q, r) /\ Upper(job[q]) = Lower(job[r])
  BY <1>1, <1>4
<1>10. q # r
  BY <1>9 DEF WaitsFor
<1> QED
  BY <1>4, <1>8, <1>9, <1>10, BlockedClimbs

-----------------------------------------------------------------------------
\* The locks a transaction was granted exclude those of all the others.
THEOREM LocksInvariance == Spec => []LocksInv
<1>1. Init => LocksInv
  BY InitLocksInv
<1>2. LocksInv /\ [Next]_vars => LocksInv'
  BY LocksStep
<1> QED
  BY <1>1, <1>2, PTL DEF Spec

\* Every worker runs a handler of its call's table, within its list of locks.
THEOREM WorkersTyped == Spec => []TypeOK
<1>1. LocksInv => TypeOK
  BY DEF LocksInv
<1> QED
  BY <1>1, LocksInvariance, PTL

\* Whatever waits in a circle, an insert of a transfer is in it, and transfers
\* alone make up a circle: no payment handler, no expiry and no pair of
\* confirmations can block each other.
THEOREM InsertsAloneDeadlock == Spec => []OnlyInsertsDeadlock
<1>1. LocksInv => OnlyInsertsDeadlock
  <2> SUFFICES ASSUME LocksInv, NEW S \in SUBSET Procs, Knot(S)
               PROVE  /\ {p \in S : handler[p] = "initiate_transfer"} # {}
                      /\ Knot(Moving(S))
    BY DEF OnlyInsertsDeadlock, Moving
  <2>1. Knot(Moving(S))
    BY KnotsMove, TransfersStayAmongThemselves DEF Knot
  <2> QED
    BY <2>1, KnotsInsert
<1> QED
  BY <1>1, LocksInvariance, PTL

=============================================================================
