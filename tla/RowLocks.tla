------------------------------ MODULE RowLocks ------------------------------
(***************************************************************************)
(* Who waits for whom.  Settlement.tla takes the locks the handlers ask    *)
(* for with select_for_update; this module also has those PostgreSQL takes *)
(* on its own: FOR KEY SHARE on the row a foreign key refers to, taken at  *)
(* commit because Django declares the constraints DEFERRABLE INITIALLY     *)
(* DEFERRED, and the wait of an insert for another one of the same key.    *)
(*                                                                         *)
(* A transaction is the sequence of locks it takes.  What it decides on    *)
(* the way is left open: it may end between any two of them.  Locks on     *)
(* rows nobody else can ask for are left out.                              *)
(***************************************************************************)
EXTENDS Requests, Sequences

CONSTANTS Web, Celery    \* gunicorn and celery workers

Procs == Web \cup Celery

WebHandlers == {"initiate_payment", "confirm_payment", "cancel_payment",
                "initiate_transfer", "confirm_transfer"}
CeleryHandlers == {"expire_request", "expire_transfer_request"}
Handlers == WebHandlers \cup CeleryHandlers

-----------------------------------------------------------------------------
Update(table, id)   == [mode |-> "update",    table |-> table, id |-> id]
KeyShare(table, id) == [mode |-> "key share", table |-> table, id |-> id]

\* The sender first, then the recipient.
SenderFirst(c) == <<Update("wallet", c.wallet), Update("wallet", c.peer)>>

\* select_for_update().order_by("id")
WalletsInOrder(c) ==
  IF c.wallet < c.peer
    THEN <<Update("wallet", c.wallet), Update("wallet", c.peer)>>
    ELSE <<Update("wallet", c.peer), Update("wallet", c.wallet)>>

(***************************************************************************)
(* A payment handler's own ledger rows refer to a wallet it has locked     *)
(* already, except in expire_request, which locks the request only.        *)
(***************************************************************************)
PaymentLocks(h, c) ==
  CASE h = "initiate_payment" ->
         <<Update("wallet", c.wallet), Update("key", c.key)>>
    [] h \in {"confirm_payment", "cancel_payment"} ->
         <<Update("request", c.key), Update("wallet", c.wallet)>>
    [] h = "expire_request" ->
         <<Update("request", c.key), KeyShare("wallet", c.wallet)>>

(***************************************************************************)
(* The insert of a transfer request locks no wallet before its commit      *)
(* checks the two foreign keys, in the order the migration declares them.  *)
(***************************************************************************)
TransferLocks(h, c) ==
  CASE h = "initiate_transfer" ->
         <<Update("key", c.key),
           KeyShare("wallet", c.peer), KeyShare("wallet", c.wallet)>>
    [] h = "confirm_transfer" ->
         <<Update("request", c.key)>> \o WalletsInOrder(c)
    [] h = "expire_transfer_request" ->
         <<Update("request", c.key)>>

Locks(h, c) == IF c.kind = "p2p" THEN TransferLocks(h, c) ELSE PaymentLocks(h, c)

HandlersFor(c) ==
  IF c.kind = "p2p"
    THEN {"initiate_transfer", "confirm_transfer", "expire_transfer_request"}
    ELSE {"initiate_payment", "confirm_payment", "cancel_payment",
          "expire_request"}

Initiating == {"initiate_payment", "initiate_transfer"}

-----------------------------------------------------------------------------
VARIABLES
  rows,      \* the committed request rows, as the calls that made them
  handler,   \* the transaction each process runs, or "idle"
  job,       \* the call or request row it works on
  taken      \* how many of its locks it has been granted

vars == <<rows, handler, job, taken>>

TypeOK ==
  /\ rows \subseteq Calls
  /\ \A p \in Procs :
       IF handler[p] = "idle"
         THEN job[p] = NoCall /\ taken[p] = 0
         ELSE /\ job[p] \in Calls
              /\ handler[p] \in HandlersFor(job[p])
              /\ taken[p] \in 0..Len(Locks(handler[p], job[p]))

Init ==
  /\ rows = {}
  /\ handler = [p \in Procs |-> "idle"]
  /\ job = [p \in Procs |-> NoCall]
  /\ taken = [p \in Procs |-> 0]

Wanted(p) == Locks(handler[p], job[p])

Holds(p) == IF handler[p] = "idle" THEN {}
                                   ELSE {Wanted(p)[i] : i \in 1..taken[p]}

Asking(p) == handler[p] # "idle" /\ taken[p] < Len(Wanted(p))

Asked(p) == Wanted(p)[taken[p] + 1]

Inserted(k) == \E r \in rows : r.key = k

\* FOR KEY SHARE goes with itself, FOR UPDATE with nothing.
Conflict(a, b) ==
  a.table = b.table /\ a.id = b.id /\ (a.mode = "update" \/ b.mode = "update")

WaitsFor(p, q) ==
  /\ p # q
  /\ Asking(p)
  /\ \E lock \in Holds(q) : Conflict(Asked(p), lock)

\* Processes none of which can go on before another of them does.
Knot(S) == S # {} /\ \A p \in S : \E q \in S : WaitsFor(p, q)

-----------------------------------------------------------------------------
(***************************************************************************)
(* A request is initiated while it has no row, and handled once it has.    *)
(***************************************************************************)
Begin(p) ==
  /\ handler[p] = "idle"
  /\ \E c \in Calls : \E h \in HandlersFor(c) :
       /\ p \in (IF h \in CeleryHandlers THEN Celery ELSE Web)
       /\ IF h \in Initiating THEN ~Inserted(c.key) ELSE c \in rows
       /\ handler' = [handler EXCEPT ![p] = h]
       /\ job' = [job EXCEPT ![p] = c]
  /\ UNCHANGED <<rows, taken>>

\* An insert whose key has been committed fails, whatever locks are free.
Acquire(p) ==
  /\ Asking(p)
  /\ \A q \in Procs : ~WaitsFor(p, q)
  /\ Asked(p).table = "key" => ~Inserted(job[p].key)
  /\ taken' = [taken EXCEPT ![p] = @ + 1]
  /\ UNCHANGED <<rows, handler, job>>

\* The connection given back with its transaction still open.
LeaveOpen(p) ==
  /\ handler' = [handler EXCEPT ![p] = "idle"]
  /\ job' = [job EXCEPT ![p] = NoCall]
  /\ taken' = taken

\* The end of a transaction, committed or rolled back.
Leave(p) ==
  /\ handler' = [handler EXCEPT ![p] = "idle"]
  /\ job' = [job EXCEPT ![p] = NoCall]
  /\ taken' = [taken EXCEPT ![p] = 0]

Commit(p) ==
  /\ handler[p] # "idle"
  /\ ~Asking(p)
  /\ rows' = IF handler[p] \in Initiating THEN rows \cup {job[p]} ELSE rows
  /\ Leave(p)

\* Returns early, raises or dies between two locks.
Abandon(p) ==
  /\ Asking(p)
  /\ \A q \in Procs : ~WaitsFor(p, q)
  /\ Leave(p)
  /\ UNCHANGED rows

\* PostgreSQL aborts one of a set of transactions that wait for each other.
BreakDeadlock(p) ==
  /\ \E S \in SUBSET Procs : p \in S /\ Knot(S)
  /\ Leave(p)
  /\ UNCHANGED rows

Next ==
  \E p \in Procs :
    Begin(p) \/ Acquire(p) \/ Commit(p) \/ Abandon(p) \/ BreakDeadlock(p)

Spec == Init /\ [][Next]_vars

-----------------------------------------------------------------------------
\* "Lock both wallets in a stable order (by pk) to avoid deadlocks."  It does
\* not: the commit of initiate_transfer shares the recipient's row before the
\* sender's, whichever comes first, and confirm_transfer may be in between.
NoDeadlock == \A S \in SUBSET Procs : ~Knot(S)

\* Nothing else deadlocks: in every set of transactions that wait for each
\* other there is one of transfers alone, an insert among them.  The payment
\* handlers, the expiry sweep and two confirmations never block each other.
OnlyInsertsDeadlock ==
  \A S \in SUBSET Procs : Knot(S) =>
    LET inserting  == {p \in S : handler[p] = "initiate_transfer"}
        confirming == {p \in S : handler[p] = "confirm_transfer"}
    IN inserting # {} /\ Knot(inserting \cup confirming)
=============================================================================
