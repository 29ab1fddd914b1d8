------------------------------ MODULE History ------------------------------
(***************************************************************************)
(* apps/history: a client walks the entries of one wallet page by page     *)
(* with a cursor, and has a statement exported, while entries are posted.  *)
(*                                                                         *)
(* A row is its primary key.  A handler that posts to a wallet holds the   *)
(* lock of its row from before the first entry until the commit, so at     *)
(* most one of them has uncommitted entries.  The sweep, expire_request,   *)
(* locks the request alone: it posts its reversal beside that transaction, *)
(* and others of its kind, and only its commit waits for the wallet, where *)
(* the deferred foreign key asks for FOR KEY SHARE.                        *)
(***************************************************************************)
EXTENDS Integers, FiniteSets

CONSTANTS
  Ids,          \* primary keys of ledger entries, drawn at random
  MaxNow,       \* bound on the clock
  Queries,      \* the filters a client may ask for
  PageSizes,    \* what a client may pass as page_size
  MaxPageSize   \* MAX_PAGE_SIZE

None == 0

EntryTypes == {"credit", "debit", "hold", "reversal"}

\* status as LedgerEntrySerializer derives it; "any" is no filter.
Statuses == {"posted", "pending", "released"}

ASSUME HistoryAssumption ==
  /\ Ids \subseteq Nat \ {None}
  /\ MaxNow \in Nat
  /\ Queries \subseteq [type : EntryTypes \cup {"any"}, from : Nat, to : Nat,
                        status : Statuses \cup {"any"}]
  /\ Queries # {}
  /\ PageSizes \subseteq Int
  /\ MaxPageSize \in Nat \ {0}

VARIABLES
  now,        \* timezone.now()
  at,         \* created_at
  type,       \* the type of an entry
  releases,   \* related_entry of a reversal: the hold it gives back
  posted,     \* entries of the transaction that holds the wallet
  sweeping,   \* reversals of the sweep, each in a transaction of its own
  committed,  \* entries everybody sees
  walk,       \* "new", "on" or "done"
  query,      \* the filters of the walk
  cursor,     \* the last entry of the last page: its at and id
  page,       \* the last answer
  seen,       \* what earlier answers of the walk had
  steady,     \* history: what the walk owes its reader (see Publish)
  export,     \* "none", "queued", "open", "sent" or "lost"
  asked,      \* history: committed when the export was asked for
  unwritten,  \* the snapshot the task reads, less what it has written
  file        \* the rows in the CSV file

rows == <<now, at, type, releases, posted, sweeping, committed>>
walking == <<walk, query, cursor, page, seen, steady>>
exporting == <<export, asked, unwritten, file>>
vars == <<rows, walking, exporting>>

TypeOK ==
  /\ now \in Nat
  /\ at \in [Ids -> Nat]
  /\ type \in [Ids -> EntryTypes]
  /\ releases \in [Ids -> Ids \cup {None}]
  /\ posted \subseteq Ids /\ sweeping \subseteq Ids
  /\ committed \subseteq Ids
  /\ IsFiniteSet(committed) /\ IsFiniteSet(posted)
  /\ posted \cap committed = {} /\ sweeping \cap (posted \cup committed) = {}
  /\ walk \in {"new", "on", "done"}
  /\ query \in Queries
  /\ cursor \in committed \cup {None}
  /\ page \subseteq committed /\ Cardinality(page) <= MaxPageSize
  /\ seen \subseteq committed
  /\ steady \subseteq committed
  /\ export \in {"none", "queued", "open", "sent", "lost"}
  /\ asked \subseteq committed
  /\ unwritten \subseteq committed
  /\ file \subseteq committed

Init ==
  /\ now = 0
  /\ at = [i \in Ids |-> 0]
  /\ type = [i \in Ids |-> "credit"]
  /\ releases = [i \in Ids |-> None]
  /\ posted = {} /\ sweeping = {}
  /\ committed = {}
  /\ walk = "new"
  /\ query = CHOOSE q \in Queries : TRUE
  /\ cursor = None
  /\ page = {} /\ seen = {} /\ steady = {}
  /\ export = "none"
  /\ asked = {} /\ unwritten = {} /\ file = {}

-----------------------------------------------------------------------------
(***************************************************************************)
(* Posting.                                                                *)
(***************************************************************************)
Tick ==
  /\ now < MaxNow
  /\ now' = now + 1
  /\ UNCHANGED <<at, type, releases, posted, sweeping, committed, walking, exporting>>

\* Nobody else looks at a hold meanwhile: its request is locked.
Released(i) == \E r \in committed \cup posted \cup sweeping : releases[r] = i

\* post_entry: created_at is taken when the object is made.  A reversal
\* names a hold of the wallet that none has released.
PostEntry(i, t, h) ==
  /\ i \notin posted \cup sweeping \cup committed
  /\ IF t = "reversal"
       THEN h \in committed /\ type[h] = "hold" /\ ~Released(h)
       ELSE h = None
  /\ at' = [at EXCEPT ![i] = now]
  /\ type' = [type EXCEPT ![i] = t]
  /\ releases' = [releases EXCEPT ![i] = h]
  /\ UNCHANGED <<now, committed, walking, exporting>>

\* A handler that holds the wallet.
Construct(i, t, h) ==
  /\ PostEntry(i, t, h)
  /\ posted' = posted \cup {i}
  /\ UNCHANGED sweeping

\* expire_request: one hold is released, the wallet is not locked.
Sweep(i, h) ==
  /\ PostEntry(i, "reversal", h)
  /\ sweeping' = sweeping \cup {i}
  /\ UNCHANGED posted

StatusOf(i) ==
  IF type[i] # "hold" THEN "posted"
  ELSE IF \E r \in committed : releases[r] = i THEN "released" ELSE "pending"

\* _apply_filters over _annotated_entries.
Matches(i) ==
  /\ query.type \in {type[i], "any"}
  /\ query.from <= at[i] /\ at[i] <= query.to
  /\ query.status \in {StatusOf(i), "any"}

Visible == {i \in committed : Matches(i)}

-----------------------------------------------------------------------------
(***************************************************************************)
(* Pages.  The order is that of (created_at, id), newest first.            *)
(***************************************************************************)
Newer(i, j) == at[i] > at[j] \/ (at[i] = at[j] /\ i > j)

\* created_at__lt alone: the ties of the last entry are skipped.
AfterTime == {i \in Visible : cursor = None \/ at[i] < at[cursor]}

\* created_at__lte alone: the ties of the last entry come again and again.
AfterOrAt == {i \in Visible : cursor = None \/ at[i] <= at[cursor]}

\* The rows behind the cursor.
After == {i \in Visible : cursor = None \/ Newer(cursor, i)}

\* A commit.  The walk owes its reader what was there when it began and what
\* has come in behind its cursor since, as long as it matches.
Publish(S) ==
  /\ committed' = committed \cup S
  /\ UNCHANGED <<now, at, type, releases, exporting>>
  /\ UNCHANGED <<walk, query, cursor, page, seen>>
  /\ steady' = (steady \cap Visible') \cup (IF walk = "on" THEN After' ELSE {})

Commit ==
  /\ posted # {}
  /\ Publish(posted)
  /\ posted' = {}
  /\ UNCHANGED sweeping

\* The deferred check of the foreign key waits for whoever holds the wallet.
CommitSweep(i) ==
  /\ i \in sweeping
  /\ posted = {}
  /\ Publish({i})
  /\ sweeping' = sweeping \ {i}
  /\ UNCHANGED posted

Undo(S) ==
  /\ posted' = posted \ S
  /\ sweeping' = sweeping \ S
  /\ at' = [i \in Ids |-> IF i \in S THEN 0 ELSE at[i]]
  /\ type' = [i \in Ids |-> IF i \in S THEN "credit" ELSE type[i]]
  /\ releases' = [i \in Ids |-> IF i \in S THEN None ELSE releases[i]]
  /\ UNCHANGED <<now, committed, walking, exporting>>

Rollback ==
  \/ posted # {} /\ Undo(posted)
  \/ \E i \in sweeping : Undo({i})

-----------------------------------------------------------------------------
\* page_size taken as it comes.
Unclamped(n) == n

PageSize(n) ==
  IF n < 1 THEN 1 ELSE IF n > MaxPageSize THEN MaxPageSize ELSE n

\* The first n rows of a set.
First(S, n) == {i \in S : Cardinality({j \in S : Newer(j, i)}) < n}

\* The cursor taken from the top of the page.
Top(S) == CHOOSE i \in S : \A j \in S : j = i \/ Newer(i, j)

Last(S) == CHOOSE i \in S : \A j \in S : j = i \/ Newer(j, i)

\* The row that only tells whether there is a next page is not cut off.
ItemsWithProbe(n) == First(After, PageSize(n) + 1)

Items(n) == First(After, PageSize(n))

Walk(q) ==
  /\ walk = "new"
  /\ walk' = "on"
  /\ query' = q
  /\ UNCHANGED <<rows, cursor, page, seen, exporting>>
  /\ steady' = Visible'

\* HistoryListView.get with paginate: one row more than the page tells
\* whether there is a next one.
Fetch(n) ==
  LET items == Items(n)
      hasNext == Cardinality(After) > PageSize(n) /\ items # {} IN
  /\ walk = "on"
  /\ seen' = seen \cup page
  /\ page' = items
  /\ cursor' = IF hasNext THEN Last(items) ELSE cursor
  /\ walk' = IF hasNext THEN "on" ELSE "done"
  /\ UNCHANGED <<rows, query, steady, exporting>>

-----------------------------------------------------------------------------
(***************************************************************************)
(* Exporting: the view queues the task, which reads one snapshot through a *)
(* server-side cursor, writes the file row by row and then sends the link. *)
(***************************************************************************)
ExportRequest ==
  /\ export = "none"
  /\ export' = "queued"
  /\ asked' = committed
  /\ UNCHANGED <<rows, walking, unwritten, file>>

ExportOpen ==
  /\ export = "queued"
  /\ export' = "open"
  /\ unwritten' = committed
  /\ UNCHANGED <<rows, walking, asked, file>>

ExportRow ==
  /\ export = "open"
  /\ unwritten # {}
  /\ LET i == CHOOSE i \in unwritten : \A j \in unwritten : j = i \/ Newer(i, j) IN
       /\ file' = file \cup {i}
       /\ unwritten' = unwritten \ {i}
  /\ UNCHANGED <<rows, walking, export, asked>>

\* The link sent before the rows are in the file.
SendLinkEarly ==
  /\ export = "open"
  /\ export' = "sent"
  /\ UNCHANGED <<rows, walking, asked, unwritten, file>>

SendLink ==
  /\ export = "open"
  /\ unwritten = {}
  /\ export' = "sent"
  /\ UNCHANGED <<rows, walking, asked, unwritten, file>>

\* The worker dies with the task, or the broker loses it.
ExportLost ==
  /\ export \in {"queued", "open"}
  /\ export' = "lost"
  /\ UNCHANGED <<rows, walking, asked, unwritten, file>>

Next ==
  \/ Tick \/ Commit \/ Rollback
  \/ \E i \in Ids : CommitSweep(i)
  \/ \E i, h \in Ids : Sweep(i, h)
  \/ \E q \in Queries : Walk(q)
  \/ \E i \in Ids, t \in EntryTypes, h \in Ids \cup {None} : Construct(i, t, h)
  \/ \E n \in PageSizes : Fetch(n)
  \/ ExportRequest \/ ExportOpen \/ ExportRow \/ SendLink \/ ExportLost

Spec == Init /\ [][Next]_vars

\* A client that walks asks for the next page in the end.
FairSpec == Spec /\ WF_vars(\E n \in PageSizes : Fetch(n))

-----------------------------------------------------------------------------
\* "Stable under concurrent inserts": every page continues behind the ones
\* before it, so none repeats an entry, whatever is posted in between.
Descending == \A i \in page, j \in seen : Newer(j, i)

\* What was there when the walk began, or came in behind its cursor later, as
\* a swept reversal does that commits after newer entries, and matched the
\* filters since, has been shown or is still behind the cursor; at the end it
\* was shown.
NothingSkipped ==
  \A i \in steady :
    \/ i \in seen \cup page
    \/ walk # "done" /\ (cursor = None \/ Newer(cursor, i))

\* What makes both inductive: the cursor stands at or behind everything that
\* has been shown, what is steady is visible, and the task loses no row between
\* snapshot and file.
WalkInv ==
  /\ TypeOK
  /\ Descending
  /\ NothingSkipped
  /\ steady \subseteq Visible
  /\ walk = "new" => page = {} /\ seen = {} /\ steady = {} /\ cursor = None
  /\ walk = "on" => \A i \in page \cup seen :
                     cursor # None /\ (i = cursor \/ Newer(i, cursor))
  /\ export \in {"open", "sent"} => asked \subseteq file \cup unwritten
  /\ export = "sent" => unwritten = {}

\* A linked statement has all that was committed when it was asked for, and
\* so all the pages its reader had seen by then.
StatementComplete == export = "sent" => asked \subseteq file

\* Each page takes the walk further: with a client that goes on it ends.
WalkEnds == walk = "on" ~> walk = "done"
=============================================================================
