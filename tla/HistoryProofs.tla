--------------------------- MODULE HistoryProofs ---------------------------
(***************************************************************************)
(* WalkInv is an invariant of History for any number of entries, pages of  *)
(* any size and any filters: pages descend, nothing is skipped that was    *)
(* there when the walk began or came in behind its cursor later, and a     *)
(* linked statement is complete.                                           *)
(***************************************************************************)
EXTENDS History, FiniteSetTheorems, WellFoundedInduction, TLAPS

(***************************************************************************)
(* The order of (created_at, id).                                          *)
(***************************************************************************)

\* It is a strict total order on the entries, whatever their timestamps.
LEMMA Order ==
  ASSUME TypeOK
  PROVE  /\ \A i \in Ids : ~Newer(i, i)
         /\ \A i, j \in Ids : i = j \/ Newer(i, j) \/ Newer(j, i)
         /\ \A i, j, k \in Ids : Newer(i, j) /\ Newer(j, k) => Newer(i, k)
  BY HistoryAssumption DEF TypeOK, Newer

\* A strict order on a finite set has a minimal element.  (The sets of what
\* is below an element are finite, so one of them is the least.)
LEMMA Minimal ==
  ASSUME NEW S, IsFiniteSet(S), S # {}, NEW R,
         \A i \in S : <<i, i>> \notin R,
         \A i, j, k \in S : <<i, j>> \in R /\ <<j, k>> \in R => <<i, k>> \in R
  PROVE  \E i \in S : \A j \in S : <<j, i>> \notin R
<1> DEFINE Below(i) == {j \in S : <<j, i>> \in R}
           T == {Below(i) : i \in S}
<1>1. T \subseteq FiniteSubsetsOf(S)
  BY FS_Subset DEF FiniteSubsetsOf
<1>2. PICK x \in T : \A y \in T : <<y, x>> \notin StrictSubsetOrdering(S)
  <2>1. IsWellFoundedOn(StrictSubsetOrdering(S), FiniteSubsetsOf(S))
    BY FS_StrictSubsetOrderingWellFounded
  <2>2. T # {}
    <3>1. \A i \in S : Below(i) \in T
      OBVIOUS
    <3> HIDE DEF T, Below
    <3> QED
      BY <3>1
  <2> HIDE DEF T
  <2> QED
    BY <1>1, <2>1, <2>2, WFMin
<1>3. PICK i \in S : x = Below(i)
  BY <1>2
<1>4. Below(i) = {}
  <2> SUFFICES ASSUME NEW j \in Below(i) PROVE FALSE
    OBVIOUS
  <2>1. Below(j) \subseteq Below(i) /\ j \notin Below(j)
    OBVIOUS
  <2>2. <<Below(j), Below(i)>> \in StrictSubsetOrdering(S)
    BY <2>1 DEF StrictSubsetOrdering
  <2> QED
    BY <2>2, <1>2, <1>3
<1> QED
  BY <1>4

\* So a page that is not empty has a last entry, ...
LEMMA LastExists ==
  ASSUME TypeOK, NEW S, S \subseteq Ids, IsFiniteSet(S), S # {}
  PROVE  /\ Last(S) \in S
         /\ \A j \in S : j = Last(S) \/ Newer(j, Last(S))
<1> DEFINE R == {r \in S \X S : Newer(r[2], r[1])}
<1>1. /\ \A i \in S : <<i, i>> \notin R
      /\ \A i, j, k \in S : <<i, j>> \in R /\ <<j, k>> \in R => <<i, k>> \in R
  BY Order
<1>2. \A i, j \in S : <<i, j>> \in R <=> Newer(j, i)
  OBVIOUS
<1> HIDE DEF R
<1>3. PICK i \in S : \A j \in S : <<j, i>> \notin R
  BY <1>1, Minimal
<1>4. \A j \in S : j = i \/ Newer(j, i)
  BY <1>2, <1>3, Order
<1> QED
  BY <1>4 DEF Last

\* ... and a first one.
LEMMA FirstExists ==
  ASSUME TypeOK, NEW S, S \subseteq Ids, IsFiniteSet(S), S # {}
  PROVE  \E i \in S : \A j \in S : ~Newer(j, i)
<1> DEFINE R == {r \in S \X S : Newer(r[1], r[2])}
<1>1. /\ \A i \in S : <<i, i>> \notin R
      /\ \A i, j, k \in S : <<i, j>> \in R /\ <<j, k>> \in R => <<i, k>> \in R
  BY Order
<1>2. \A i, j \in S : <<i, j>> \in R <=> Newer(i, j)
  OBVIOUS
<1> HIDE DEF R
<1> QED
  BY <1>1, <1>2, Minimal

\* What LIMIT n keeps of an ordered set: all of a set that fits, something of
\* one that does not, at most n, and nothing behind what it leaves out.
LEMMA FirstKeeps ==
  ASSUME TypeOK, NEW S, S \subseteq Ids, IsFiniteSet(S), NEW n \in Nat \ {0}
  PROVE  /\ First(S, n) \subseteq S
         /\ Cardinality(S) <= n => First(S, n) = S
         /\ S # {} => First(S, n) # {}
         /\ Cardinality(First(S, n)) <= n
         /\ \A i \in S \ First(S, n), k \in First(S, n) : Newer(k, i)
<1> DEFINE Ahead(i) == {j \in S : Newer(j, i)}
<1>1. \A i \in S : Cardinality(Ahead(i)) \in Nat
  BY FS_Subset, FS_CardinalityType
<1>2. First(S, n) = {i \in S : Cardinality(Ahead(i)) < n}
  BY DEF First
<1>3. ASSUME Cardinality(S) <= n, NEW i \in S PROVE Cardinality(Ahead(i)) < n
  <2>1. Ahead(i) # S
    BY Order
  <2>2. Cardinality(Ahead(i)) <= Cardinality(S) /\ Cardinality(Ahead(i)) # Cardinality(S)
    BY <2>1, FS_Subset
  <2>3. Cardinality(S) \in Nat
    BY FS_CardinalityType
  <2> HIDE DEF Ahead
  <2> QED
    BY <1>1, <1>3, <2>2, <2>3
<1>4. ASSUME S # {} PROVE \E i \in S : Cardinality(Ahead(i)) < n
  <2>1. PICK i \in S : Ahead(i) = {}
    BY <1>4, FirstExists
  <2> QED
    BY <2>1, FS_EmptySet
<1>5. ASSUME NEW i \in S, NEW k \in S, Cardinality(Ahead(k)) < n, ~Newer(k, i)
      PROVE  Cardinality(Ahead(i)) < n
  <2>1. Ahead(i) \subseteq Ahead(k)
    BY <1>5, Order
  <2>2. IsFiniteSet(Ahead(k)) 
    BY FS_Subset
  <2>3. Cardinality(Ahead(i)) <= Cardinality(Ahead(k))
    BY <2>1, <2>2, FS_Subset
  <2> HIDE DEF Ahead
  <2> QED
    BY <1>1, <1>5, <2>3
<1>6. Cardinality(First(S, n)) <= n
  <2> DEFINE F == First(S, n)
  <2>1. F \subseteq S /\ IsFiniteSet(F)
    BY <1>2, FS_Subset
  <2>2. CASE F = {}
    BY <2>2, FS_EmptySet
  <2>3. CASE F # {}
    <3> DEFINE l == Last(F)
    <3>1. l \in F /\ \A j \in F : j = l \/ Newer(j, l)
      BY <2>1, <2>3, LastExists
    <3>2. F \ {l} \subseteq Ahead(l) /\ IsFiniteSet(Ahead(l))
      BY <2>1, <3>1, FS_Subset
    <3>3. Cardinality(F \ {l}) <= Cardinality(Ahead(l))
      BY <3>2, FS_Subset
    <3>4. Cardinality(F \ {l}) = Cardinality(F) - 1 /\ Cardinality(F) \in Nat
      BY <2>1, <3>1, FS_RemoveElement, FS_CardinalityType
    <3>5. Cardinality(Ahead(l)) < n /\ Cardinality(Ahead(l)) \in Nat
      BY <1>1, <1>2, <2>1, <3>1
    <3> HIDE DEF Ahead, F, l
    <3>6. Cardinality(F) <= n
      BY <3>3, <3>4, <3>5
    <3> QED
      BY <3>6 DEF F
  <2> QED
    BY <2>2, <2>3
<1> HIDE DEF Ahead
<1> QED
  BY <1>2, <1>3, <1>4, <1>5, <1>6
-----------------------------------------------------------------------------
\* Nothing is posted and no walk has begun.
LEMMA InitWalkInv == Init => WalkInv
<1> SUFFICES ASSUME Init PROVE WalkInv
  OBVIOUS
<1>1. query \in Queries
  BY HistoryAssumption DEF Init
<1>2. TypeOK
  BY <1>1, HistoryAssumption, FS_EmptySet DEF Init, TypeOK, EntryTypes
<1> QED
  BY <1>2 DEF Init, WalkInv, Descending, NothingSkipped

\* A step that changes no committed row, and no variable of the readers but
\* what the walk owes, leaves the invariant alone: a row is owed from now on
\* only if it is still to come.
LEMMA PostingStep ==
  ASSUME WalkInv, TypeOK', committed \subseteq committed',
         steady' \subseteq Visible',
         \A i \in steady' : i \in steady \/ (walk = "on" /\ i \in After'),
         \A i \in committed : at'[i] = at[i],
         UNCHANGED <<walk, query, cursor, page, seen, exporting>>
  PROVE  WalkInv'
<1>1. \A i, j \in committed : Newer(i, j)' <=> Newer(i, j)
  BY DEF Newer
<1>2. NothingSkipped'
  <2> SUFFICES ASSUME NEW i \in steady'
               PROVE  (\/ i \in seen \cup page
                       \/ walk # "done" /\ (cursor = None \/ Newer(cursor, i)))'
    BY DEF NothingSkipped
  <2>1. CASE i \in steady
    BY <1>1, <2>1 DEF WalkInv, NothingSkipped, TypeOK
  <2>2. CASE walk = "on" /\ i \in After'
    BY <2>2 DEF After
  <2> QED
    BY <2>1, <2>2
<1>3. Descending'
  BY <1>1 DEF WalkInv, TypeOK, Descending
<1>4. (walk = "on" => \A i \in page \cup seen :
                         cursor # None /\ (i = cursor \/ Newer(i, cursor)))'
  BY <1>1 DEF WalkInv, TypeOK
<1> QED
  BY <1>2, <1>3, <1>4 DEF WalkInv, exporting

\* Commits of either kind are such steps.
LEMMA PublishStep ==
  ASSUME WalkInv, TypeOK', NEW S, Publish(S)
  PROVE  WalkInv'
<1>1. \A i \in steady' : i \in Visible' /\ (i \in steady \/ (walk = "on" /\ i \in After'))
  BY DEF Publish, After
<1> QED
  BY <1>1, PostingStep DEF Publish

\* The rows behind the cursor are finitely many.
LEMMA AfterFinite ==
  ASSUME TypeOK
  PROVE  After \subseteq committed /\ IsFiniteSet(After) /\ Cardinality(After) \in Nat
  BY FS_Subset, FS_CardinalityType DEF After, Visible, TypeOK

\* One more page.
LEMMA FetchStep ==
  ASSUME WalkInv, NEW n \in PageSizes, Fetch(n)
  PROVE  WalkInv'
<1> DEFINE size == PageSize(n)
           items == Items(n)
           hasNext == Cardinality(After) > size /\ items # {}
<1>1. TypeOK
  BY DEF WalkInv
<1>2. size \in Nat \ {0}
  BY HistoryAssumption DEF PageSize
<1>3. committed \subseteq Ids /\ After \subseteq committed /\ IsFiniteSet(After)
      /\ Cardinality(After) \in Nat
  BY <1>1, AfterFinite DEF TypeOK
<1>4. /\ items \subseteq After
      /\ Cardinality(After) <= size => items = After
      /\ After # {} => items # {}
      /\ Cardinality(items) <= MaxPageSize
      /\ \A i \in After \ items, k \in items : Newer(k, i)
  <2>1. items = First(After, size) /\ size <= MaxPageSize /\ After \subseteq Ids
    BY <1>1, <1>2, <1>3, HistoryAssumption DEF Items, PageSize, TypeOK
  <2>2. IsFiniteSet(items)
    BY <1>3, <2>1, FS_Subset DEF First
  <2>3. Cardinality(items) <= size /\ Cardinality(items) \in Nat
    BY <1>1, <1>2, <1>3, <2>1, <2>2, FirstKeeps, FS_CardinalityType
  <2>4. Cardinality(items) <= MaxPageSize
    BY <1>2, <2>1, <2>3, HistoryAssumption
  <2> HIDE DEF items, size
  <2> QED
    BY <1>1, <1>2, <1>3, <2>1, <2>4, FirstKeeps
<1>5. /\ walk = "on" /\ seen' = seen \cup page /\ page' = items
      /\ cursor' = IF hasNext THEN Last(items) ELSE cursor
      /\ walk' = IF hasNext THEN "on" ELSE "done"
      /\ UNCHANGED <<rows, query, steady, exporting>>
  BY DEF Fetch
<1>6. hasNext => /\ Last(items) \in items
                 /\ \A j \in items : j = Last(items) \/ Newer(j, Last(items))
  BY <1>1, <1>3, <1>4, LastExists, FS_Subset
<1>7. ~hasNext => items = After
  BY <1>2, <1>3, <1>4, FS_EmptySet
<1>8. \A i \in items, j \in seen \cup page : Newer(j, i)
  <2> SUFFICES ASSUME NEW i \in items, NEW j \in seen \cup page PROVE Newer(j, i)
    OBVIOUS
  <2>1. cursor # None /\ (j = cursor \/ Newer(j, cursor))
    BY <1>5 DEF WalkInv
  <2>2. Newer(cursor, i)
    BY <1>4, <2>1 DEF After
  <2>3. i \in Ids /\ j \in Ids /\ cursor \in Ids
    BY <1>1, <1>3, <1>4, <2>1 DEF TypeOK
  <2> QED
    BY <1>1, <2>1, <2>2, <2>3, Order
<1> HIDE DEF items, size, hasNext
<1>9. TypeOK'
  BY <1>1, <1>3, <1>4, <1>5, <1>6 DEF TypeOK, rows, exporting
<1>10. \A i, j : Newer(i, j)' <=> Newer(i, j)
  BY <1>5 DEF Newer, rows
<1>11. Descending'
  BY <1>5, <1>8, <1>10 DEF Descending
<1>12. walk' = "on" => \A i \in page' \cup seen' :
                         cursor' # None /\ (i = cursor' \/ Newer(i, cursor'))
  BY <1>1, <1>3, <1>4, <1>5, <1>6, <1>8, HistoryAssumption DEF TypeOK
<1>13. NothingSkipped'
  <2> SUFFICES ASSUME NEW i \in steady, i \notin seen' \cup page'
               PROVE  walk' # "done" /\ (cursor' = None \/ Newer(cursor', i))
    BY <1>5, <1>10 DEF NothingSkipped
  <2>1. i \in Visible
    BY DEF WalkInv
  <2>2. i \in After
    BY <1>5, <2>1 DEF WalkInv, NothingSkipped, After
  <2> QED
    BY <1>4, <1>5, <1>6, <1>7, <2>2
<1>14. steady' \subseteq Visible'
  BY <1>5 DEF WalkInv, Visible, Matches, StatusOf, rows
<1>15. /\ export' \in {"open", "sent"} => asked' \subseteq file' \cup unwritten'
       /\ export' = "sent" => unwritten' = {}
  BY <1>5 DEF WalkInv, exporting
<1>16. walk' # "new"
  BY <1>5
<1> QED
  BY <1>9, <1>10, <1>11, <1>12, <1>13, <1>14, <1>15, <1>16 DEF WalkInv

\* Every step keeps the invariant.
LEMMA WalkInvStep == WalkInv /\ [Next]_vars => WalkInv'
<1> SUFFICES ASSUME WalkInv, [Next]_vars PROVE WalkInv'
  OBVIOUS
<1>1. TypeOK /\ steady \subseteq Visible
  BY DEF WalkInv
<1>2. CASE Tick
  <2>1. TypeOK'
    BY <1>1, <1>2 DEF Tick, TypeOK, walking, exporting
  <2>2. Visible' = Visible
    BY <1>2 DEF Tick, walking, Visible, Matches, StatusOf
  <2> QED
    BY <1>1, <1>2, <2>1, <2>2, PostingStep DEF Tick, walking
<1>3. ASSUME NEW i \in Ids, NEW t \in EntryTypes, NEW h \in Ids \cup {None},
             Construct(i, t, h) \/ (Sweep(i, h) /\ t = "reversal")
      PROVE  WalkInv'
  <2>1. PostEntry(i, t, h) /\ posted' \in {posted, posted \cup {i}}
        /\ sweeping' \in {sweeping, sweeping \cup {i}}
        /\ (posted' = posted \/ sweeping' = sweeping)
    BY <1>3 DEF Construct, Sweep
  <2>2. \A j \in committed : at'[j] = at[j] /\ type'[j] = type[j] /\ releases'[j] = releases[j]
    BY <1>1, <2>1 DEF PostEntry, TypeOK
  <2>3. TypeOK'
    BY <1>1, <2>1, FS_AddElement DEF PostEntry, TypeOK, walking, exporting
  <2>4. Visible' = Visible
    BY <2>1, <2>2 DEF PostEntry, walking, Visible, Matches, StatusOf
  <2> QED
    BY <1>1, <2>1, <2>2, <2>3, <2>4, PostingStep DEF PostEntry, walking
<1>4. CASE Commit
  <2>1. IsFiniteSet(committed \cup posted)
    BY <1>1, FS_Union DEF TypeOK
  <2>2. TypeOK'
    BY <1>1, <1>4, <2>1, FS_EmptySet DEF Commit, Publish, TypeOK, exporting, After, Visible
  <2> QED
    BY <1>4, <2>2, PublishStep DEF Commit
<1>4a. ASSUME NEW i \in Ids, CommitSweep(i) PROVE WalkInv'
  <2>1. IsFiniteSet(committed \cup {i})
    BY <1>1, FS_AddElement DEF TypeOK
  <2>2. TypeOK'
    BY <1>1, <1>4a, <2>1 DEF CommitSweep, Publish, TypeOK, exporting, After, Visible
  <2> QED
    BY <1>4a, <2>2, PublishStep DEF CommitSweep
<1>5. CASE Rollback
  <2>1. PICK S \in SUBSET (posted \cup sweeping) : Undo(S)
    BY <1>5 DEF Rollback
  <2>2. \A j \in committed : at'[j] = at[j] /\ type'[j] = type[j] /\ releases'[j] = releases[j]
    BY <1>1, <2>1 DEF Undo, TypeOK
  <2>3. TypeOK'
    BY <1>1, <2>1, FS_Difference DEF Undo, TypeOK, EntryTypes, walking, exporting
  <2>4. UNCHANGED <<committed, query>>
    BY <2>1 DEF Undo, walking
  <2>5. Visible' = Visible
    BY <2>2, <2>4 DEF Visible, Matches, StatusOf
  <2> QED
    BY <1>1, <2>1, <2>2, <2>3, <2>5, PostingStep DEF Undo, walking
<1>6. ASSUME NEW q \in Queries, Walk(q) PROVE WalkInv'
  <2>1. /\ walk' = "on" /\ steady' = Visible' /\ query' = q
        /\ page' = {} /\ seen' = {} /\ cursor' = None
        /\ UNCHANGED <<rows, exporting>>
    BY <1>6 DEF Walk, WalkInv
  <2>2. TypeOK'
    BY <1>1, <2>1, HistoryAssumption, FS_EmptySet DEF TypeOK, Visible, rows, exporting
  <2> QED
    BY <2>1, <2>2 DEF WalkInv, Descending, NothingSkipped, exporting
<1>7. ASSUME NEW n \in PageSizes, Fetch(n) PROVE WalkInv'
  BY <1>7, FetchStep
<1>8. ASSUME UNCHANGED <<rows, walking>>, TypeOK',
             export' \in {"open", "sent"} => asked' \subseteq file' \cup unwritten',
             export' = "sent" => unwritten' = {}
      PROVE  WalkInv'
  BY <1>8 DEF WalkInv, Descending, NothingSkipped, Newer, Visible, Matches, StatusOf,
              rows, walking
<1>9. ASSUME ExportRequest \/ ExportOpen \/ ExportRow \/ SendLink \/ ExportLost
      PROVE  WalkInv'
  <2>1. UNCHANGED <<rows, walking>>
    BY <1>9 DEF ExportRequest, ExportOpen, ExportRow, SendLink, ExportLost
  <2>2. TypeOK'
    <3>1. ExportRow => \E i \in committed : file' = file \cup {i}
      <4> SUFFICES ASSUME ExportRow PROVE \E i \in committed : file' = file \cup {i}
        OBVIOUS
      <4>1. unwritten \subseteq Ids /\ unwritten \subseteq committed /\ unwritten # {}
        BY <1>1 DEF ExportRow, TypeOK
      <4>2. \E i \in unwritten : \A j \in unwritten : j = i \/ Newer(i, j)
        <5>1. IsFiniteSet(unwritten)
          BY <1>1, <4>1, FS_Subset DEF TypeOK
        <5>2. PICK i \in unwritten : \A j \in unwritten : ~Newer(j, i)
          BY <1>1, <4>1, <5>1, FirstExists
        <5> QED
          BY <1>1, <4>1, <5>2, Order
      <4> QED
        BY <4>1, <4>2 DEF ExportRow
    <3> QED
      BY <1>1, <1>9, <2>1, <3>1
      DEF ExportRequest, ExportOpen, ExportRow, SendLink, ExportLost, TypeOK, rows, walking
  <2>3. export' \in {"open", "sent"} => asked' \subseteq file' \cup unwritten'
    BY <1>1, <1>9
    DEF ExportRequest, ExportOpen, ExportRow, SendLink, ExportLost, WalkInv, TypeOK
  <2>4. export' = "sent" => unwritten' = {}
    BY <1>9 DEF ExportRequest, ExportOpen, ExportRow, SendLink, ExportLost, WalkInv
  <2> QED
    BY <1>8, <2>1, <2>2, <2>3, <2>4
<1>10. CASE UNCHANGED vars
  BY <1>1, <1>8, <1>10 DEF vars, exporting, WalkInv, TypeOK, rows, walking
<1> QED
  BY <1>2, <1>3, <1>4, <1>4a, <1>5, <1>6, <1>7, <1>9, <1>10 DEF Next, EntryTypes

\* WalkInv always holds.
THEOREM WalkInvariance == Spec => []WalkInv
<1>1. Init => WalkInv
  BY InitWalkInv
<1>2. WalkInv /\ [Next]_vars => WalkInv'
  BY WalkInvStep
<1> QED
  BY <1>1, <1>2, PTL DEF Spec

\* The cursor, the pages and the file of the task hold committed entries of
\* the wallet only, whatever paginate and export_wallet_history run into.
THEOREM WalksTyped == Spec => []TypeOK
<1>1. WalkInv => TypeOK
  BY DEF WalkInv
<1> QED
  BY <1>1, WalkInvariance, PTL

\* "Stable under concurrent inserts" (pagination.py): the pages of a walk go
\* strictly back in time, so that no entry is shown twice, also when entries
\* become visible in another order than that of created_at.
THEOREM PagesDescend == Spec => []Descending
<1>1. WalkInv => Descending
  BY DEF WalkInv
<1> QED
  BY <1>1, WalkInvariance, PTL

\* paginate skips nothing that was committed when the walk began, nor what
\* comes in behind its cursor later, as a reversal of expire_request can that
\* commits after newer entries, whatever ties in created_at the page ends
\* fall on.
THEOREM NothingIsSkipped == Spec => []NothingSkipped
<1>1. WalkInv => NothingSkipped
  BY DEF WalkInv
<1> QED
  BY <1>1, WalkInvariance, PTL

\* A statement whose link export_wallet_history has sent is complete.
THEOREM StatementIsComplete == Spec => []StatementComplete
<1>1. WalkInv => StatementComplete
  BY DEF WalkInv, StatementComplete
<1> QED
  BY <1>1, WalkInvariance, PTL
=============================================================================
