----------------------------- MODULE OtpProofs -----------------------------
(***************************************************************************)
(* OtpInv is an invariant of Otp for every number of workers, codes,       *)
(* attempts allowed, codes sent and crashes; with it, a dead code stays    *)
(* dead, and the tries and the acceptances of any code are bounded.        *)
(***************************************************************************)
EXTENDS Otp, FiniteSetTheorems, TLAPS

(***************************************************************************)
(* Sets of workers.                                                        *)
(***************************************************************************)

\* A set of workers has a size.
LEMMA WorkerSets ==
  ASSUME NEW S, S \subseteq Web
  PROVE  IsFiniteSet(S) /\ Cardinality(S) \in Nat
  BY OtpAssumption, FS_Subset, FS_CardinalityType

\* It grows by one with a worker that was not in it ...
LEMMA Joining ==
  ASSUME NEW S, S \subseteq Web, NEW p \in Web, p \notin S
  PROVE  Cardinality(S \cup {p}) = Cardinality(S) + 1
  BY WorkerSets, FS_AddElement

\* ... and shrinks by one without one that was.
LEMMA Leaving ==
  ASSUME NEW S, S \subseteq Web, NEW p \in S
  PROVE  Cardinality(S \ {p}) = Cardinality(S) - 1
  BY WorkerSets, FS_RemoveElement

\* Two disjoint sets of workers have together no more members than Web.
LEMMA Disjoint ==
  ASSUME NEW S, NEW T, S \subseteq Web, T \subseteq Web, S \cap T = {}
  PROVE  Cardinality(S) + Cardinality(T) <= Cardinality(Web)
<1>1. IsFiniteSet(S) /\ IsFiniteSet(T)
  BY WorkerSets
<1>2. Cardinality(S \cup T) = Cardinality(S) + Cardinality(T)
  BY <1>1, FS_Union, FS_EmptySet, WorkerSets
<1>3. Cardinality(S \cup T) <= Cardinality(Web)
  BY OtpAssumption, FS_Subset
<1> QED
  BY <1>2, <1>3

-----------------------------------------------------------------------------
\* Nothing has been sent yet.
LEMMA InitOtpInv == Init => OtpInv
<1> SUFFICES ASSUME Init PROVE OtpInv
  OBVIOUS
<1> USE DEF Init
<1>1. TypeOK
  BY OtpAssumption DEF TypeOK
<1>2. Storing = {} /\ Cardinality(Storing) = 0
  BY FS_EmptySet DEF Storing
<1>3. IssuesInOrder
  BY <1>2, OtpAssumption DEF IssuesInOrder, Issues
<1>4. DeadStaysDead
  BY DEF DeadStaysDead
<1>5. TriesCounted
  BY DEF TriesCounted
<1>6. TriesBounded
  BY OtpAssumption, WorkerSets DEF TriesBounded
<1> QED
  BY <1>1, <1>3, <1>4, <1>5, <1>6 DEF OtpInv

\* Every command keeps the types.
LEMMA TypeStep ==
  ASSUME OtpInv, [Next]_vars
  PROVE  TypeOK'
<1> USE OtpAssumption DEF OtpInv, TypeOK, redis, workers, history, Goto, Leave
<1>1. ASSUME NEW p \in Web, Send(p) PROVE TypeOK'
  BY <1>1 DEF Send
<1>2. ASSUME NEW p \in Web, Store(p) PROVE TypeOK'
  <2>1. issue + 1 \in Issues
    <3>1. p \in Storing /\ Storing \subseteq Web
      BY <1>2 DEF Store, Storing
    <3>2. Cardinality(Storing) \in Nat /\ Cardinality(Storing \ {p}) = Cardinality(Storing) - 1
      BY <3>1, WorkerSets, Leaving
    <3>3. Cardinality(Storing \ {p}) \in Nat
      BY <3>1, WorkerSets
    <3> QED
      BY <3>2, <3>3 DEF IssuesInOrder, Issues
  <2>2. Live \subseteq Issues
    BY DEF Live, IssuesInOrder, Issues
  <2> QED
    BY <1>2, <2>1, <2>2 DEF Store
<1>3. ASSUME NEW p \in Web, NEW c \in Codes, Verify(p, c) PROVE TypeOK'
  BY <1>3 DEF Verify
<1>4. ASSUME NEW p \in Web, Get(p) PROVE TypeOK'
  BY <1>4 DEF Get
<1>5. ASSUME NEW p \in Web, Delete(p) PROVE TypeOK'
  <2>1. seen[p] \in Issues
    BY <1>5 DEF Delete, IssuesInOrder, Issues
  <2>2. Live \subseteq Issues
    BY DEF Live, IssuesInOrder, Issues
  <2> QED
    BY <1>5, <2>1, <2>2 DEF Delete
<1>6. ASSUME NEW p \in Web, Count(p) PROVE TypeOK'
  BY <1>6 DEF Count
<1>7. ASSUME NEW p \in Web, Lockout(p) PROVE TypeOK'
  BY <1>7 DEF Lockout, Live, IssuesInOrder, Issues
<1>8. ASSUME NEW p \in Web, Crash(p) PROVE TypeOK'
  BY <1>8 DEF Crash
<1>9. CASE ExpireCode
  BY <1>9 DEF ExpireCode, Live, IssuesInOrder, Issues
<1>10. CASE ExpireAttempts
  BY <1>10 DEF ExpireAttempts
<1>11. CASE ExpireLock
  BY <1>11 DEF ExpireLock
<1>12. CASE UNCHANGED vars
  BY <1>12 DEF vars
<1> QED
  BY <1>1, <1>2, <1>3, <1>4, <1>5, <1>6, <1>7, <1>8, <1>9, <1>10, <1>11, <1>12
  DEF Next

-----------------------------------------------------------------------------
\* The codes being stored, with those stored, are no more than may be sent.
LEMMA StoringStep ==
  ASSUME OtpInv, [Next]_vars
  PROVE  issue' + Cardinality(Storing)' <= MaxIssues
<1> USE OtpAssumption DEF OtpInv, TypeOK, redis, workers, history, Goto, Leave
<1>1. /\ Storing \subseteq Web /\ Cardinality(Storing) \in Nat
      /\ issue \in Nat /\ issue + Cardinality(Storing) <= MaxIssues
  BY WorkerSets DEF Storing, IssuesInOrder, Issues
<1>2. ASSUME NEW p \in Web, Send(p) PROVE issue' + Cardinality(Storing)' <= MaxIssues
  <2>1. Storing' = Storing \cup {p} /\ p \notin Storing
    BY <1>2 DEF Send, Storing
  <2>2. Cardinality(Storing)' = Cardinality(Storing) + 1
    BY <1>1, <2>1, Joining
  <2>3. issue' = issue /\ issue + Cardinality(Storing) < MaxIssues
    BY <1>2 DEF Send
  <2> QED
    BY <1>1, <2>2, <2>3
<1>3. ASSUME NEW p \in Web, Store(p) PROVE issue' + Cardinality(Storing)' <= MaxIssues
  <2>1. Storing' = Storing \ {p} /\ p \in Storing
    BY <1>3 DEF Store, Storing
  <2>2. Cardinality(Storing)' = Cardinality(Storing) - 1
    BY <1>1, <2>1, Leaving
  <2>3. issue' = issue + 1
    BY <1>3 DEF Store
  <2> QED
    BY <1>1, <2>2, <2>3
<1>4. ASSUME Storing' \subseteq Storing, issue' = issue
      PROVE  issue' + Cardinality(Storing)' <= MaxIssues
  <2>1. Cardinality(Storing)' \in Nat /\ Cardinality(Storing)' <= Cardinality(Storing)
    BY <1>1, <1>4, WorkerSets, FS_Subset
  <2> QED
    BY <1>1, <1>4, <2>1
<1>5. ASSUME NEW p \in Web,
             \/ \E c \in Codes : Verify(p, c)
             \/ Get(p) \/ Delete(p) \/ Count(p) \/ Lockout(p) \/ Crash(p)
      PROVE  issue' + Cardinality(Storing)' <= MaxIssues
  BY <1>4, <1>5 DEF Storing, Verify, Get, Delete, Count, Lockout, Crash
<1>6. CASE ExpireCode \/ ExpireAttempts \/ ExpireLock \/ UNCHANGED vars
  BY <1>4, <1>6 DEF Storing, ExpireCode, ExpireAttempts, ExpireLock, vars
<1> QED
  BY <1>2, <1>3, <1>5, <1>6 DEF Next

\* The dead codes and the live one are just those numbered so far.
LEMMA DeadOrLive ==
  ASSUME OtpInv
  PROVE  /\ dead \subseteq 1..issue
         /\ Live \subseteq 1..issue
         /\ issue \in Nat
  BY OtpAssumption DEF OtpInv, TypeOK, IssuesInOrder, Live, Issues

\* A code is numbered when it is stored; what was read or is dead has a number
\* already, and no more codes are under way than there are numbers left.
LEMMA OrderStep ==
  ASSUME OtpInv, [Next]_vars
  PROVE  IssuesInOrder'
<1> USE DEF redis, workers, history, Goto, Leave
<1>1. /\ dead \subseteq 1..issue /\ Live \subseteq 1..issue /\ issue \in Nat
      /\ issue' + Cardinality(Storing)' <= MaxIssues
  BY DeadOrLive, StoringStep
<1>2. TypeOK /\ TypeOK' /\ IssuesInOrder
  BY TypeStep DEF OtpInv
<1> DEFINE Seen == \A p \in Web :
                     /\ pc'[p] \in {"delete", "count"} => seen'[p] \in 1..issue'
                     /\ known'[p] \subseteq dead'
<1>3. ASSUME issue' = issue, dead \subseteq dead', Seen,
             \/ dead' = dead /\ stored' = stored
             \/ Live \subseteq dead' /\ dead' \subseteq 1..issue /\ stored' = NoCode,
             \/ tries' = tries
             \/ issue > 0 /\ tries' = [tries EXCEPT ![issue] = @ + 1]
      PROVE  IssuesInOrder'
  <2>1. \A i \in Issues : i > issue' => tries'[i] = 0 /\ i \notin dead'
    BY <1>1, <1>2, <1>3 DEF IssuesInOrder, Issues, TypeOK
  <2>2. \A i \in 1..issue' : i \in dead' \/ (i = issue' /\ stored' # NoCode)
    BY <1>1, <1>2, <1>3 DEF IssuesInOrder, Live
  <2>3. stored' # NoCode => issue' > 0 /\ issue' \notin dead'
    BY <1>2, <1>3 DEF IssuesInOrder
  <2> QED
    BY <1>1, <1>3, <2>1, <2>2, <2>3 DEF IssuesInOrder
<1>4. ASSUME NEW p \in Web, Store(p) PROVE IssuesInOrder'
  <2>1. issue' = issue + 1 /\ dead' = dead \cup Live /\ tries' = tries
    BY <1>4 DEF Store
  <2>2. stored' # NoCode
    BY <1>4, OtpAssumption DEF Store
  <2>3. \A i \in Issues : i > issue' => tries'[i] = 0 /\ i \notin dead'
    BY <1>1, <1>2, <2>1 DEF IssuesInOrder, Issues
  <2>4. \A i \in 1..issue' : i \in dead' \/ (i = issue' /\ stored' # NoCode)
    <3> TAKE i \in 1..issue'
    <3>1. i = issue' \/ i \in 1..issue
      BY <1>1, <2>1
    <3> QED
      BY <1>2, <2>1, <2>2, <3>1 DEF IssuesInOrder, Live
  <2>5. issue' > 0 /\ issue' \notin dead'
    BY <1>1, <2>1
  <2>6. Seen
    BY <1>1, <1>2, <1>4, <2>1 DEF Store, IssuesInOrder, TypeOK
  <2> QED
    BY <1>1, <2>3, <2>4, <2>5, <2>6 DEF IssuesInOrder
<1>5. ASSUME NEW p \in Web, Send(p) PROVE IssuesInOrder'
  <2>1. Seen
    BY <1>2, <1>5 DEF Send, IssuesInOrder, TypeOK
  <2> QED
    BY <1>3, <1>5, <2>1 DEF Send
<1>6. ASSUME NEW p \in Web, NEW c \in Codes, Verify(p, c) PROVE IssuesInOrder'
  <2>1. Seen
    BY <1>2, <1>6 DEF Verify, IssuesInOrder, TypeOK
  <2> QED
    BY <1>3, <1>6, <2>1 DEF Verify
<1>7. ASSUME NEW p \in Web, Get(p) PROVE IssuesInOrder'
  <2>1. stored # NoCode => issue > 0
    BY <1>2 DEF IssuesInOrder
  <2>2. Seen
    BY <1>1, <1>2, <1>7, <2>1 DEF Get, IssuesInOrder, TypeOK
  <2> QED
    BY <1>3, <1>7, <2>1, <2>2 DEF Get
<1>8. ASSUME NEW p \in Web, Delete(p) PROVE IssuesInOrder'
  <2>1. seen[p] \in 1..issue
    BY <1>2, <1>8 DEF Delete, IssuesInOrder
  <2>2. Seen
    BY <1>2, <1>8 DEF Delete, IssuesInOrder, TypeOK
  <2> QED
    BY <1>1, <1>3, <1>8, <2>1, <2>2 DEF Delete
<1>9. ASSUME NEW p \in Web, Count(p) PROVE IssuesInOrder'
  <2>1. Seen
    BY <1>2, <1>9 DEF Count, IssuesInOrder, TypeOK
  <2> QED
    BY <1>3, <1>9, <2>1 DEF Count
<1>10. ASSUME NEW p \in Web, Lockout(p) PROVE IssuesInOrder'
  <2>1. Seen
    BY <1>2, <1>10 DEF Lockout, IssuesInOrder, TypeOK
  <2> QED
    BY <1>1, <1>3, <1>10, <2>1 DEF Lockout
<1>11. ASSUME NEW p \in Web, Crash(p) PROVE IssuesInOrder'
  <2>1. Seen
    BY <1>2, <1>11 DEF Crash, IssuesInOrder, TypeOK
  <2> QED
    BY <1>3, <1>11, <2>1 DEF Crash
<1>12. CASE ExpireCode \/ ExpireAttempts \/ ExpireLock \/ UNCHANGED vars
  <2>1. Seen
    BY <1>2, <1>12
    DEF ExpireCode, ExpireAttempts, ExpireLock, vars, IssuesInOrder, TypeOK
  <2> QED
    BY <1>1, <1>3, <1>12, <2>1 DEF ExpireCode, ExpireAttempts, ExpireLock, vars
<1> QED
  BY <1>4, <1>5, <1>6, <1>7, <1>8, <1>9, <1>10, <1>11, <1>12 DEF Next

\* A verification compares with the live code, so not with one that was dead
\* when it began.
LEMMA DeadStep ==
  ASSUME OtpInv, [Next]_vars
  PROVE  DeadStaysDead'
<1> USE DEF OtpInv, TypeOK, DeadStaysDead, redis, workers, history, Goto, Leave
<1>1. ASSUME NEW p \in Web, Get(p) PROVE DeadStaysDead'
  BY <1>1 DEF Get, IssuesInOrder
<1>2. ASSUME NEW p \in Web,
             \/ Send(p) \/ Store(p) \/ \E c \in Codes : Verify(p, c)
             \/ Delete(p) \/ Count(p) \/ Lockout(p) \/ Crash(p)
      PROVE  DeadStaysDead'
  BY <1>2 DEF Send, Store, Verify, Delete, Count, Lockout, Crash
<1>3. CASE ExpireCode \/ ExpireAttempts \/ ExpireLock \/ UNCHANGED vars
  BY <1>3 DEF ExpireCode, ExpireAttempts, ExpireLock, vars
<1> QED
  BY <1>1, <1>2, <1>3 DEF Next

-----------------------------------------------------------------------------
\* Comparing and LockingOut are disjoint sets of workers.
LEMMA ComparingSets ==
  ASSUME NEW i
  PROVE  /\ Comparing(i) \subseteq Web /\ LockingOut \subseteq Web
         /\ Cardinality(Comparing(i)) \in Nat /\ Cardinality(LockingOut) \in Nat
         /\ Cardinality(Comparing(i)) + Cardinality(LockingOut) <= Cardinality(Web)
<1>1. /\ Comparing(i) \subseteq Web /\ LockingOut \subseteq Web
      /\ Comparing(i) \cap LockingOut = {}
  BY DEF Comparing, LockingOut
<1> QED
  BY <1>1, WorkerSets, Disjoint

\* Every comparison with the live code shows in the counter, in a worker that
\* has not counted it yet, or in one that died.
LEMMA CountedStep ==
  ASSUME OtpInv, [Next]_vars
  PROVE  TriesCounted'
<1> USE OtpAssumption DEF OtpInv, TypeOK, TriesCounted, redis, workers,
                          history, Goto, Leave
<1> DEFINE C == Comparing(issue)
           L == LockingOut
<1>1. /\ C \subseteq Web /\ L \subseteq Web
      /\ Cardinality(C) \in Nat /\ Cardinality(L) \in Nat
  BY ComparingSets
<1>2. ASSUME stored' # NoCode, stored # NoCode, UNCHANGED <<issue, tries>>,
             attempts' = attempts, crashes' = crashes, C' = C, L' = L
      PROVE  TriesCounted'
  BY <1>2
<1>3. ASSUME NEW p \in Web, Send(p) PROVE TriesCounted'
  <2>1. C' = C /\ L' = L
    BY <1>3 DEF Send, Comparing, LockingOut
  <2> QED
    BY <1>2, <1>3, <2>1 DEF Send
<1>4. ASSUME NEW p \in Web, Store(p) PROVE TriesCounted'
  <2>1. issue' \in Issues /\ issue' = issue + 1
    BY <1>4, TypeStep DEF Store, Issues
  <2>2. tries'[issue'] = 0 /\ attempts' = 0 /\ crashes' \in Nat
    BY <1>4, <2>1 DEF Store, IssuesInOrder, Issues
  <2>3. Cardinality(C') \in Nat /\ Cardinality(L') \in Nat
    <3>1. C' \subseteq Web /\ L' \subseteq Web
      BY DEF Comparing, LockingOut
    <3> QED
      BY <3>1, WorkerSets
  <2> QED
    BY <2>2, <2>3
<1>5. ASSUME NEW p \in Web, NEW c \in Codes, Verify(p, c) PROVE TriesCounted'
  <2>1. C' = C /\ L' = L
    BY <1>5 DEF Verify, Comparing, LockingOut
  <2> QED
    BY <1>2, <1>5, <2>1 DEF Verify
<1>6. ASSUME NEW p \in Web, Get(p) PROVE TriesCounted'
  <2>1. CASE stored = NoCode
    BY <1>6, <2>1 DEF Get
  <2>2. CASE stored # NoCode
    <3>1. C' = C \cup {p} /\ p \notin C /\ L' = L
      BY <1>6, <2>2 DEF Get, Comparing, LockingOut
    <3>2. Cardinality(C') = Cardinality(C) + 1
      BY <1>1, <3>1, Joining
    <3>3. issue \in Issues /\ tries'[issue] = tries[issue] + 1
      BY <1>6, <2>2 DEF Get, IssuesInOrder, Issues
    <3> QED
      BY <1>1, <1>6, <2>2, <3>1, <3>2, <3>3 DEF Get
  <2> QED
    BY <2>1, <2>2
<1>7. ASSUME NEW p \in Web, Delete(p) PROVE TriesCounted'
  BY <1>7 DEF Delete
<1>8. ASSUME NEW p \in Web, Count(p) PROVE TriesCounted'
  <2>0. SUFFICES ASSUME stored # NoCode PROVE TriesCounted'
    BY <1>8 DEF Count
  <2>1. issue \in Issues /\ UNCHANGED <<issue, tries, crashes>>
        /\ attempts' = attempts + 1
    BY <1>8, <2>0 DEF Count, IssuesInOrder, Issues
  <2>2. /\ tries[issue] \in Nat
        /\ tries[issue] <= attempts + Cardinality(C) + crashes
        /\ tries[issue] < MaxAttempts + Cardinality(L) + Cardinality(C) + crashes
    BY <2>0, <2>1, <1>1
  <2>3. C' = C \ {p} /\ (p \in C <=> seen[p] = issue)
    BY <1>8 DEF Count, Comparing
  <2>4. /\ Cardinality(C') \in Nat
        /\ Cardinality(C') >= Cardinality(C) - 1
    BY <1>1, <2>3, FS_RemoveElement, WorkerSets
  <2>5. CASE TooMany(attempts + 1)
    <3>1. L' = L \cup {p} /\ p \notin L
      BY <1>8, <2>5 DEF Count, LockingOut
    <3>2. Cardinality(L') = Cardinality(L) + 1
      BY <1>1, <3>1, Joining
    <3> QED
      BY <1>1, <2>1, <2>2, <2>4, <3>2
  <2>6. CASE ~TooMany(attempts + 1)
    <3>1. L' = L
      BY <1>8, <2>6 DEF Count, LockingOut
    <3>2. attempts + 1 < MaxAttempts
      BY <2>6 DEF TooMany
    <3> QED
      BY <1>1, <2>1, <2>2, <2>4, <3>1, <3>2
  <2> QED
    BY <2>5, <2>6
<1>9. ASSUME NEW p \in Web, Lockout(p) PROVE TriesCounted'
  BY <1>9 DEF Lockout
<1>10. ASSUME NEW p \in Web, Crash(p) PROVE TriesCounted'
  <2>0. SUFFICES ASSUME stored # NoCode PROVE TriesCounted'
    BY <1>10 DEF Crash
  <2>1. issue \in Issues /\ UNCHANGED <<issue, tries, attempts>>
        /\ crashes' = crashes + 1
    BY <1>10, <2>0 DEF Crash, IssuesInOrder, Issues
  <2>2. /\ tries[issue] \in Nat
        /\ tries[issue] <= attempts + Cardinality(C) + crashes
        /\ tries[issue] < MaxAttempts + Cardinality(L) + Cardinality(C) + crashes
    BY <2>0, <2>1, <1>1
  <2>3. C' = C \ {p} /\ L' = L \ {p} /\ ~(p \in C /\ p \in L)
    BY <1>10 DEF Crash, Comparing, LockingOut
  <2>4. /\ Cardinality(C') \in Nat /\ Cardinality(L') \in Nat
        /\ Cardinality(C') = Cardinality(C) - (IF p \in C THEN 1 ELSE 0)
        /\ Cardinality(L') = Cardinality(L) - (IF p \in L THEN 1 ELSE 0)
    BY <1>1, <2>3, FS_RemoveElement, WorkerSets
  <2> QED
    BY <1>1, <2>1, <2>2, <2>3, <2>4
<1>11. CASE ExpireCode
  BY <1>11 DEF ExpireCode
<1>12. CASE ExpireAttempts
  BY <1>12 DEF ExpireAttempts
<1>13. CASE ExpireLock
  BY <1>13 DEF ExpireLock
<1>14. CASE UNCHANGED vars
  <2>1. C' = C /\ L' = L
    BY <1>14 DEF vars, Comparing, LockingOut
  <2> QED
    BY <1>2, <1>14, <2>1 DEF vars
<1> QED
  BY <1>3, <1>4, <1>5, <1>6, <1>7, <1>8, <1>9, <1>10, <1>11, <1>12, <1>13, <1>14
  DEF Next

\* Only a comparison adds a try, and only to the live code, where those not
\* yet counted are in the hands of different workers.
LEMMA BoundedStep ==
  ASSUME OtpInv, [Next]_vars
  PROVE  TriesBounded'
<1> USE OtpAssumption DEF OtpInv, TypeOK, TriesBounded, redis, workers, history
<1>1. Cardinality(Web) \in Nat
  BY WorkerSets
<1>2. ASSUME tries' = tries, crashes' \in Nat, crashes' >= crashes
      PROVE  TriesBounded'
  BY <1>1, <1>2
<1>3. ASSUME NEW p \in Web, Get(p), stored # NoCode
      PROVE  TriesBounded'
  <2>1. /\ stored' # NoCode /\ UNCHANGED <<issue, crashes>>
        /\ issue \in Issues
        /\ tries' = [tries EXCEPT ![issue] = tries[issue] + 1]
    BY <1>3 DEF Get, IssuesInOrder, Issues
  <2>2. tries'[issue] < MaxAttempts + Cardinality(LockingOut)'
                          + Cardinality(Comparing(issue))' + crashes
    <3>1. (tries[issue] < MaxAttempts + Cardinality(LockingOut)
                            + (Cardinality(Comparing(issue)) + crashes))'
      BY <2>1, CountedStep DEF TriesCounted
    <3>2. Cardinality(Comparing(issue))' \in Nat /\ Cardinality(LockingOut)' \in Nat
      <4>1. Comparing(issue)' \subseteq Web /\ LockingOut' \subseteq Web
        BY DEF Comparing, LockingOut
      <4> QED
        BY <4>1, WorkerSets
    <3> QED
      BY <2>1, <3>1, <3>2
  <2>3. /\ Cardinality(Comparing(issue))' \in Nat /\ Cardinality(LockingOut)' \in Nat
        /\ Cardinality(Comparing(issue))' + Cardinality(LockingOut)'
             <= Cardinality(Web)
    <3>1. /\ Comparing(issue)' \subseteq Web /\ LockingOut' \subseteq Web
          /\ Comparing(issue)' \cap LockingOut' = {}
      BY DEF Comparing, LockingOut
    <3> QED
      BY <3>1, WorkerSets, Disjoint
  <2>4. tries'[issue] \in Nat
    BY <2>1
  <2>5. tries'[issue] < MaxAttempts + Cardinality(Web) + crashes
    BY <1>1, <2>2, <2>3, <2>4
  <2> QED
    BY <2>1, <2>5
<1>4. ASSUME NEW p \in Web,
             \/ Send(p) \/ Store(p) \/ \E c \in Codes : Verify(p, c)
             \/ Get(p) /\ stored = NoCode
             \/ Delete(p) \/ Count(p) \/ Lockout(p) \/ Crash(p)
      PROVE  TriesBounded'
  BY <1>2, <1>4 DEF Send, Store, Verify, Get, Delete, Count, Lockout, Crash
<1>5. CASE ExpireCode \/ ExpireAttempts \/ ExpireLock \/ UNCHANGED vars
  BY <1>2, <1>5 DEF ExpireCode, ExpireAttempts, ExpireLock, vars
<1> QED
  BY <1>3, <1>4, <1>5 DEF Next

-----------------------------------------------------------------------------
\* The invariant the two properties below follow from: it holds at first and
\* no Redis command, expiry or crash breaks it.
THEOREM OtpInvariance == Spec => []OtpInv
<1>1. OtpInv /\ [Next]_vars => OtpInv'
  BY TypeStep, OrderStep, DeadStep, CountedStep, BoundedStep DEF OtpInv
<1> QED
  BY InitOtpInv, <1>1, PTL DEF Spec

\* The keys of an actor and what its workers hold stay what send_otp and
\* verify_otp write there.
THEOREM CodesTyped == Spec => []TypeOK
<1>1. OtpInv => TypeOK
  BY DEF OtpInv
<1> QED
  BY OtpInvariance, <1>1, PTL

\* A code that was used, replaced, locked out or expired before verify_otp
\* began is not accepted by it.
THEOREM NoReplay == Spec => []DeadStaysDead
<1>1. OtpInv => DeadStaysDead
  BY DEF OtpInv
<1> QED
  BY OtpInvariance, <1>1, PTL

\* However its workers interleave, verify_otp compares no code more often than
\* the attempts allowed, the other workers and the crashes account for.
THEOREM GuessesBounded == Spec => []TriesBounded
<1>1. OtpInv => TriesBounded
  BY DEF OtpInv
<1> QED
  BY OtpInvariance, <1>1, PTL

-----------------------------------------------------------------------------
(***************************************************************************)
(* How far "single use" is off.  SingleUse fails because verify_otp reads  *)
(* and deletes in two commands; but whoever deletes the code first leaves  *)
(* nothing to read, so what may follow is in the workers' hands already.   *)
(***************************************************************************)
Accepting(i) == {p \in Web : pc[p] = "delete" /\ seen[p] = i}

AcceptedBounded == \A i \in Issues : accepted[i] <= Cardinality(Web)

AcceptedInv ==
  /\ \A i \in Issues : accepted[i] + Cardinality(Accepting(i)) <= Cardinality(Web)
  /\ stored # NoCode => accepted[issue] = 0
  /\ \A i \in Issues : i > issue => accepted[i] = 0

LEMMA AcceptingSets ==
  ASSUME NEW i
  PROVE  /\ Accepting(i) \subseteq Web /\ IsFiniteSet(Accepting(i))
         /\ Cardinality(Accepting(i)) \in Nat /\ Cardinality(Web) \in Nat
         /\ Cardinality(Accepting(i)) <= Cardinality(Web)
<1>1. Accepting(i) \subseteq Web
  BY DEF Accepting
<1> QED
  BY <1>1, WorkerSets, OtpAssumption, FS_Subset

LEMMA InitAccepted ==
  ASSUME Init
  PROVE  AcceptedInv
<1>1. \A i \in Issues : Accepting(i) = {}
  BY DEF Init, Accepting
<1>2. Cardinality({}) = 0 /\ Cardinality(Web) \in Nat
  BY FS_EmptySet, WorkerSets
<1>3. \A i \in Issues : accepted[i] = 0
  BY DEF Init
<1>4. stored = NoCode
  BY DEF Init
<1>5. \A i \in Issues : accepted[i] + Cardinality(Accepting(i)) <= Cardinality(Web)
  <2> SUFFICES ASSUME NEW i \in Issues
               PROVE  accepted[i] + Cardinality(Accepting(i)) <= Cardinality(Web)
    OBVIOUS
  <2>1. accepted[i] = 0 /\ Cardinality(Accepting(i)) = 0
    BY <1>1, <1>2, <1>3
  <2> QED
    BY <1>2, <2>1
<1> QED
  BY <1>3, <1>4, <1>5 DEF AcceptedInv

\* A step that lets nobody through and reads nothing changes no sum.
LEMMA AcceptsNothing ==
  ASSUME AcceptedInv, OtpInv, accepted' = accepted,
         \A i \in Issues : Accepting(i)' \subseteq Accepting(i)
  PROVE  \A i \in Issues : accepted'[i] + Cardinality(Accepting(i))' <= Cardinality(Web)
<1> SUFFICES ASSUME NEW i \in Issues
             PROVE  accepted'[i] + Cardinality(Accepting(i))' <= Cardinality(Web)
  OBVIOUS
<1>1. IsFiniteSet(Accepting(i)) /\ Accepting(i)' \subseteq Accepting(i)
  BY AcceptingSets
<1>2. /\ Cardinality(Accepting(i))' <= Cardinality(Accepting(i))
      /\ Cardinality(Accepting(i))' \in Nat
  BY <1>1, FS_Subset, FS_CardinalityType
<1>3. Cardinality(Accepting(i)) \in Nat /\ Cardinality(Web) \in Nat
  BY AcceptingSets
<1> QED
  BY <1>2, <1>3 DEF AcceptedInv, OtpInv, TypeOK

LEMMA AcceptedStep ==
  ASSUME OtpInv, AcceptedInv, [Next]_vars
  PROVE  AcceptedInv'
<1> USE OtpAssumption DEF OtpInv, TypeOK, redis, workers, history, Goto, Leave
<1>1. ASSUME NEW p \in Web, Get(p), stored # NoCode PROVE AcceptedInv'
  <2>1. /\ issue \in Issues /\ UNCHANGED <<stored, issue, accepted>>
        /\ seen' = [seen EXCEPT ![p] = issue]
        /\ pc' = [pc EXCEPT ![p] = pc'[p]]
    BY <1>1 DEF Get, IssuesInOrder, Issues
  <2>2. accepted[issue] = 0
    BY <1>1 DEF AcceptedInv
  <2>3. ASSUME NEW i \in Issues
        PROVE  accepted'[i] + Cardinality(Accepting(i))' <= Cardinality(Web)
    <3>1. CASE i = issue
      <4>1. Accepting(i)' \subseteq Web
        BY DEF Accepting
      <4>2. Cardinality(Accepting(i))' <= Cardinality(Web) /\ Cardinality(Accepting(i))' \in Nat
        BY <4>1, WorkerSets, FS_Subset
      <4> QED
        BY <2>1, <2>2, <3>1, <4>2
    <3>2. CASE i # issue
      <4>1. Accepting(i)' \subseteq Accepting(i)
        BY <2>1, <3>2 DEF Accepting
      <4>2. IsFiniteSet(Accepting(i)) /\ Cardinality(Accepting(i)) \in Nat /\ Cardinality(Web) \in Nat
        BY AcceptingSets
      <4>3. /\ Cardinality(Accepting(i))' <= Cardinality(Accepting(i))
            /\ Cardinality(Accepting(i))' \in Nat
        BY <4>1, <4>2, FS_Subset, FS_CardinalityType
      <4> QED
        BY <2>1, <4>2, <4>3 DEF AcceptedInv
    <3> QED
      BY <3>1, <3>2
  <2> QED
    BY <2>1, <2>2, <2>3 DEF AcceptedInv
<1>2. ASSUME NEW p \in Web, Delete(p) PROVE AcceptedInv'
  <2> DEFINE d == seen[p]
  <2>1. /\ d \in Issues /\ d <= issue /\ d \in Nat /\ issue \in Nat
        /\ stored' = NoCode /\ issue' = issue
        /\ accepted' = [accepted EXCEPT ![d] = accepted[d] + 1]
        /\ pc' = [pc EXCEPT ![p] = "idle"] /\ seen' = [seen EXCEPT ![p] = 0]
    BY <1>2 DEF Delete, IssuesInOrder, Issues
  <2>2. p \in Accepting(d)
    BY <1>2 DEF Delete, Accepting
  <2>3. ASSUME NEW i \in Issues
        PROVE  accepted'[i] + Cardinality(Accepting(i))' <= Cardinality(Web)
    <3>1. /\ Cardinality(Accepting(i)) \in Nat /\ Cardinality(Web) \in Nat
          /\ accepted[i] \in Nat
          /\ accepted[i] + Cardinality(Accepting(i)) <= Cardinality(Web)
      BY AcceptingSets DEF AcceptedInv
    <3>2. CASE i = d
      <4>1. Accepting(i)' = Accepting(i) \ {p} /\ Accepting(i) \subseteq Web /\ p \in Accepting(i)
        BY <2>1, <2>2, <3>2 DEF Accepting
      <4>2. Cardinality(Accepting(i))' = Cardinality(Accepting(i)) - 1
        BY <4>1, Leaving
      <4>3. accepted'[i] = accepted[i] + 1
        BY <2>1, <3>2
      <4> QED
        BY <3>1, <4>2, <4>3
    <3>3. CASE i # d
      <4>1. Accepting(i)' = Accepting(i) /\ accepted'[i] = accepted[i]
        BY <2>1, <3>3 DEF Accepting
      <4> QED
        BY <3>1, <4>1
    <3> QED
      BY <3>2, <3>3
  <2>4. \A i \in Issues : i > issue' => accepted'[i] = 0
    BY <2>1 DEF AcceptedInv, Issues
  <2> QED
    BY <2>1, <2>3, <2>4 DEF AcceptedInv
<1>3. ASSUME NEW p \in Web, Store(p) PROVE AcceptedInv'
  <2>1. \A i \in Issues : Accepting(i)' \subseteq Accepting(i)
    BY <1>3 DEF Store, Accepting
  <2>2. accepted' = accepted /\ issue' = issue + 1 /\ issue \in Nat
    BY <1>3 DEF Store, Issues
  <2>3. issue' \in Issues
    <3>1. Cardinality(Storing)' \in Nat
      <4>1. Storing' \subseteq Web
        BY DEF Storing
      <4> QED
        BY <4>1, WorkerSets
    <3> QED
      BY <2>2, <3>1, StoringStep DEF Issues
  <2>4. accepted'[issue'] = 0 /\ \A i \in Issues : i > issue' => accepted'[i] = 0
    BY <2>2, <2>3 DEF AcceptedInv, Issues
  <2>5. \A i \in Issues : accepted'[i] + Cardinality(Accepting(i))' <= Cardinality(Web)
    BY <2>1, <2>2, AcceptsNothing
  <2> QED
    BY <2>4, <2>5 DEF AcceptedInv
<1>4. ASSUME UNCHANGED <<issue, accepted>>, stored' # NoCode => stored # NoCode,
             \A i \in Issues : Accepting(i)' \subseteq Accepting(i)
      PROVE  AcceptedInv'
  <2>1. \A i \in Issues : accepted'[i] + Cardinality(Accepting(i))' <= Cardinality(Web)
    BY <1>4, AcceptsNothing
  <2> QED
    BY <1>4, <2>1 DEF AcceptedInv
<1>5. ASSUME NEW p \in Web,
             \/ Send(p) \/ \E c \in Codes : Verify(p, c)
             \/ Get(p) /\ stored = NoCode
             \/ Count(p) \/ Lockout(p) \/ Crash(p)
      PROVE  AcceptedInv'
  <2>1. UNCHANGED <<issue, accepted>> /\ (stored' # NoCode => stored # NoCode)
    BY <1>5 DEF Send, Verify, Get, Count, Lockout, Crash
  <2>2. \A i \in Issues : Accepting(i)' \subseteq Accepting(i)
    BY <1>5 DEF Send, Verify, Get, Count, Lockout, Crash, Accepting
  <2> QED
    BY <1>4, <2>1, <2>2
<1>6. CASE ExpireCode \/ ExpireAttempts \/ ExpireLock \/ UNCHANGED vars
  BY <1>4, <1>6 DEF ExpireCode, ExpireAttempts, ExpireLock, vars, Accepting
<1> QED
  BY <1>1, <1>2, <1>3, <1>5, <1>6 DEF Next

\* However verifications race for a code, it lets through one per worker at
\* most: verify_otp deletes the key before it returns, so a worker that has
\* accepted a code finds it gone the next time.
THEOREM AcceptancesBounded == Spec => []AcceptedBounded
<1>1. Init => AcceptedInv
  BY InitAccepted
<1>2. OtpInv /\ AcceptedInv /\ [Next]_vars => AcceptedInv'
  BY AcceptedStep
<1>3. OtpInv /\ AcceptedInv => AcceptedBounded
  BY AcceptingSets DEF OtpInv, TypeOK, AcceptedInv, AcceptedBounded
<1> QED
  BY <1>1, <1>2, <1>3, OtpInvariance, PTL DEF Spec
=============================================================================
