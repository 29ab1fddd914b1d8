---------------------------- MODULE LedgerProofs ----------------------------
(***************************************************************************)
(* Lemmas about books, for the modules that post to one, and about the     *)
(* sums of amounts that the specifications compare them with.              *)
(***************************************************************************)
EXTENDS Ledger, FiniteSetsExt, FiniteSetTheorems, WellFoundedInduction, TLAPS

\* The three figures of a book are integers.
LEMMA FigureTypes ==
  ASSUME NEW b \in Books, NEW w \in Wallets
  PROVE  /\ Balance(b, w) \in Int
         /\ Held(b, w) \in Int
         /\ Available(b, w) \in Int
  BY DEF Books, EntryTypes, Balance, Held, Available

\* Writing rows of a positive amount keeps a book a book.
LEMMA PostEntriesType ==
  ASSUME NEW b \in Books, NEW e, NEW a \in Nat
  PROVE  PostEntries(b, e, a) \in Books
  BY DEF PostEntries, Books

\* What the rows of one transaction do to the available balance.
LEMMA PostEntriesAvailable ==
  ASSUME NEW b \in Books, NEW e, NEW a \in Nat, NEW w \in Wallets
  PROVE  Available(PostEntries(b, e, a), w) =
           Available(b, w) + (IF <<w, "credit">> \in e THEN a ELSE 0)
                           - (IF <<w, "debit">> \in e THEN a ELSE 0)
                           - (IF <<w, "hold">> \in e THEN a ELSE 0)
                           + (IF <<w, "reversal">> \in e THEN a ELSE 0)
<1>1. \A t \in EntryTypes : PostEntries(b, e, a)[w][t] =
        b[w][t] + (IF <<w, t>> \in e THEN a ELSE 0)
  BY DEF PostEntries, Books, EntryTypes
<1>2. \A t \in EntryTypes : b[w][t] \in Nat
  BY DEF Books
<1> QED
  BY <1>1, <1>2 DEF Available, Balance, Held, EntryTypes

\* ... and to its two parts.
LEMMA PostEntriesBalance ==
  ASSUME NEW b \in Books, NEW e, NEW a \in Nat, NEW w \in Wallets
  PROVE  Balance(PostEntries(b, e, a), w) =
           Balance(b, w) + (IF <<w, "credit">> \in e THEN a ELSE 0)
                         - (IF <<w, "debit">> \in e THEN a ELSE 0)
<1>1. \A t \in EntryTypes : PostEntries(b, e, a)[w][t] =
        b[w][t] + (IF <<w, t>> \in e THEN a ELSE 0)
  BY DEF PostEntries, Books, EntryTypes
<1>2. \A t \in EntryTypes : b[w][t] \in Nat
  BY DEF Books
<1> QED
  BY <1>1, <1>2 DEF Balance, EntryTypes

LEMMA PostEntriesHeld ==
  ASSUME NEW b \in Books, NEW e, NEW a \in Nat, NEW w \in Wallets
  PROVE  Held(PostEntries(b, e, a), w) =
           Held(b, w) + (IF <<w, "hold">> \in e THEN a ELSE 0)
                      - (IF <<w, "reversal">> \in e THEN a ELSE 0)
<1>1. \A t \in EntryTypes : PostEntries(b, e, a)[w][t] =
        b[w][t] + (IF <<w, t>> \in e THEN a ELSE 0)
  BY DEF PostEntries, Books, EntryTypes
<1>2. \A t \in EntryTypes : b[w][t] \in Nat
  BY DEF Books
<1> QED
  BY <1>1, <1>2 DEF Held, EntryTypes

\* No rows, no change.
LEMMA PostNothing ==
  ASSUME NEW b \in Books, NEW a \in Nat
  PROVE  PostEntries(b, {}, a) = b
  BY DEF PostEntries, Books

-----------------------------------------------------------------------------
(***************************************************************************)
(* Sums over a finite set, as MapThenSumSet defines them: element by       *)
(* element, in the order in which CHOOSE comes upon them.  The lemmas say  *)
(* that the order does not matter.  Each is proved by induction on the     *)
(* set, in the form of a smallest set without the property.                *)
(***************************************************************************)
Any(s) == CHOOSE x \in s : TRUE

AddsUp(g, f, S) ==
  \A s \in SUBSET S :
    g[s] = IF s = {} THEN 0 ELSE f[Any(s)] + g[s \ {Any(s)}]

Recursion(g, f, S) ==
  [s \in SUBSET S |-> IF s = {} THEN 0 ELSE f[Any(s)] + g[s \ {Any(s)}]]

Sums(f, S) == CHOOSE g : g = Recursion(g, f, S)

Sum(f, S) == Sums(f, S)[S]

\* A family of subsets of a finite set has a smallest member.
LEMMA SmallestSet ==
  ASSUME NEW S, IsFiniteSet(S), NEW C, C \subseteq SUBSET S, C # {}
  PROVE  \E A \in C : \A B \in SUBSET A : B \in C => B = A
<1>1. IsWellFoundedOn(StrictSubsetOrdering(S), FiniteSubsetsOf(S))
  BY FS_StrictSubsetOrderingWellFounded
<1>2. C \subseteq FiniteSubsetsOf(S)
  BY FS_Subset DEF FiniteSubsetsOf
<1>3. PICK A \in C : \A B \in C : <<B, A>> \notin StrictSubsetOrdering(S)
  BY <1>1, <1>2, WFMin
<1>4. ASSUME NEW B \in SUBSET A, B \in C PROVE B = A
  BY <1>3, <1>4 DEF StrictSubsetOrdering
<1> QED
  BY <1>4

LEMMA AnyIn ==
  ASSUME NEW s, s # {}
  PROVE  Any(s) \in s
  BY DEF Any

\* The recursion has one solution, ...
LEMMA SumUnique ==
  ASSUME NEW S, IsFiniteSet(S), NEW f, NEW g, NEW h,
         AddsUp(g, f, S), AddsUp(h, f, S)
  PROVE  \A s \in SUBSET S : g[s] = h[s]
<1> DEFINE C == {s \in SUBSET S : g[s] # h[s]}
<1> SUFFICES ASSUME C # {} PROVE FALSE
  OBVIOUS
<1>1. PICK A \in C : \A B \in SUBSET A : B \in C => B = A
  <2>1. C \subseteq SUBSET S
    OBVIOUS
  <2> HIDE DEF C
  <2> QED
    BY <2>1, SmallestSet
<1>2. A # {}
  BY DEF AddsUp
<1>3. g[A \ {Any(A)}] = h[A \ {Any(A)}]
  BY <1>1, <1>2, AnyIn
<1>4. /\ g[A] = f[Any(A)] + g[A \ {Any(A)}]
      /\ h[A] = f[Any(A)] + h[A \ {Any(A)}]
  BY <1>1, <1>2 DEF AddsUp
<1> QED
  BY <1>1, <1>3, <1>4

\* ... and if the set is finite there is one.
LEMMA SumExists ==
  ASSUME NEW S, IsFiniteSet(S), NEW f
  PROVE  \E g : g = Recursion(g, f, S)
<1> DEFINE Solves(g, s) == g = Recursion(g, f, s)
           C == {s \in SUBSET S : ~ \E g : Solves(g, s)}
<1> SUFFICES ASSUME C # {} PROVE FALSE
  OBVIOUS
<1>1. PICK A \in C : \A B \in SUBSET A : B \in C => B = A
  <2>1. C \subseteq SUBSET S
    OBVIOUS
  <2> HIDE DEF C
  <2> QED
    BY <2>1, SmallestSet
<1>2. A \in SUBSET S /\ \A B \in SUBSET A : B # A => \E g : Solves(g, B)
  BY <1>1
<1> DEFINE part(B) == CHOOSE g : Solves(g, B)
           h == [s \in SUBSET A |->
                   IF s = {} THEN 0 ELSE f[Any(s)] + part(s \ {Any(s)})[s \ {Any(s)}]]
<1>3. \A B \in SUBSET A : B # A => AddsUp(part(B), f, B)
  <2>1. \A B \in SUBSET A : B # A => Solves(part(B), B)
    BY <1>2
  <2> HIDE DEF part
  <2> QED
    BY <2>1 DEF AddsUp, Recursion
<1> HIDE DEF part
<1>4. ASSUME NEW s \in SUBSET A, s # A PROVE h[s] = part(s)[s]
  <2>1. AddsUp(part(s), f, s)
    BY <1>3, <1>4
  <2>2. CASE s = {}
    BY <2>1, <2>2 DEF AddsUp
  <2>3. CASE s # {}
    <3> DEFINE r == s \ {Any(s)}
    <3>1. r \in SUBSET s /\ r \in SUBSET A /\ r # A /\ IsFiniteSet(r)
      BY <1>2, <1>4, <2>3, AnyIn, FS_Subset
    <3>2. part(s)[s] = f[Any(s)] + part(s)[r]
      BY <2>1, <2>3 DEF AddsUp
    <3>3. AddsUp(part(s), f, r) /\ AddsUp(part(r), f, r)
      BY <1>3, <2>1, <3>1 DEF AddsUp
    <3>4. part(s)[r] = part(r)[r]
      BY <3>1, <3>3, SumUnique
    <3> QED
      BY <2>3, <3>2, <3>4
  <2> QED
    BY <2>2, <2>3
<1>5. ASSUME NEW s \in SUBSET A
      PROVE  h[s] = IF s = {} THEN 0 ELSE f[Any(s)] + h[s \ {Any(s)}]
  <2>1. CASE s # {}
    <3>1. s \ {Any(s)} \in SUBSET A /\ s \ {Any(s)} # A
      BY <2>1, AnyIn
    <3>2. h[s \ {Any(s)}] = part(s \ {Any(s)})[s \ {Any(s)}]
      BY <1>4, <3>1
    <3> QED
      BY <2>1, <3>2
  <2> QED
    BY <2>1
<1>6. Solves(h, A)
  BY <1>5 DEF Recursion
<1> QED
  BY <1>1, <1>6

\* So a sum is what its recursion says.
LEMMA SumsAddUp ==
  ASSUME NEW S, IsFiniteSet(S), NEW f
  PROVE  AddsUp(Sums(f, S), f, S)
<1>1. Sums(f, S) = Recursion(Sums(f, S), f, S)
  BY SumExists DEF Sums
<1> QED
  BY <1>1 DEF AddsUp, Recursion

LEMMA SumEmpty ==
  ASSUME NEW f
  PROVE  Sum(f, {}) = 0
<1>1. AddsUp(Sums(f, {}), f, {})
  BY SumsAddUp, FS_EmptySet
<1> QED
  BY <1>1 DEF Sum, AddsUp

LEMMA SumStep ==
  ASSUME NEW S, IsFiniteSet(S), S # {}, NEW f
  PROVE  Sum(f, S) = f[Any(S)] + Sum(f, S \ {Any(S)})
<1> DEFINE T == S \ {Any(S)}
<1>1. IsFiniteSet(T) /\ T \in SUBSET S
  BY FS_Subset
<1>2. AddsUp(Sums(f, S), f, S) /\ AddsUp(Sums(f, T), f, T)
  BY <1>1, SumsAddUp
<1>3. Sums(f, S)[S] = f[Any(S)] + Sums(f, S)[T]
  BY <1>2 DEF AddsUp
<1>4. AddsUp(Sums(f, S), f, T)
  BY <1>1, <1>2 DEF AddsUp
<1>5. Sums(f, S)[T] = Sums(f, T)[T]
  BY <1>1, <1>2, <1>4, SumUnique
<1> QED
  BY <1>3, <1>5 DEF Sum

LEMMA SumType ==
  ASSUME NEW S, IsFiniteSet(S), NEW f, \A x \in S : f[x] \in Int
  PROVE  Sum(f, S) \in Int
<1> DEFINE C == {s \in SUBSET S : Sum(f, s) \notin Int}
<1> SUFFICES ASSUME C # {} PROVE FALSE
  OBVIOUS
<1>1. PICK A \in C : \A B \in SUBSET A : B \in C => B = A
  <2>1. C \subseteq SUBSET S
    OBVIOUS
  <2> HIDE DEF C
  <2> QED
    BY <2>1, SmallestSet
<1>2. A \in SUBSET S /\ IsFiniteSet(A) /\ Sum(f, A) \notin Int
  BY <1>1, FS_Subset
<1> HIDE DEF C
<1>5. A # {}
  BY <1>2, SumEmpty
<1>3. Sum(f, A) = f[Any(A)] + Sum(f, A \ {Any(A)}) /\ Any(A) \in A
  BY <1>2, <1>5, SumStep, AnyIn
<1>4. Sum(f, A \ {Any(A)}) \in Int
  <2>1. A \ {Any(A)} \notin C
    BY <1>1, <1>3
  <2> QED
    BY <1>2, <2>1 DEF C
<1> QED
  BY <1>2, <1>3, <1>4

\* Amounts that are no debts add up to none.
LEMMA SumNatural ==
  ASSUME NEW S, IsFiniteSet(S), NEW f, \A x \in S : f[x] \in Nat
  PROVE  Sum(f, S) \in Nat
<1> DEFINE C == {s \in SUBSET S : Sum(f, s) \notin Nat}
<1> SUFFICES ASSUME C # {} PROVE FALSE
  OBVIOUS
<1>1. PICK A \in C : \A B \in SUBSET A : B \in C => B = A
  <2>1. C \subseteq SUBSET S
    OBVIOUS
  <2> HIDE DEF C
  <2> QED
    BY <2>1, SmallestSet
<1>2. A \in SUBSET S /\ IsFiniteSet(A) /\ Sum(f, A) \notin Nat
  BY <1>1, FS_Subset
<1> HIDE DEF C
<1>3. A # {}
  BY <1>2, SumEmpty
<1>4. Sum(f, A) = f[Any(A)] + Sum(f, A \ {Any(A)}) /\ Any(A) \in A
  BY <1>2, <1>3, SumStep, AnyIn
<1>5. Sum(f, A \ {Any(A)}) \in Nat
  <2>1. A \ {Any(A)} \notin C
    BY <1>1, <1>4
  <2> QED
    BY <1>2, <2>1 DEF C
<1> QED
  BY <1>2, <1>4, <1>5

\* Any element may be taken out first.
LEMMA SumRemove ==
  ASSUME NEW S, IsFiniteSet(S), NEW f, \A y \in S : f[y] \in Int, NEW x \in S
  PROVE  Sum(f, S) = f[x] + Sum(f, S \ {x})
<1> DEFINE Holds(s, y) == Sum(f, s) = f[y] + Sum(f, s \ {y})
           C == {s \in SUBSET S : \E y \in s : ~Holds(s, y)}
<1> SUFFICES ASSUME C # {} PROVE FALSE
  OBVIOUS
<1>1. PICK A \in C : \A B \in SUBSET A : B \in C => B = A
  <2>1. C \subseteq SUBSET S
    OBVIOUS
  <2> HIDE DEF C
  <2> QED
    BY <2>1, SmallestSet
<1>2. PICK z \in A : ~Holds(A, z)
  BY <1>1
<1>3. A \in SUBSET S /\ IsFiniteSet(A) /\ A # {}
  BY <1>1, <1>2, FS_Subset
<1>4. \A B \in SUBSET A : B # A => \A y \in B : Holds(B, y)
  BY <1>1
<1> DEFINE y == Any(A)
<1>5. y \in A /\ Holds(A, y)
  BY <1>3, SumStep, AnyIn
<1> HIDE DEF C, y
<1>6. y # z
  BY <1>2, <1>5
<1>7. Sum(f, A \ {y}) = f[z] + Sum(f, (A \ {y}) \ {z})
  BY <1>2, <1>4, <1>5, <1>6
<1>8. Sum(f, A \ {z}) = f[y] + Sum(f, (A \ {z}) \ {y})
  BY <1>2, <1>4, <1>5, <1>6
<1>9. (A \ {y}) \ {z} = (A \ {z}) \ {y}
  OBVIOUS
<1>10. Sum(f, (A \ {z}) \ {y}) \in Int /\ f[y] \in Int /\ f[z] \in Int
  <2>1. IsFiniteSet((A \ {z}) \ {y}) /\ (A \ {z}) \ {y} \subseteq S
    BY <1>3, FS_Subset
  <2> QED
    BY <1>2, <1>3, <1>5, <2>1, SumType
<1>11. Sum(f, A) = f[z] + Sum(f, A \ {z})
  <2> DEFINE rest == Sum(f, (A \ {z}) \ {y})
  <2>1. Sum(f, A) = f[y] + (f[z] + rest)
    BY <1>5, <1>7, <1>9
  <2>2. Sum(f, A \ {z}) = f[y] + rest
    BY <1>8
  <2> HIDE DEF rest
  <2> QED
    BY <2>1, <2>2, <1>10 DEF rest
<1> QED
  BY <1>2, <1>11

\* What a new element adds, ...
LEMMA SumInsert ==
  ASSUME NEW S, IsFiniteSet(S), NEW x, x \notin S, NEW f,
         \A y \in S \cup {x} : f[y] \in Int
  PROVE  Sum(f, S \cup {x}) = Sum(f, S) + f[x]
<1>1. IsFiniteSet(S \cup {x})
  BY FS_AddElement
<1>2. Sum(f, S \cup {x}) = f[x] + Sum(f, (S \cup {x}) \ {x})
  BY <1>1, SumRemove
<1>3. (S \cup {x}) \ {x} = S
  OBVIOUS
<1>4. Sum(f, S) \in Int /\ f[x] \in Int
  BY SumType
<1>5. Sum(f, S \cup {x}) = f[x] + Sum(f, S)
  BY <1>2, <1>3
<1> QED
  BY <1>4, <1>5

\* ... and that only the elements of the set count.
LEMMA SumSame ==
  ASSUME NEW S, NEW f, NEW g, \A x \in S : f[x] = g[x]
  PROVE  Sum(f, S) = Sum(g, S)
<1>1. \A s \in SUBSET S : s # {} => f[Any(s)] = g[Any(s)]
  BY AnyIn
<1>2. \A h : Recursion(h, f, S) = Recursion(h, g, S)
  BY <1>1 DEF Recursion
<1> QED
  BY <1>2 DEF Sum, Sums

\* A sum changes by what one of its terms does, ...
LEMMA SumChange ==
  ASSUME NEW S, IsFiniteSet(S), NEW f, NEW g, NEW x \in S, NEW d \in Int,
         \A y \in S : f[y] \in Int /\ g[y] \in Int,
         \A y \in S : y # x => g[y] = f[y],
         g[x] = f[x] + d
  PROVE  Sum(g, S) = Sum(f, S) + d
<1>1. Sum(f, S) = f[x] + Sum(f, S \ {x}) /\ Sum(g, S) = g[x] + Sum(g, S \ {x})
  BY SumRemove
<1>2. Sum(g, S \ {x}) = Sum(f, S \ {x})
  BY SumSame
<1>3. Sum(f, S \ {x}) \in Int
  BY FS_Subset, SumType
<1> QED
  BY <1>1, <1>2, <1>3

\* ... and not at all if what one gains is what another loses.
LEMMA SumMoved ==
  ASSUME NEW S, IsFiniteSet(S), NEW f, NEW g, NEW x \in S, NEW z \in S, NEW d \in Int,
         \A y \in S : f[y] \in Int /\ g[y] \in Int,
         \A y \in S : y # x /\ y # z => g[y] = f[y],
         x # z, g[x] = f[x] - d, g[z] = f[z] + d
  PROVE  Sum(g, S) = Sum(f, S)
<1> DEFINE h == [y \in S |-> IF y = x THEN g[x] ELSE f[y]]
<1>1. /\ \A y \in S : h[y] \in Int
      /\ \A y \in S : y # x => h[y] = f[y]
      /\ \A y \in S : y # z => g[y] = h[y]
      /\ h[x] = f[x] + (-d) /\ g[z] = h[z] + d /\ -d \in Int
  OBVIOUS
<1> HIDE DEF h
<1>2. Sum(h, S) = Sum(f, S) + (-d)
  BY <1>1, SumChange
<1>3. Sum(g, S) = Sum(h, S) + d
  BY <1>1, SumChange
<1>4. Sum(f, S) \in Int
  BY SumType
<1> QED
  BY <1>2, <1>3, <1>4

\* The sums of the specifications are of this kind.
LEMMA SumOf ==
  ASSUME NEW S, NEW f
  PROVE  MapThenSumSet(LAMBDA x : f[x], S) = Sum(f, S)
  BY DEF MapThenSumSet, MapThenFoldSet, Sum, Sums, Recursion, Any
=============================================================================
