------------------------- MODULE BuyerViews_proofs -------------------------
(***************************************************************************)
(* What buyers are shown of the catalogue, for every value of the          *)
(* constants: the premium carousel and the page it is read for, the home   *)
(* screen and its sections, and the pages of a search.  First what is      *)
(* needed of finite sets, and of elements in an order, here and in         *)
(* MCCatalogue_proofs, which puts the parts together.                      *)
(***************************************************************************)
EXTENDS MCCatalogue, Sequences, FiniteSetTheorems, WellFoundedInduction, TLAPS

-----------------------------------------------------------------------------
(***************************************************************************)
(* Counting and ranking.                                                   *)
(***************************************************************************)
\* What taking an element out or putting one in does to a set of calls.
LEMMA Counts ==
  ASSUME NEW C, IsFiniteSet(C), NEW S \in SUBSET C
  PROVE  /\ IsFiniteSet(S) /\ Cardinality(C) \in Nat /\ Cardinality(S) \in Nat
         /\ Cardinality(S) <= Cardinality(C)
         /\ S # C => Cardinality(S) < Cardinality(C)
         /\ \A T \in SUBSET S : Cardinality(T) <= Cardinality(S)
         /\ \A x \in S : Cardinality(S \ {x}) = Cardinality(S) - 1
         /\ \A x \in C \ S : Cardinality(S \cup {x}) = Cardinality(S) + 1
<1>1. IsFiniteSet(S) /\ Cardinality(C) \in Nat /\ Cardinality(S) \in Nat
  BY FS_Subset, FS_CardinalityType
<1>2. /\ Cardinality(S) <= Cardinality(C)
      /\ S # C => Cardinality(S) < Cardinality(C)
  BY <1>1, FS_Subset
<1>3. \A T \in SUBSET S : Cardinality(T) <= Cardinality(S)
  BY <1>1, FS_Subset
<1>4. \A x \in S : Cardinality(S \ {x}) = Cardinality(S) - 1
  BY <1>1, FS_RemoveElement
<1>5. \A x \in C \ S : Cardinality(S \cup {x}) = Cardinality(S) + 1
  BY <1>1, FS_AddElement
<1>6. QED
  BY <1>1, <1>2, <1>3, <1>4, <1>5

\* Sets without a common element.
LEMMA Disjoint ==
  ASSUME NEW S, NEW T, IsFiniteSet(S), IsFiniteSet(T), S \cap T = {}
  PROVE  IsFiniteSet(S \cup T) /\ Cardinality(S \cup T) = Cardinality(S) + Cardinality(T)
<1>1. /\ IsFiniteSet(S \cup T)
      /\ Cardinality(S \cup T) = Cardinality(S) + Cardinality(T) - Cardinality(S \cap T)
  BY FS_Union
<1>2. Cardinality(S) \in Nat /\ Cardinality(T) \in Nat /\ Cardinality(S \cap T) = 0
  BY FS_CardinalityType, FS_EmptySet
<1>3. QED
  BY <1>1, <1>2

\* A set of numbers has a least one ...
LEMMA Least ==
  ASSUME NEW S \in SUBSET Nat, S # {}
  PROVE  \E m \in S : \A x \in S : m <= x
<1>1. \A m \in S : 0..m \in FiniteSubsetsOf(Nat)
  BY FS_Interval DEF FiniteSubsetsOf
<1>2. {0..m : m \in S} \subseteq FiniteSubsetsOf(Nat) /\ {0..m : m \in S} # {}
  BY <1>1, Zenon
<1>3. \E U \in {0..m : m \in S} : \A V \in {0..m : m \in S} :
        ~(<<V, U>> \in StrictSubsetOrdering(Nat))
  BY <1>2, FS_StrictSubsetOrderingWellFounded, WFMin
<1>4. PICK m \in S : \A x \in S : ~(<<0..x, 0..m>> \in StrictSubsetOrdering(Nat))
  BY <1>3
<1>5. ASSUME NEW x \in S, x < m PROVE FALSE
  <2>1. 0..x \subseteq 0..m /\ m \in 0..m /\ m \notin 0..x
    BY <1>5
  <2>2. <<0..x, 0..m>> \in StrictSubsetOrdering(Nat)
    BY <2>1 DEF StrictSubsetOrdering
  <2>3. QED
    BY <1>4, <2>2
<1>6. QED
  BY <1>5

\* ... and if it is bounded a greatest.
LEMMA Greatest ==
  ASSUME NEW h \in Int, NEW S \in SUBSET Int, S # {}, \A x \in S : x <= h
  PROVE  \E m \in S : \A x \in S : x <= m
<1>1. PICK s \in S : s <= h
  OBVIOUS
<1>2. h - s \in {n \in Nat : h - n \in S}
  BY <1>1
<1>3. PICK k \in Nat : h - k \in S /\ \A y \in {n \in Nat : h - n \in S} : k <= y
  BY <1>2, Least
<1>4. ASSUME NEW x \in S PROVE x <= h - k
  BY <1>3
<1>5. QED
  BY <1>3, <1>4

\* As many values as places at most.
LEMMA Images ==
  ASSUME NEW S, IsFiniteSet(S), NEW g
  PROVE  IsFiniteSet({g[x] : x \in S}) /\ Cardinality({g[x] : x \in S}) <= Cardinality(S)
<1> DEFINE T == {g[x] : x \in S}
           h == [x \in S |-> g[x]]
<1>1. h \in Surjection(S, T)
  <2>1. h \in [S -> T]
    OBVIOUS
  <2>2. ASSUME NEW t \in T PROVE \E x \in S : h[x] = t
    OBVIOUS
  <2>3. QED
    BY <2>1, <2>2 DEF Surjection
<1> HIDE DEF T, h
<1>2. IsFiniteSet(T) /\ Cardinality(T) <= Cardinality(S)
  BY <1>1, FS_Surjection
<1>3. QED
  BY <1>2 DEF T

\* Different values at different places.
LEMMA Distinct ==
  ASSUME NEW S, IsFiniteSet(S), NEW g,
         \A x, y \in S : x # y => g[x] # g[y]
  PROVE  IsFiniteSet({g[x] : x \in S}) /\ Cardinality({g[x] : x \in S}) = Cardinality(S)
<1> DEFINE T == {g[x] : x \in S}
           h == [x \in S |-> g[x]]
<1>1. h \in Surjection(S, T)
  <2>1. h \in [S -> T]
    OBVIOUS
  <2>2. ASSUME NEW t \in T PROVE \E x \in S : h[x] = t
    OBVIOUS
  <2>3. QED
    BY <2>1, <2>2 DEF Surjection
<1>2. h \in Injection(S, T)
  <2>1. h \in [S -> T]
    OBVIOUS
  <2>2. \A x, y \in S : h[x] = h[y] => x = y
    OBVIOUS
  <2>3. QED
    BY <2>1, <2>2 DEF Injection, IsInjective
<1> HIDE DEF T, h
<1>3. IsFiniteSet(T) /\ Cardinality(T) = Cardinality(S)
  BY <1>1, <1>2, FS_Surjection
<1>4. QED
  BY <1>3 DEF T

\* The first n places.
LEMMA UpTo ==
  ASSUME NEW n \in Nat
  PROVE  /\ IsFiniteSet(1..n) /\ Cardinality(1..n) = n
         /\ IsFiniteSet(0..(n - 1)) /\ Cardinality(0..(n - 1)) = n
<1>1. IsFiniteSet(1..n) /\ Cardinality(1..n) = n
  BY FS_Interval
<1>2. PICK k \in Int : k = n - 1
  OBVIOUS
<1>3. IsFiniteSet(0..k) /\ Cardinality(0..k) = IF 0 > k THEN 0 ELSE k - 0 + 1
  BY FS_Interval
<1>4. Cardinality(0..k) = n
  BY <1>2, <1>3
<1>5. QED
  BY <1>1, <1>2, <1>3, <1>4

\* The rank of an element of P in the order R is the number of those before it.
Before(P, R, x) == {y \in P : <<y, x>> \in R}
StrictOrder(P, R) ==
  /\ \A x \in P : <<x, x>> \notin R
  /\ \A x, y, z \in P : <<x, y>> \in R /\ <<y, z>> \in R => <<x, z>> \in R
  /\ \A x, y \in P : x # y => <<x, y>> \in R \/ <<y, x>> \in R

LEMMA Rank ==
  ASSUME NEW P, IsFiniteSet(P), NEW R, StrictOrder(P, R), NEW x \in P
  PROVE  /\ Before(P, R, x) \in SUBSET P /\ IsFiniteSet(Before(P, R, x))
         /\ Cardinality(Before(P, R, x)) \in Nat
         /\ Cardinality(Before(P, R, x)) < Cardinality(P)
<1>1. Before(P, R, x) \in SUBSET P /\ x \notin Before(P, R, x)
  BY DEF Before, StrictOrder
<1>2. IsFiniteSet(Before(P, R, x)) /\ Cardinality(Before(P, R, x)) \in Nat
  BY <1>1, Counts
<1>3. Before(P, R, x) # P
  BY <1>1
<1>4. Cardinality(Before(P, R, x)) < Cardinality(P)
  BY <1>1, <1>3, Counts
<1>5. QED
  BY <1>1, <1>2, <1>4

LEMMA RankGrows ==
  ASSUME NEW P, IsFiniteSet(P), NEW R, StrictOrder(P, R), NEW x \in P, NEW y \in P,
         <<x, y>> \in R
  PROVE  Cardinality(Before(P, R, x)) < Cardinality(Before(P, R, y))
<1>1. Before(P, R, x) \in SUBSET Before(P, R, y)
  BY DEF Before, StrictOrder
<1>2. x \in Before(P, R, y) /\ x \notin Before(P, R, x)
  BY DEF Before, StrictOrder
<1>3. IsFiniteSet(Before(P, R, y))
  BY Rank
<1>4. QED
  BY <1>1, <1>2, <1>3, Counts

LEMMA RankApart ==
  ASSUME NEW P, IsFiniteSet(P), NEW R, StrictOrder(P, R), NEW x \in P, NEW y \in P,
         Cardinality(Before(P, R, x)) = Cardinality(Before(P, R, y))
  PROVE  x = y
<1>1. Cardinality(Before(P, R, x)) \in Int
  BY Rank
<1>2. PICK m \in Int : m = Cardinality(Before(P, R, x)) /\ m = Cardinality(Before(P, R, y))
  BY <1>1
<1>3. <<x, y>> \in R => Cardinality(Before(P, R, x)) < Cardinality(Before(P, R, y))
  BY RankGrows
<1>4. <<y, x>> \in R => Cardinality(Before(P, R, y)) < Cardinality(Before(P, R, x))
  BY RankGrows
<1>5. <<x, y>> \notin R /\ <<y, x>> \notin R
  BY <1>2, <1>3, <1>4
<1>6. QED
  BY <1>5 DEF StrictOrder

\* Every rank is somebody's.
LEMMA RankTaken ==
  ASSUME NEW P, IsFiniteSet(P), NEW R, StrictOrder(P, R), NEW n \in 0..(Cardinality(P) - 1)
  PROVE  \E x \in P : Cardinality(Before(P, R, x)) = n
<1> DEFINE rank == [x \in P |-> Cardinality(Before(P, R, x))]
           T == 0..(Cardinality(P) - 1)
<1>1. rank \in Injection(P, T)
  <2>1. rank \in [P -> T]
    <3>1. Cardinality(P) \in Nat
      BY Counts
    <3>2. ASSUME NEW x \in P PROVE Cardinality(Before(P, R, x)) \in T
      BY <3>1, Rank
    <3>3. QED
      BY <3>2
  <2>2. \A x, y \in P : rank[x] = rank[y] => x = y
    <3>1. ASSUME NEW x \in P, NEW y \in P, rank[x] = rank[y] PROVE x = y
      <4>1. Cardinality(Before(P, R, x)) = Cardinality(Before(P, R, y))
        BY <3>1
      <4> HIDE DEF rank, T
      <4>2. QED
        BY <4>1, RankApart
    <3>2. QED
      BY <3>1
  <2>3. QED
    BY <2>1, <2>2 DEF Injection, IsInjective
<1>2. Cardinality(P) \in Nat
  BY Counts
<1>3. IsFiniteSet(T) /\ Cardinality(T) = Cardinality(P)
  BY <1>2, UpTo
<1> HIDE DEF T, rank
<1>4. rank \in Surjection(P, T)
  BY <1>1, <1>3, FS_Injection
<1>5. \E x \in P : rank[x] = n
  BY <1>4 DEF Surjection, T
<1>6. QED
  BY <1>5 DEF rank

\* Every part counts alike.
LEMMA SameCounts ==
  ASSUME NEW S
  PROVE  /\ Media!IsFiniteSet(S) <=> IsFiniteSet(S)
         /\ Media!Cardinality(S) = Cardinality(S)
         /\ Pins!IsFiniteSet(S) <=> IsFiniteSet(S)
         /\ Pins!Cardinality(S) = Cardinality(S)
         /\ Pool!IsFiniteSet(S) <=> IsFiniteSet(S)
         /\ Pool!Cardinality(S) = Cardinality(S)
         /\ Turns!IsFiniteSet(S) <=> IsFiniteSet(S)
         /\ Turns!Cardinality(S) = Cardinality(S)
         /\ Front!IsFiniteSet(S) <=> IsFiniteSet(S)
         /\ Front!Cardinality(S) = Cardinality(S)
         /\ Feed!IsFiniteSet(S) <=> IsFiniteSet(S)
         /\ Feed!Cardinality(S) = Cardinality(S)
         /\ Sections!IsFiniteSet(S) <=> IsFiniteSet(S)
         /\ Sections!Cardinality(S) = Cardinality(S)
         /\ Finder!IsFiniteSet(S) <=> IsFiniteSet(S)
         /\ Finder!Cardinality(S) = Cardinality(S)
<1>1. Media!IsFiniteSet(S) <=> IsFiniteSet(S)
  BY Zenon DEF Media!IsFiniteSet, IsFiniteSet
<1>2. Media!Cardinality(S) = Cardinality(S)
  BY Zenon DEF Media!Cardinality, Cardinality
<1>3. Pins!IsFiniteSet(S) <=> IsFiniteSet(S)
  BY Zenon DEF Pins!IsFiniteSet, IsFiniteSet
<1>4. Pins!Cardinality(S) = Cardinality(S)
  BY Zenon DEF Pins!Cardinality, Cardinality
<1>5. Pool!IsFiniteSet(S) <=> IsFiniteSet(S)
  BY Zenon DEF Pool!IsFiniteSet, IsFiniteSet
<1>6. Pool!Cardinality(S) = Cardinality(S)
  BY Zenon DEF Pool!Cardinality, Cardinality
<1>7. Turns!IsFiniteSet(S) <=> IsFiniteSet(S)
  BY Zenon DEF Turns!IsFiniteSet, IsFiniteSet
<1>8. Turns!Cardinality(S) = Cardinality(S)
  BY Zenon DEF Turns!Cardinality, Cardinality
<1>9. Front!IsFiniteSet(S) <=> IsFiniteSet(S)
  BY Zenon DEF Front!IsFiniteSet, IsFiniteSet
<1>10. Front!Cardinality(S) = Cardinality(S)
  BY Zenon DEF Front!Cardinality, Cardinality
<1>11. Feed!IsFiniteSet(S) <=> IsFiniteSet(S)
  BY Zenon DEF Feed!IsFiniteSet, IsFiniteSet
<1>12. Feed!Cardinality(S) = Cardinality(S)
  BY Zenon DEF Feed!Cardinality, Cardinality
<1>13. Sections!IsFiniteSet(S) <=> IsFiniteSet(S)
  BY Zenon DEF Sections!IsFiniteSet, IsFiniteSet
<1>14. Sections!Cardinality(S) = Cardinality(S)
  BY Zenon DEF Sections!Cardinality, Cardinality
<1>15. Finder!IsFiniteSet(S) <=> IsFiniteSet(S)
  BY Zenon DEF Finder!IsFiniteSet, IsFiniteSet
<1>16. Finder!Cardinality(S) = Cardinality(S)
  BY Zenon DEF Finder!Cardinality, Cardinality
<1>17. QED
  BY <1>1, <1>2, <1>3, <1>4, <1>5, <1>6, <1>7, <1>8, <1>9, <1>10, <1>11, <1>12, <1>13, <1>14, <1>15, <1>16

RankedIn(P, R, n) == CHOOSE x \in P : Cardinality(Before(P, R, x)) = n - 1
NthOf(P, n) == CHOOSE i \in P : Cardinality({j \in P : j <= i}) = n

\* The elements of P in the order R.
LEMMA Ranked ==
  ASSUME NEW P, IsFiniteSet(P), NEW R, StrictOrder(P, R), NEW f,
         \A n \in 1..Cardinality(P) : f[n] = RankedIn(P, R, n)
  PROVE  /\ Cardinality(P) \in Nat
         /\ \A n \in 1..Cardinality(P) : f[n] \in P
         /\ \A x \in P : \E n \in 1..Cardinality(P) : f[n] = x
         /\ \A m, n \in 1..Cardinality(P) : m < n => <<f[m], f[n]>> \in R
         /\ \A m, n \in 1..Cardinality(P) : <<f[m], f[n]>> \in R => m < n
         /\ \A m, n \in 1..Cardinality(P) : m # n => f[m] # f[n]
<1> DEFINE rank(x) == Cardinality(Before(P, R, x))
<1>0. PICK N \in Nat : N = Cardinality(P)
  BY Counts
<1>1. ASSUME NEW n \in 1..N PROVE f[n] \in P /\ rank(f[n]) = n - 1
  <2>1. n - 1 \in 0..(N - 1)
    BY <1>1
  <2>2. \E x \in P : rank(x) = n - 1
    BY <1>0, <2>1, RankTaken
  <2>3. f[n] = CHOOSE x \in P : rank(x) = n - 1
    BY <1>0, <1>1 DEF RankedIn
  <2> HIDE DEF rank
  <2>4. QED
    BY <2>2, <2>3
<1>2. ASSUME NEW x \in P PROVE \E n \in 1..N : f[n] = x
  <2>1. PICK k \in Nat : k = rank(x) /\ k < N
    BY <1>0, Rank
  <2>2. PICK n \in 1..N : n = k + 1 /\ n - 1 = k
    BY <2>1
  <2>3. f[n] \in P /\ rank(f[n]) = rank(x)
    BY <1>1, <2>1, <2>2
  <2>4. f[n] = x
    BY <2>3, RankApart
  <2>5. QED
    BY <2>4
<1>3. ASSUME NEW m \in 1..N, NEW n \in 1..N, m # n PROVE f[m] # f[n]
  <2>1. rank(f[m]) = m - 1 /\ rank(f[n]) = n - 1
    BY <1>1
  <2>2. m - 1 # n - 1
    BY <1>3
  <2>3. QED
    BY <2>1, <2>2
<1>4. ASSUME NEW m \in 1..N, NEW n \in 1..N, <<f[m], f[n]>> \in R PROVE m < n
  <2>1. f[m] \in P /\ f[n] \in P /\ rank(f[m]) = m - 1 /\ rank(f[n]) = n - 1
    BY <1>1
  <2>2. rank(f[m]) < rank(f[n])
    BY <1>4, <2>1, RankGrows
  <2>3. m - 1 < n - 1
    BY <2>1, <2>2
  <2>4. QED
    BY <2>3
<1>5. ASSUME NEW m \in 1..N, NEW n \in 1..N, m < n PROVE <<f[m], f[n]>> \in R
  <2>1. f[m] \in P /\ f[n] \in P /\ f[m] # f[n]
    BY <1>1, <1>3, <1>5
  <2>2. ~(n < m)
    BY <1>5
  <2>3. <<f[n], f[m]>> \notin R
    BY <1>4, <2>2
  <2>4. QED
    BY <2>1, <2>3 DEF StrictOrder
<1> HIDE DEF rank
<1>6. QED
  BY <1>0, <1>1, <1>2, <1>3, <1>4, <1>5

\* Numbers in their order.
LEMMA Nth ==
  ASSUME NEW P \in SUBSET Int, IsFiniteSet(P), NEW f,
         \A n \in 1..Cardinality(P) : f[n] = NthOf(P, n)
  PROVE  /\ Cardinality(P) \in Nat
         /\ \A n \in 1..Cardinality(P) : f[n] \in P
         /\ \A x \in P : \E n \in 1..Cardinality(P) : f[n] = x
         /\ \A m, n \in 1..Cardinality(P) : m < n => f[m] < f[n]
         /\ \A m, n \in 1..Cardinality(P) : m # n => f[m] # f[n]
<1> DEFINE R == {p \in P \X P : p[1] < p[2]}
<1>1. StrictOrder(P, R)
  <2>1. \A x \in P : <<x, x>> \notin R
    OBVIOUS
  <2>2. \A x, y, z \in P : <<x, y>> \in R /\ <<y, z>> \in R => <<x, z>> \in R
    OBVIOUS
  <2>3. \A x, y \in P : x # y => <<x, y>> \in R \/ <<y, x>> \in R
    OBVIOUS
  <2>4. QED
    BY <2>1, <2>2, <2>3 DEF StrictOrder
<1>2. ASSUME NEW i \in P
      PROVE  /\ Cardinality(Before(P, R, i)) \in Nat
             /\ Cardinality({j \in P : j <= i}) = Cardinality(Before(P, R, i)) + 1
  <2>1. Before(P, R, i) = {j \in P : j < i}
    BY DEF Before
  <2> DEFINE L == {j \in P : j < i}
  <2>5. \A j \in P : j <= i <=> j < i \/ j = i
    OBVIOUS
  <2>6. {j \in P : j <= i} = L \cup {i}
    BY <2>5, Zenon
  <2>7. i \in P \ L /\ L \in SUBSET P
    OBVIOUS
  <2>2. {j \in P : j <= i} = L \cup {i} /\ i \in P \ L /\ L \in SUBSET P
    BY <2>6, <2>7
  <2> HIDE DEF L
  <2>4. Cardinality(L) \in Nat /\ Cardinality(L \cup {i}) = Cardinality(L) + 1
    BY <2>2, Counts
  <2>3. QED
    BY <2>1, <2>2, <2>4 DEF L
<1>3. \A n \in 1..Cardinality(P) : f[n] = RankedIn(P, R, n)
  <2> SUFFICES ASSUME NEW n \in 1..Cardinality(P) PROVE NthOf(P, n) = RankedIn(P, R, n)
    BY Zenon
  <2>1. n \in Int
    OBVIOUS
  <2>2. ASSUME NEW x \in P
        PROVE  Cardinality({j \in P : j <= x}) = n <=> Cardinality(Before(P, R, x)) = n - 1
    <3> HIDE DEF R
    <3>1. PICK k \in Nat : k = Cardinality(Before(P, R, x)) /\ Cardinality({j \in P : j <= x}) = k + 1
      BY <1>2
    <3>2. k + 1 = n <=> k = n - 1
      BY <2>1
    <3>3. QED
      BY <3>1, <3>2, Zenon
  <2> HIDE DEF R
  <2>3. QED
    BY <2>2, Zenon DEF NthOf, RankedIn
<1>4. \A x, y \in P : <<x, y>> \in R <=> x < y
  OBVIOUS
<1> HIDE DEF R
<1>5. /\ Cardinality(P) \in Nat
      /\ \A n \in 1..Cardinality(P) : f[n] \in P
      /\ \A x \in P : \E n \in 1..Cardinality(P) : f[n] = x
      /\ \A m, n \in 1..Cardinality(P) : m < n => <<f[m], f[n]>> \in R
      /\ \A m, n \in 1..Cardinality(P) : m # n => f[m] # f[n]
  BY <1>1, <1>3, Ranked
<1>6. QED
  BY <1>4, <1>5

\* All of them are where they were.
LEMMA NthOfAll ==
  ASSUME NEW N \in Nat, NEW n \in 1..N
  PROVE  NthOf(1..N, n) = n
<1>1. ASSUME NEW i \in 1..N PROVE Cardinality({j \in 1..N : j <= i}) = i
  <2>1. {j \in 1..N : j <= i} = 1..i
    OBVIOUS
  <2>2. i \in Nat
    OBVIOUS
  <2>3. QED
    BY <2>1, <2>2, UpTo
<1>2. QED
  BY <1>1, Zenon DEF NthOf

Fewer(a, b) == IF a < b THEN a ELSE b

-----------------------------------------------------------------------------
(***************************************************************************)
(* The carousel: the row of a day is written once.                         *)
(***************************************************************************)
turnRows == s4
TurnsInv == turnRows = [d \in Turns!Days |-> turnRows[d]]

LEMMA TurnsInit == ASSUME Turns!Init PROVE TurnsInv
  BY DEF Turns!Init, TurnsInv, turnRows

LEMMA TurnsNext ==
  ASSUME CatalogueAssumption, TurnsInv, Turns!Next
  PROVE  TurnsInv' /\ Turns!PickStep
<1> USE DEF turnRows
<1>1. 0 \in Turns!Days /\ 1 \in Turns!Days
  BY DEF CatalogueAssumption, Turns!WindowAssumption, Turns!Days
<1>2. CASE Turns!NextDay
  <2>1. turnRows' = [d \in Turns!Days |-> IF d = 0 THEN {} ELSE turnRows[d - 1]]
    BY <1>2 DEF Turns!NextDay
  <2>2. turnRows'[1] = turnRows[0]
    BY <1>1, <2>1
  <2>3. QED
    BY <2>1, <2>2 DEF TurnsInv, Turns!PickStep
<1>3. CASE \E r \in Pair : Turns!Create(r)
  BY <1>3, <1>1 DEF Turns!Create, TurnsInv, Turns!PickStep
<1>4. CASE ~Turns!NextDay /\ ~\E r \in Pair : Turns!Create(r)
  <2>1. UNCHANGED turnRows
    BY <1>4 DEF Turns!Next, Turns!FindExisting, Turns!Select, Turns!Fail,
       Turns!PublishOrHide, Turns!ChangePlan
  <2>2. QED
    BY <2>1 DEF TurnsInv, Turns!PickStep
<1>5. QED
  BY <1>2, <1>3, <1>4

-----------------------------------------------------------------------------
(***************************************************************************)
(* The carousel of a stock that stays the same.  Whoever is left out of a  *)
(* pick although the window did not show them leaves room only for others  *)
(* whom the window did not show either; what slides out of the window may  *)
(* have shown them, RunSize listings a day.                                *)
(***************************************************************************)
stock == s2
settledDays == s3
passes == s5

\* A pick that is a day of the window now, d days ago.
Fair(pick, d) ==
  /\ pick \subseteq stock
  /\ Cardinality(pick) = Fewer(RunSize, Cardinality(stock))
  /\ \A F \in SUBSET stock :
       /\ Cardinality(F) > RunSize * d /\ F \cap pick = {}
       /\ \A e \in (d + 1)..WindowDays : F \cap turnRows[e] = {}
       => \A e \in (d + 1)..WindowDays : pick \cap turnRows[e] = {}

FairInv ==
  /\ Turns!TypeOK
  /\ \A d \in Turns!Days : Cardinality(turnRows[d]) <= RunSize
  /\ \A r \in Pair : passes[r].step = "create" =>
       /\ Cardinality(passes[r].picked) <= RunSize
       /\ settledDays > 0 => Fair(passes[r].picked, 0)
  /\ \A d \in 1..WindowDays : d <= settledDays => turnRows[d] # {}
  /\ \A d \in Turns!Days : d < settledDays /\ turnRows[d] # {} => Fair(turnRows[d], d)

LEMMA TurnSizes ==
  ASSUME CatalogueAssumption
  PROVE  /\ RunSize \in Nat /\ WindowDays \in Nat /\ WindowDays > 0
         /\ Turns!Days = 0..WindowDays
         /\ IsFiniteSet(Numbered) /\ Numbered \subseteq Int
         /\ \A S \in SUBSET Numbered : IsFiniteSet(S) /\ Cardinality(S) \in Nat
<1>1. /\ RunSize \in Nat /\ WindowDays \in Nat /\ WindowDays > 0
      /\ IsFiniteSet(Numbered) /\ Numbered \subseteq Int
  BY SameCounts DEF CatalogueAssumption, Turns!WindowAssumption
<1>2. \A S \in SUBSET Numbered : IsFiniteSet(S) /\ Cardinality(S) \in Nat
  BY <1>1, Counts
<1>3. QED
  BY <1>1, <1>2 DEF Turns!Days

\* "Shown less, then newer" is an order.
OrderOfTurns == {pq \in stock \X stock : Turns!Before(pq[1], pq[2])}

LEMMA TurnsOrdered ==
  ASSUME CatalogueAssumption, Turns!TypeOK
  PROVE  /\ StrictOrder(stock, OrderOfTurns)
         /\ \A p \in stock : Before(stock, OrderOfTurns, p) = {q \in stock : Turns!Before(q, p)}
         /\ \A p \in stock : Turns!Appearances(p, Turns!Days \ {0}) \in Nat
<1>1. stock \subseteq Int
  BY TurnSizes DEF Turns!TypeOK, stock
<1> DEFINE app(p) == Turns!Appearances(p, Turns!Days \ {0})
<1>2. ASSUME NEW p \in stock PROVE app(p) \in Nat
  <2> DEFINE D == {d \in Turns!Days \ {0} : p \in turnRows[d]}
  <2>1. D \in SUBSET (0..WindowDays) /\ IsFiniteSet(0..WindowDays)
    <3>1. 0..WindowDays = 0..((WindowDays + 1) - 1) /\ WindowDays + 1 \in Nat
      BY TurnSizes
    <3>2. IsFiniteSet(0..WindowDays)
      BY <3>1, UpTo
    <3>3. QED
      BY <3>2, TurnSizes
  <2>2. app(p) = Cardinality(D)
    BY SameCounts, Zenon DEF Turns!Appearances, turnRows
  <2> HIDE DEF D
  <2>3. Cardinality(D) \in Nat
    BY <2>1, Counts
  <2> HIDE DEF app
  <2>4. QED
    BY <2>2, <2>3
<1>3. \A p, q \in stock : Turns!Before(p, q) <=> app(p) < app(q) \/ (app(p) = app(q) /\ p > q)
  BY Zenon DEF Turns!Before
<1>4. \A p, q \in stock : <<p, q>> \in OrderOfTurns <=> Turns!Before(p, q)
  BY DEF OrderOfTurns
<1> HIDE DEF app
<1>5. \A p, q \in stock : <<p, q>> \in OrderOfTurns <=> app(p) < app(q) \/ (app(p) = app(q) /\ p > q)
  BY <1>3, <1>4, Zenon
<1>6. StrictOrder(stock, OrderOfTurns)
  <2>1. \A x \in stock : <<x, x>> \notin OrderOfTurns
    BY <1>1, <1>2, <1>5
  <2>2. ASSUME NEW x \in stock, NEW y \in stock, NEW z \in stock,
               <<x, y>> \in OrderOfTurns, <<y, z>> \in OrderOfTurns
        PROVE  <<x, z>> \in OrderOfTurns
    <3>1. PICK a \in Nat, b \in Nat, c \in Nat : a = app(x) /\ b = app(y) /\ c = app(z)
      BY <1>2
    <3>2. a < b \/ (a = b /\ x > y)
      BY <1>5, <2>2, <3>1
    <3>3. b < c \/ (b = c /\ y > z)
      BY <1>5, <2>2, <3>1
    <3>4. a < c \/ (a = c /\ x > z)
      BY <1>1, <3>2, <3>3
    <3>5. QED
      BY <1>5, <3>1, <3>4
  <2>3. ASSUME NEW x \in stock, NEW y \in stock, x # y
        PROVE  <<x, y>> \in OrderOfTurns \/ <<y, x>> \in OrderOfTurns
    <3>1. PICK a \in Nat, b \in Nat : a = app(x) /\ b = app(y)
      BY <1>2
    <3>2. (a < b \/ (a = b /\ x > y)) \/ (b < a \/ (b = a /\ y > x))
      BY <1>1, <2>3
    <3>3. QED
      BY <1>5, <3>1, <3>2
  <2>4. QED
    BY <2>1, <2>2, <2>3 DEF StrictOrder
<1>7. \A p \in stock : Before(stock, OrderOfTurns, p) = {q \in stock : Turns!Before(q, p)}
  BY <1>4 DEF Before
<1>8. QED
  BY <1>2, <1>6, <1>7 DEF app

\* What a pick is: full, and nobody comes before those who are in it.
ThePick == {p \in stock : Cardinality({q \in stock : Turns!Before(q, p)}) < RunSize}

LEMMA PickIsFull ==
  ASSUME CatalogueAssumption, Turns!TypeOK
  PROVE  /\ ThePick \in SUBSET stock
         /\ Cardinality(ThePick) = Fewer(RunSize, Cardinality(stock))
         /\ \A p \in stock \ ThePick, q \in ThePick : Turns!Before(q, p)
<1> DEFINE R == OrderOfTurns
           rank == [p \in ThePick |-> Cardinality(Before(stock, R, p))]
           n == Fewer(RunSize, Cardinality(stock))
<1>1. /\ ThePick \in SUBSET stock /\ stock \in SUBSET Numbered
  BY DEF ThePick, Turns!TypeOK, stock
<1>2. /\ IsFiniteSet(stock) /\ Cardinality(stock) \in Nat /\ IsFiniteSet(ThePick)
      /\ RunSize \in Nat
  BY <1>1, TurnSizes
<1>3. StrictOrder(stock, R)
  BY TurnsOrdered
<1>4. \A p \in stock : p \in ThePick <=> Cardinality(Before(stock, R, p)) < RunSize
  BY TurnsOrdered DEF ThePick
<1>5. {rank[p] : p \in ThePick} = 0..(n - 1)
  <2>1. ASSUME NEW p \in ThePick PROVE rank[p] \in 0..(n - 1)
    <3>1. /\ Cardinality(Before(stock, R, p)) \in Nat
          /\ Cardinality(Before(stock, R, p)) < Cardinality(stock)
      BY <1>1, <1>2, <1>3, Rank
    <3>2. Cardinality(Before(stock, R, p)) < RunSize
      BY <1>1, <1>4
    <3>3. QED
      BY <1>2, <3>1, <3>2 DEF Fewer
  <2>2. ASSUME NEW k \in 0..(n - 1) PROVE \E p \in ThePick : rank[p] = k
    <3>1. k \in 0..(Cardinality(stock) - 1) /\ k < RunSize
      BY <1>2 DEF Fewer
    <3>2. PICK p \in stock : Cardinality(Before(stock, R, p)) = k
      BY <1>2, <1>3, <3>1, RankTaken
    <3>3. p \in ThePick
      BY <1>4, <3>1, <3>2
    <3>4. QED
      BY <3>2, <3>3
  <2>3. QED
    BY <2>1, <2>2
<1>6. \A p, q \in ThePick : p # q => rank[p] # rank[q]
  <2>1. ASSUME NEW p \in ThePick, NEW q \in ThePick, rank[p] = rank[q] PROVE p = q
    <3>1. Cardinality(Before(stock, R, p)) = Cardinality(Before(stock, R, q))
      BY <2>1
    <3>2. p \in stock /\ q \in stock
      BY <1>1
    <3>3. QED
      BY <1>2, <1>3, <3>1, <3>2, RankApart
  <2>2. QED
    BY <2>1
<1>7. Cardinality(ThePick) = n
  <2>1. n \in Nat
    BY <1>2 DEF Fewer
  <2>2. Cardinality(0..(n - 1)) = n
    BY <2>1, UpTo
  <2> HIDE DEF rank, n
  <2>3. Cardinality({rank[p] : p \in ThePick}) = Cardinality(ThePick)
    BY <1>2, <1>6, Distinct
  <2>4. QED
    BY <1>5, <2>2, <2>3
<1>8. ASSUME NEW p \in stock \ ThePick, NEW q \in ThePick PROVE Turns!Before(q, p)
  <2>1. p # q /\ q \in stock /\ p \in stock
    BY <1>1, <1>8
  <2>2. <<p, q>> \notin R
    <3>1. ASSUME <<p, q>> \in R PROVE FALSE
      <4>1. Cardinality(Before(stock, R, p)) < Cardinality(Before(stock, R, q))
        BY <1>2, <1>3, <2>1, <3>1, RankGrows
      <4>2. /\ Cardinality(Before(stock, R, p)) \in Nat
            /\ Cardinality(Before(stock, R, q)) \in Nat
        BY <1>2, <1>3, <2>1, Rank
      <4>3. Cardinality(Before(stock, R, q)) < RunSize
        BY <1>4, <2>1
      <4>4. p \in ThePick
        BY <1>2, <1>4, <2>1, <4>1, <4>2, <4>3
      <4>5. QED
        BY <1>8, <4>4
    <3>2. QED
      BY <3>1
  <2>3. <<q, p>> \in R
    BY <1>3, <2>1, <2>2 DEF StrictOrder
  <2>4. QED
    BY <2>3 DEF OrderOfTurns
<1>9. QED
  BY <1>1, <1>7, <1>8

\* A listing that no day showed has no appearances, and the other way round.
LEMMA Unseen ==
  ASSUME CatalogueAssumption, Turns!TypeOK, NEW p \in stock
  PROVE  Turns!Appearances(p, Turns!Days \ {0}) = 0 <=>
           \A e \in 1..WindowDays : p \notin turnRows[e]
<1> DEFINE D == {d \in Turns!Days \ {0} : p \in turnRows[d]}
<1>1. D \in SUBSET (1..WindowDays) /\ \A e \in 1..WindowDays : e \in D <=> p \in turnRows[e]
  BY TurnSizes
<1>2. Turns!Appearances(p, Turns!Days \ {0}) = Cardinality(D)
  BY SameCounts, Zenon DEF Turns!Appearances, turnRows
<1> HIDE DEF D
<1>3. IsFiniteSet(D)
  BY <1>1, TurnSizes, UpTo, Counts
<1>4. Cardinality(D) = 0 <=> D = {}
  BY <1>3, FS_EmptySet
<1>5. QED
  BY <1>1, <1>2, <1>4

LEMMA PickIsFair ==
  ASSUME CatalogueAssumption, Turns!TypeOK
  PROVE  Fair(ThePick, 0)
<1>1. ASSUME NEW F \in SUBSET stock, Cardinality(F) > RunSize * 0, F \cap ThePick = {},
             \A e \in (0 + 1)..WindowDays : F \cap turnRows[e] = {},
             NEW e \in (0 + 1)..WindowDays
      PROVE  ThePick \cap turnRows[e] = {}
  <2>1. F # {}
    <3>1. Cardinality({}) = 0 /\ RunSize * 0 = 0
      BY TurnSizes, FS_EmptySet
    <3>2. QED
      BY <1>1, <3>1
  <2>2. PICK p \in F : TRUE
    BY <2>1
  <2>3. p \in stock \ ThePick /\ \A d \in 1..WindowDays : p \notin turnRows[d]
    BY <1>1
  <2>4. Turns!Appearances(p, Turns!Days \ {0}) = 0
    BY <2>3, Unseen
  <2>5. ASSUME NEW q \in ThePick PROVE q \notin turnRows[e]
    <3>1. Turns!Before(q, p) /\ q \in stock
      BY <2>3, PickIsFull
    <3>2. Turns!Appearances(q, Turns!Days \ {0}) \in Nat
      BY <3>1, TurnsOrdered
    <3>3. /\ Turns!Appearances(q, Turns!Days \ {0}) <= Turns!Appearances(p, Turns!Days \ {0})
      <4>1. \/ Turns!Appearances(q, Turns!Days \ {0}) < Turns!Appearances(p, Turns!Days \ {0})
            \/ Turns!Appearances(q, Turns!Days \ {0}) = Turns!Appearances(p, Turns!Days \ {0})
        <5>1. Turns!Before(q, p) <=>
                \/ Turns!Appearances(q, Turns!Days \ {0}) < Turns!Appearances(p, Turns!Days \ {0})
                \/ /\ Turns!Appearances(q, Turns!Days \ {0}) = Turns!Appearances(p, Turns!Days \ {0})
                   /\ q > p
          BY Zenon DEF Turns!Before
        <5>2. QED
          BY <3>1, <5>1, Zenon
      <4>2. QED
        BY <2>4, <3>2, <4>1
    <3>4. Turns!Appearances(q, Turns!Days \ {0}) = 0
      BY <2>4, <3>2, <3>3
    <3>5. \A d \in 1..WindowDays : q \notin turnRows[d]
      BY <3>1, <3>4, Unseen
    <3>6. e \in 1..WindowDays
      OBVIOUS
    <3>7. QED
      BY <3>5, <3>6
  <2>6. QED
    BY <2>5
<1>2. QED
  BY <1>1, PickIsFull DEF Fair

\* Yesterday's pick is a day older, and what the window showed last is gone.
LEMMA FairTomorrow ==
  ASSUME CatalogueAssumption, FairInv, NEW d \in 1..WindowDays,
         NEW pick, pick = turnRows[d - 1], Fair(pick, d - 1),
         stock' = stock, turnRows' = [e \in Turns!Days |-> IF e = 0 THEN {} ELSE turnRows[e - 1]]
  PROVE  Fair(pick, d)'
<1>s. /\ RunSize \in Nat /\ WindowDays \in Nat /\ Turns!Days = 0..WindowDays
  BY TurnSizes
<1>0. d - 1 \in Turns!Days /\ d \in Nat /\ d - 1 \in Nat
  BY <1>s
<1>1. ASSUME NEW e \in Turns!Days, e # 0 PROVE turnRows'[e] = turnRows[e - 1]
  BY <1>1
<1>2. pick \subseteq stock /\ Cardinality(pick) = Fewer(RunSize, Cardinality(stock))
  BY DEF Fair
<1>3. ASSUME NEW F \in SUBSET stock, Cardinality(F) > RunSize * d, F \cap turnRows'[d] = {},
             \A e \in (d + 1)..WindowDays : F \cap turnRows'[e] = {},
             NEW e \in (d + 1)..WindowDays
      PROVE  turnRows'[d] \cap turnRows'[e] = {}
  <2> DEFINE G == F \ turnRows[WindowDays]
  <2>1. ASSUME NEW k \in d..WindowDays PROVE F \cap turnRows[k - 1] = {}
    <3>1. k \in Turns!Days /\ k # 0 /\ (k = d \/ k \in (d + 1)..WindowDays)
      BY <1>s
    <3>2. turnRows'[k] = turnRows[k - 1]
      BY <1>1, <3>1
    <3>3. F \cap turnRows'[k] = {}
      BY <1>3, <3>1
    <3>4. QED
      BY <3>2, <3>3
  <2>2. \A k \in (d - 1)..WindowDays : G \cap turnRows[k] = {}
    <3>1. ASSUME NEW k \in (d - 1)..WindowDays, k # WindowDays PROVE F \cap turnRows[k] = {}
      <4>1. k + 1 \in d..WindowDays /\ (k + 1) - 1 = k
        BY <1>s, <3>1
      <4>2. QED
        BY <2>1, <4>1
    <3>2. QED
      BY <3>1
  <2>3. Cardinality(G) > RunSize * (d - 1)
    <3>1. F \in SUBSET Numbered /\ turnRows[WindowDays] \in SUBSET Numbered
      <4>1. WindowDays \in Turns!Days
        BY <1>s
      <4>2. QED
        BY <4>1 DEF FairInv, Turns!TypeOK, stock, turnRows
    <3>2. IsFiniteSet(F) /\ Cardinality(F) \in Nat /\ IsFiniteSet(turnRows[WindowDays])
      BY <3>1, TurnSizes
    <3>3. Cardinality(turnRows[WindowDays]) <= RunSize /\ Cardinality(turnRows[WindowDays]) \in Nat
      BY <1>s, <3>1, TurnSizes DEF FairInv
    <3>4. /\ Cardinality(G) = Cardinality(F) - Cardinality(F \cap turnRows[WindowDays])
          /\ Cardinality(F \cap turnRows[WindowDays]) \in Nat
          /\ Cardinality(F \cap turnRows[WindowDays]) <= Cardinality(turnRows[WindowDays])
      <4>1. Cardinality(G) = Cardinality(F) - Cardinality(F \cap turnRows[WindowDays])
        BY <3>2, FS_Difference
      <4>2. F \cap turnRows[WindowDays] \in SUBSET turnRows[WindowDays]
        OBVIOUS
      <4>3. QED
        BY <3>2, <4>1, <4>2, Counts
    <3>5. PICK k \in Nat : k = d - 1
      BY <1>0
    <3>6. d = k + 1 /\ RunSize * (k + 1) = RunSize * k + RunSize /\ RunSize * k \in Nat
      BY <1>s, <3>5
    <3>7. PICK f \in Nat, x \in Nat, q \in Nat :
            /\ f = Cardinality(F) /\ x = Cardinality(F \cap turnRows[WindowDays])
            /\ q = RunSize * k
      BY <3>2, <3>4, <3>6
    <3>8. f > q + RunSize
      BY <1>3, <3>6, <3>7
    <3>9. f - x > q
      BY <1>s, <3>3, <3>4, <3>7, <3>8
    <3>10. QED
      BY <3>4, <3>5, <3>7, <3>9
  <2>4. G \in SUBSET stock /\ G \cap turnRows[d - 1] = {}
    <3>1. d - 1 \in (d - 1)..WindowDays
      BY <1>s
    <3>2. QED
      BY <2>2, <3>1
  <2>5. \A k \in ((d - 1) + 1)..WindowDays : G \cap turnRows[k] = {}
    BY <1>s, <2>2
  <2> HIDE DEF G
  <2>6. \A k \in ((d - 1) + 1)..WindowDays : turnRows[d - 1] \cap turnRows[k] = {}
    BY <2>3, <2>4, <2>5 DEF Fair
  <2>7. e - 1 \in ((d - 1) + 1)..WindowDays /\ e \in Turns!Days /\ e # 0 /\ d \in Turns!Days /\ d # 0
    BY <1>s
  <2>8. QED
    BY <1>1, <2>6, <2>7
<1>4. d \in Turns!Days /\ d # 0 /\ turnRows'[d] = pick
  BY <1>s, <1>1
<1>5. ASSUME NEW F \in SUBSET stock', Cardinality(F) > RunSize * d, F \cap pick = {},
             \A e \in (d + 1)..WindowDays : F \cap turnRows'[e] = {}
      PROVE  \A e \in (d + 1)..WindowDays : pick \cap turnRows'[e] = {}
  BY <1>3, <1>4, <1>5
<1>6. QED
  BY <1>2, <1>5 DEF Fair

\* The days that Fair looks at, and the stock, stay.
LEMMA FairToday ==
  ASSUME CatalogueAssumption, NEW d \in Nat, NEW pick, Fair(pick, d), stock' = stock,
         \A e \in 1..WindowDays : turnRows'[e] = turnRows[e]
  PROVE  Fair(pick, d)'
<1>1. \A e \in (d + 1)..WindowDays : turnRows'[e] = turnRows[e]
  BY TurnSizes
<1>2. QED
  BY <1>1 DEF Fair

LEMMA FairInit == ASSUME CatalogueAssumption, Turns!Init PROVE FairInv
<1>1. /\ settledDays = 0 /\ \A r \in Pair : passes[r].step = "idle"
      /\ turnRows = [d \in Turns!Days |-> {}]
  BY DEF Turns!Init, settledDays, passes, turnRows, Turns!Idle
<1>2. RunSize \in Nat /\ WindowDays \in Nat /\ Cardinality({}) = 0
  BY TurnSizes, FS_EmptySet
<1>3. Turns!TypeOK
  BY <1>2 DEF Turns!Init, Turns!TypeOK, CatalogueAssumption, Turns!WindowAssumption
<1>4. \A d \in Turns!Days : Cardinality(turnRows[d]) <= RunSize
  BY <1>1, <1>2
<1>5. \A d \in 1..WindowDays : ~(d <= settledDays)
  BY <1>1, <1>2
<1>6. \A d \in Turns!Days : ~(d < settledDays)
  BY <1>1, TurnSizes
<1>7. QED
  BY <1>1, <1>3, <1>4, <1>5, <1>6 DEF FairInv

\* After a change of the stock, or of the plan, nothing is settled.
LEMMA Unsettled ==
  ASSUME CatalogueAssumption, Turns!TypeOK', settledDays' = 0,
         \A d \in Turns!Days : Cardinality(turnRows'[d]) <= RunSize,
         \A r \in Pair : passes'[r].step = "create" => Cardinality(passes'[r].picked) <= RunSize
  PROVE  FairInv'
<1>1. \A d \in 1..WindowDays : ~(d <= settledDays')
  BY TurnSizes
<1>2. \A d \in Turns!Days : ~(d < settledDays')
  BY TurnSizes
<1>3. Turns!Days' = Turns!Days
  BY DEF Turns!Days
<1>4. QED
  BY <1>1, <1>2, <1>3 DEF FairInv

\* A pass goes on, the rows stay.
LEMMA PassGoes ==
  ASSUME CatalogueAssumption, FairInv, Turns!TypeOK',
         stock' = stock, turnRows' = turnRows, settledDays' = settledDays,
         \A r \in Pair : passes'[r].step = "create" =>
           \/ passes[r].step = "create" /\ passes'[r].picked = passes[r].picked
           \/ passes'[r].picked = ThePick
  PROVE  FairInv'
<1>1. Turns!TypeOK
  BY DEF FairInv
<1>2. ASSUME NEW r \in Pair, passes'[r].step = "create"
      PROVE  /\ Cardinality(passes'[r].picked) <= RunSize
             /\ settledDays' > 0 => Fair(passes[r].picked, 0)'
  <2>1. Cardinality(ThePick) <= RunSize /\ Fair(ThePick, 0)
    <3>1. Cardinality(ThePick) = Fewer(RunSize, Cardinality(stock))
      BY <1>1, PickIsFull
    <3>2. RunSize \in Nat /\ Cardinality(stock) \in Nat
      BY <1>1, TurnSizes DEF Turns!TypeOK, stock
    <3>3. QED
      BY <1>1, <3>1, <3>2, PickIsFair DEF Fewer
  <2>2. PICK pick : pick = passes'[r].picked
    OBVIOUS
  <2>3. Cardinality(pick) <= RunSize /\ (settledDays > 0 => Fair(pick, 0))
    BY <1>2, <2>1, <2>2 DEF FairInv
  <2>4. Fair(pick, 0) => Fair(pick, 0)'
    BY FairToday
  <2>5. QED
    BY <2>2, <2>3, <2>4
<1>3. ASSUME NEW d \in Turns!Days, d < settledDays', turnRows'[d] # {}
      PROVE  Fair(turnRows[d], d)'
  <2>1. PICK pick : pick = turnRows[d]
    OBVIOUS
  <2>2. Fair(pick, d) /\ d \in Nat
    BY <1>3, <2>1, TurnSizes DEF FairInv
  <2>3. Fair(pick, d)'
    BY <2>2, FairToday
  <2>4. QED
    BY <2>1, <2>3
<1>4. /\ \A d \in Turns!Days : Cardinality(turnRows'[d]) <= RunSize
      /\ \A d \in 1..WindowDays : d <= settledDays' => turnRows'[d] # {}
      /\ Turns!Days' = Turns!Days
  BY DEF FairInv
<1>5. QED
  BY <1>2, <1>3, <1>4 DEF FairInv

LEMMA CreateFair ==
  ASSUME CatalogueAssumption, FairInv, Turns!TypeOK', NEW r \in Pair, Turns!Create(r)
  PROVE  FairInv'
<1>1. Turns!TypeOK /\ Turns!Days = 0..WindowDays /\ WindowDays \in Nat
  BY TurnSizes DEF FairInv
<1>2. /\ passes[r].step = "create" /\ stock' = stock /\ settledDays' = settledDays
      /\ passes' = [passes EXCEPT ![r] = Turns!Idle]
      /\ turnRows' = IF turnRows[0] = {} THEN [turnRows EXCEPT ![0] = passes[r].picked] ELSE turnRows
  BY DEF Turns!Create, Turns!End, passes, stock, settledDays, turnRows
<1>3. \A q \in Pair : passes'[q].step = "create" =>
        passes[q].step = "create" /\ passes'[q].picked = passes[q].picked
  BY <1>1, <1>2 DEF Turns!TypeOK, passes, Turns!Idle
<1>4. CASE turnRows' = turnRows
  BY <1>2, <1>3, <1>4, PassGoes
<1>5. CASE turnRows' = [turnRows EXCEPT ![0] = passes[r].picked]
  <2>1. \A d \in Turns!Days : turnRows'[d] = IF d = 0 THEN passes[r].picked ELSE turnRows[d]
    BY <1>1, <1>5 DEF Turns!TypeOK, turnRows
  <2>2. \A e \in 1..WindowDays : turnRows'[e] = turnRows[e]
    BY <1>1, <2>1
  <2>3. ASSUME NEW q \in Pair, passes'[q].step = "create"
        PROVE  /\ Cardinality(passes'[q].picked) <= RunSize
               /\ settledDays' > 0 => Fair(passes[q].picked, 0)'
    <3>1. PICK pick : pick = passes'[q].picked
      OBVIOUS
    <3>2. Cardinality(pick) <= RunSize /\ (settledDays > 0 => Fair(pick, 0))
      BY <1>3, <2>3, <3>1 DEF FairInv
    <3>3. Fair(pick, 0) => Fair(pick, 0)'
      BY <1>2, <2>2, FairToday
    <3>4. QED
      BY <1>2, <3>1, <3>2, <3>3
  <2>4. ASSUME NEW d \in Turns!Days, d < settledDays', turnRows'[d] # {}
        PROVE  Fair(turnRows[d], d)'
    <3>1. PICK pick : pick = turnRows'[d]
      OBVIOUS
    <3>2. d \in Nat
      BY <1>1
    <3>3. Fair(pick, d)
      <4>1. CASE d = 0
        <5>1. settledDays > 0 /\ pick = passes[r].picked
          BY <1>2, <2>1, <2>4, <3>1, <4>1
        <5>2. QED
          BY <1>2, <4>1, <5>1 DEF FairInv
      <4>2. CASE d # 0
        BY <1>2, <2>1, <2>4, <3>1, <4>2 DEF FairInv
      <4>3. QED
        BY <4>1, <4>2
    <3>4. Fair(pick, d)'
      BY <1>2, <2>2, <3>2, <3>3, FairToday
    <3>5. QED
      BY <3>1, <3>4
  <2>5. \A d \in Turns!Days : Cardinality(turnRows'[d]) <= RunSize
    BY <1>2, <2>1 DEF FairInv
  <2>6. \A d \in 1..WindowDays : d <= settledDays' => turnRows'[d] # {}
    BY <1>2, <2>2 DEF FairInv
  <2>7. Turns!Days' = Turns!Days
    BY DEF Turns!Days
  <2>8. QED
    BY <2>3, <2>4, <2>5, <2>6, <2>7 DEF FairInv
<1>6. QED
  BY <1>2, <1>4, <1>5

LEMMA DayBefore ==
  ASSUME NEW d \in Int, NEW a \in Nat, NEW b \in Nat, a - 1 <= b
  PROVE  (d <= a => d - 1 <= b) /\ (d < a => d - 1 < b)
  OBVIOUS

LEMMA NextDayFair ==
  ASSUME CatalogueAssumption, FairInv, Turns!TypeOK', Turns!NextDay
  PROVE  FairInv'
<1>1. /\ Turns!TypeOK /\ Turns!Days = 0..WindowDays /\ WindowDays \in Nat /\ RunSize \in Nat
      /\ settledDays \in 0..WindowDays
  BY TurnSizes DEF FairInv, Turns!TypeOK, settledDays
<1>2. /\ stock' = stock /\ passes' = passes
      /\ turnRows' = [d \in Turns!Days |-> IF d = 0 THEN {} ELSE turnRows[d - 1]]
      /\ settledDays' = IF turnRows[0] = {} THEN 0
                        ELSE IF settledDays < WindowDays THEN settledDays + 1 ELSE WindowDays
      /\ \A r \in Pair : passes[r].step = "idle"
  BY DEF Turns!NextDay, passes, stock, settledDays, turnRows, Turns!Idle
<1>3. \A d \in 1..WindowDays : d \in Turns!Days /\ d - 1 \in Turns!Days /\ turnRows'[d] = turnRows[d - 1]
  BY <1>1, <1>2
<1>4. turnRows'[0] = {} /\ 0 \in Turns!Days
  BY <1>1, <1>2
<1>5. \A d \in Turns!Days : d = 0 \/ d \in 1..WindowDays
  BY <1>1
<1>6. ASSUME NEW d \in Turns!Days PROVE Cardinality(turnRows'[d]) <= RunSize
  <2>1. CASE d = 0
    BY <1>1, <1>4, <2>1, FS_EmptySet
  <2>2. CASE d \in 1..WindowDays
    <3>1. turnRows'[d] = turnRows[d - 1] /\ d - 1 \in Turns!Days
      BY <1>3, <2>2
    <3>2. QED
      BY <3>1 DEF FairInv
  <2>3. QED
    BY <1>5, <2>1, <2>2
<1>7. CASE turnRows[0] = {}
  <2>1. settledDays' = 0
    BY <1>2, <1>7
  <2>2. QED
    BY <1>2, <1>6, <2>1, Unsettled
<1>8. CASE turnRows[0] # {}
  <2>1. settledDays' \in Nat /\ settledDays' - 1 <= settledDays /\ settledDays \in Nat
    BY <1>1, <1>2, <1>8
  <2>d. ASSUME NEW d \in Int
        PROVE  /\ d <= settledDays' => d - 1 <= settledDays
               /\ d < settledDays' => d - 1 < settledDays
    <3>1. PICK a \in Nat, b \in Nat : a = settledDays' /\ b = settledDays /\ a - 1 <= b
      BY <2>1
    <3>2. (d <= a => d - 1 <= b) /\ (d < a => d - 1 < b)
      BY <3>1, DayBefore
    <3>3. QED
      BY <3>1, <3>2
  <2>2. ASSUME NEW d \in 1..WindowDays, d <= settledDays' PROVE turnRows'[d] # {}
    <3>1. d = 1 \/ d - 1 \in 1..WindowDays
      BY <1>1
    <3>2. d - 1 <= settledDays
      BY <2>d, <2>2
    <3>3. QED
      BY <1>3, <1>8, <3>1, <3>2 DEF FairInv
  <2>3. ASSUME NEW d \in Turns!Days, d < settledDays', turnRows'[d] # {}
        PROVE  Fair(turnRows[d], d)'
    <3>1. d \in 1..WindowDays
      BY <1>4, <1>5, <2>3
    <3>2. PICK pick : pick = turnRows[d - 1] /\ pick = turnRows'[d]
      BY <1>3, <3>1
    <3>3. d - 1 < settledDays /\ d - 1 \in Turns!Days
      BY <1>3, <2>d, <2>3, <3>1
    <3>4. Fair(pick, d - 1)
      BY <2>3, <3>2, <3>3 DEF FairInv
    <3>5. Fair(pick, d)'
      BY <1>2, <3>1, <3>2, <3>4, FairTomorrow
    <3>6. QED
      BY <3>2, <3>5
  <2>4. Turns!Days' = Turns!Days
    BY DEF Turns!Days
  <2>5. \A r \in Pair : ~(passes'[r].step = "create")
    BY <1>2
  <2>6. QED
    BY <1>6, <2>2, <2>3, <2>4, <2>5 DEF FairInv
<1>9. QED
  BY <1>7, <1>8

LEMMA TurnsTyped ==
  ASSUME CatalogueAssumption, Turns!TypeOK, Turns!Next
  PROVE  Turns!TypeOK'
<1> USE DEF stock, settledDays, passes, turnRows
<1>1. /\ Turns!Days = 0..WindowDays /\ WindowDays \in Nat /\ RunSize \in Nat
      /\ settledDays \in 0..WindowDays /\ stock \subseteq Numbered
      /\ turnRows \in [Turns!Days -> SUBSET Numbered] /\ s1 \in BOOLEAN
      /\ passes \in [Pair -> {Turns!Idle} \cup [step : {"select"}]
                       \cup [step : {"create"}, picked : SUBSET Numbered]]
  BY TurnSizes DEF Turns!TypeOK
<1>2. 0 \in 0..WindowDays
  BY <1>1
<1>k. Turns!Days' = Turns!Days /\ Turns!Idle' = Turns!Idle
  BY DEF Turns!Days
<1>3. ASSUME NEW r \in Pair, Turns!FindExisting(r) \/ Turns!Fail(r)
      PROVE  Turns!TypeOK'
  BY <1>1, <1>k, <1>3 DEF Turns!FindExisting, Turns!Fail, Turns!End, Turns!TypeOK
<1>4. ASSUME NEW r \in Pair, Turns!Select(r)
      PROVE  Turns!TypeOK'
  <2>1. UNCHANGED <<s1, stock, settledDays, turnRows>>
    BY <1>4 DEF Turns!Select
  <2>2. PICK picked : /\ picked \subseteq Numbered
                      /\ \/ passes' = [passes EXCEPT ![r] = Turns!Idle]
                         \/ passes' = [passes EXCEPT ![r] = [step |-> "create", picked |-> picked]]
    <3>1. PICK picked : picked = {p \in stock :
               Turns!Cardinality({q \in stock : Turns!Before(q, p)}) < RunSize}
      OBVIOUS
    <3>2. picked \subseteq Numbered
      BY <1>1, <3>1
    <3>3. \/ passes' = [passes EXCEPT ![r] = Turns!Idle]
          \/ passes' = [passes EXCEPT ![r] = [step |-> "create", picked |-> picked]]
      BY <1>4, <3>1, Zenon DEF Turns!Select, Turns!End
    <3>4. QED
      BY <3>2, <3>3
  <2>3. [step |-> "create", picked |-> picked] \in [step : {"create"}, picked : SUBSET Numbered]
    BY <2>2
  <2>4. passes' \in [Pair -> {Turns!Idle} \cup [step : {"select"}]
                       \cup [step : {"create"}, picked : SUBSET Numbered]]
    BY <1>1, <2>2, <2>3
  <2>5. QED
    BY <1>1, <1>k, <2>1, <2>4 DEF Turns!TypeOK
<1>5. ASSUME NEW r \in Pair, Turns!Create(r)
      PROVE  Turns!TypeOK'
  <2>1. /\ UNCHANGED <<s1, stock, settledDays>> /\ passes[r].step = "create"
        /\ passes' = [passes EXCEPT ![r] = Turns!Idle]
        /\ turnRows' = turnRows \/ turnRows' = [turnRows EXCEPT ![0] = passes[r].picked]
    BY <1>5 DEF Turns!Create, Turns!End
  <2>2. passes[r].picked \subseteq Numbered
    BY <1>1, <2>1 DEF Turns!Idle
  <2>3. turnRows' \in [Turns!Days -> SUBSET Numbered]
    BY <1>1, <2>1, <2>2
  <2>4. passes' \in [Pair -> {Turns!Idle} \cup [step : {"select"}]
                       \cup [step : {"create"}, picked : SUBSET Numbered]]
    BY <1>1, <2>1
  <2>5. QED
    BY <1>1, <1>k, <2>1, <2>3, <2>4 DEF Turns!TypeOK
<1>6. CASE (\E p \in Numbered : Turns!PublishOrHide(p)) \/ Turns!ChangePlan
  BY <1>1, <1>2, <1>k, <1>6 DEF Turns!PublishOrHide, Turns!ChangePlan, Turns!TypeOK
<1>7. CASE Turns!NextDay
  <2>1. /\ UNCHANGED <<s1, stock, passes>>
        /\ turnRows' = [d \in Turns!Days |-> IF d = 0 THEN {} ELSE turnRows[d - 1]]
        /\ settledDays' = IF turnRows[0] = {} THEN 0
                        ELSE IF settledDays < WindowDays THEN settledDays + 1 ELSE WindowDays
    BY <1>7 DEF Turns!NextDay
  <2>2. settledDays' \in 0..WindowDays
    BY <1>1, <2>1
  <2>3. \A d \in Turns!Days : d # 0 => d - 1 \in Turns!Days
    BY <1>1
  <2>4. turnRows' \in [Turns!Days -> SUBSET Numbered]
    BY <1>1, <2>1, <2>3
  <2>5. QED
    BY <1>1, <1>k, <2>1, <2>2, <2>4 DEF Turns!TypeOK
<1>8. QED
  BY <1>3, <1>4, <1>5, <1>6, <1>7 DEF Turns!Next

LEMMA FairNext ==
  ASSUME CatalogueAssumption, FairInv, Turns!Next
  PROVE  FairInv'
<1>1. Turns!TypeOK /\ Turns!TypeOK'
  BY TurnsTyped DEF FairInv
<1>2. ASSUME NEW r \in Pair, Turns!FindExisting(r) \/ Turns!Fail(r) \/ Turns!Select(r)
      PROVE  FairInv'
  <2>1. stock' = stock /\ turnRows' = turnRows /\ settledDays' = settledDays
    BY <1>2 DEF Turns!FindExisting, Turns!Fail, Turns!Select, stock, turnRows, settledDays
  <2>2. PICK m : /\ m.step = "create" => m.picked = ThePick
                 /\ passes' = [passes EXCEPT ![r] = m]
    <3>1. {p \in stock : Turns!Cardinality({q \in stock : Turns!Before(q, p)}) < RunSize} = ThePick
      BY SameCounts, Zenon DEF ThePick
    <3>2. \/ passes' = [passes EXCEPT ![r] = Turns!Idle]
          \/ passes' = [passes EXCEPT ![r] = [step |-> "select"]]
          \/ passes' = [passes EXCEPT ![r] = [step |-> "create", picked |-> ThePick]]
      BY <1>2, <3>1, Zenon DEF Turns!FindExisting, Turns!Fail, Turns!Select, Turns!End, passes, stock
    <3>3. QED
      BY <3>2 DEF Turns!Idle
  <2>3. \A q \in Pair : passes'[q] = IF q = r THEN m ELSE passes[q]
    BY <1>1, <2>2 DEF Turns!TypeOK, passes
  <2>4. \A q \in Pair : passes'[q].step = "create" =>
           \/ passes[q].step = "create" /\ passes'[q].picked = passes[q].picked
           \/ passes'[q].picked = ThePick
    BY <2>2, <2>3
  <2>5. QED
    BY <1>1, <2>1, <2>4, PassGoes
<1>3. CASE (\E p \in Numbered : Turns!PublishOrHide(p)) \/ Turns!ChangePlan
  <2>1. settledDays' = 0 /\ turnRows' = turnRows /\ passes' = passes
    BY <1>3 DEF Turns!PublishOrHide, Turns!ChangePlan, settledDays, turnRows, passes
  <2>2. QED
    BY <1>1, <2>1, Unsettled DEF FairInv
<1>4. CASE Turns!NextDay
  BY <1>1, <1>4, NextDayFair
<1>5. ASSUME NEW r \in Pair, Turns!Create(r) PROVE FairInv'
  BY <1>1, <1>5, CreateFair
<1>6. QED
  BY <1>2, <1>3, <1>4, <1>5 DEF Turns!Next

\* Who has been left out for the whole window has seen RunSize others a day,
\* each once: more than the stock has.
LEMMA FairMeans == ASSUME CatalogueAssumption, FairInv PROVE Turns!NoneLeftOut
<1>1. /\ Turns!TypeOK /\ Turns!Days = 0..WindowDays /\ WindowDays \in Nat /\ RunSize \in Nat
      /\ WindowDays > 0
  BY TurnSizes DEF FairInv
<1>2. SUFFICES ASSUME settledDays = WindowDays, turnRows[0] # {},
                      Cardinality(stock) <= RunSize * WindowDays,
                      NEW p \in stock, ~(Turns!Appearances(p, Turns!Days) >= 1)
               PROVE  FALSE
  <2>1. Turns!Cardinality(stock) = Cardinality(stock)
    BY SameCounts
  <2>2. QED
    BY <2>1, Zenon DEF Turns!NoneLeftOut, stock, settledDays, turnRows
<1>3. stock \in SUBSET Numbered /\ \A d \in Turns!Days : turnRows[d] \in SUBSET Numbered
  BY <1>1 DEF Turns!TypeOK, stock, turnRows
<1>4. \A d \in 0..WindowDays : p \notin turnRows[d]
  <2> DEFINE D == {d \in Turns!Days : p \in turnRows[d]}
  <2>1. D \in SUBSET (0..((WindowDays + 1) - 1)) /\ WindowDays + 1 \in Nat
    BY <1>1
  <2>2. IsFiniteSet(D)
    BY <2>1, UpTo, Counts
  <2>3. Turns!Appearances(p, Turns!Days) = Cardinality(D)
    BY SameCounts, Zenon DEF Turns!Appearances, turnRows
  <2>4. D # {} => Cardinality(D) # 0
    <3> HIDE DEF D
    <3>1. QED
      BY <2>2, FS_EmptySet
  <2>5. Cardinality(D) \in Nat
    <3> HIDE DEF D
    <3>1. QED
      BY <2>2, FS_CardinalityType
  <2>6. D = {}
    <3> HIDE DEF D
    <3>1. QED
      BY <1>2, <2>3, <2>4, <2>5
  <2>7. QED
    BY <1>1, <2>6
<1>5. ASSUME NEW d \in 0..(WindowDays - 1)
      PROVE  /\ Fair(turnRows[d], d) /\ Cardinality(turnRows[d]) = RunSize
             /\ turnRows[d] \subseteq stock
  <2>1. d < settledDays /\ d \in Turns!Days /\ (d = 0 \/ d \in 1..WindowDays)
    BY <1>1, <1>2
  <2>2. turnRows[d] # {}
    <3>1. CASE d = 0
      BY <1>2, <3>1
    <3>2. CASE d \in 1..WindowDays
      <4>1. d <= settledDays
        BY <1>1, <1>2, <3>2
      <4>2. QED
        BY <3>2, <4>1 DEF FairInv
    <3>3. QED
      BY <2>1, <3>1, <3>2
  <2>3. Fair(turnRows[d], d)
    BY <2>1, <2>2 DEF FairInv
  <2>4. /\ turnRows[d] \subseteq stock
        /\ Cardinality(turnRows[d]) = Fewer(RunSize, Cardinality(stock))
    BY <2>3 DEF Fair
  <2>5. turnRows[d] # stock
    BY <1>1, <1>4, <2>1
  <2>6. /\ Cardinality(turnRows[d]) < Cardinality(stock)
        /\ Cardinality(stock) \in Nat /\ Cardinality(turnRows[d]) \in Nat
    BY <1>3, <2>1, <2>4, <2>5, TurnSizes, Counts
  <2>7. QED
    BY <1>1, <2>3, <2>4, <2>6 DEF Fewer
\* Who was shown after day d, and p.
<1> DEFINE Shown(d) == {p} \cup UNION {turnRows[e] : e \in 0..(d - 1)}
           AllApart(d) == /\ Cardinality(Shown(d)) = RunSize * d + 1
                        /\ \A e \in d..WindowDays : Shown(d) \cap turnRows[e] = {}
<1>6. ASSUME NEW d \in 0..WindowDays
      PROVE  Shown(d) \in SUBSET stock /\ IsFiniteSet(Shown(d)) /\ Cardinality(Shown(d)) \in Nat
  <2>1. \A e \in 0..(d - 1) : e \in 0..(WindowDays - 1)
    BY <1>1
  <2>2. Shown(d) \in SUBSET stock
    BY <1>5, <2>1
  <2> HIDE DEF Shown
  <2>3. QED
    BY <1>3, <2>2, TurnSizes
<1>7. AllApart(0)
  <2>1. Shown(0) = {p}
    OBVIOUS
  <2>2. Cardinality(Shown(0)) = 1
    BY <2>1, FS_Singleton
  <2>3. RunSize * 0 + 1 = 1
    BY <1>1
  <2>4. \A e \in 0..WindowDays : Shown(0) \cap turnRows[e] = {}
    BY <1>4, <2>1
  <2> HIDE DEF Shown
  <2>5. QED
    BY <2>2, <2>3, <2>4
<1>8. ASSUME NEW d \in 0..(WindowDays - 1), AllApart(d) PROVE AllApart(d + 1)
  <2>1. Shown(d + 1) = Shown(d) \cup turnRows[d]
    <3>1. 0..((d + 1) - 1) = (0..(d - 1)) \cup {d}
      BY <1>1
    <3>2. QED
      BY <3>1
  <2>2. d \in 0..WindowDays /\ d + 1 \in 0..WindowDays
    BY <1>1
  <2>3. /\ Shown(d) \in SUBSET stock /\ IsFiniteSet(Shown(d)) /\ Cardinality(Shown(d)) \in Nat
    BY <1>6, <2>2
  <2>4. /\ Fair(turnRows[d], d) /\ Cardinality(turnRows[d]) = RunSize
        /\ turnRows[d] \in SUBSET Numbered
    BY <1>1, <1>3, <1>5, <2>2
  <2>5. IsFiniteSet(turnRows[d])
    BY <2>4, TurnSizes
  <2> HIDE DEF Shown
  <2>6. /\ Cardinality(Shown(d)) = RunSize * d + 1
        /\ \A e \in d..WindowDays : Shown(d) \cap turnRows[e] = {}
    BY <1>8
  <2>7. RunSize * d \in Nat /\ RunSize * (d + 1) = RunSize * d + RunSize
    BY <1>1
  <2>8. Cardinality(Shown(d)) > RunSize * d
    BY <2>6, <2>7
  <2>9. Shown(d) \cap turnRows[d] = {} /\ \A e \in (d + 1)..WindowDays : Shown(d) \cap turnRows[e] = {}
    <3>1. d \in d..WindowDays /\ \A e \in (d + 1)..WindowDays : e \in d..WindowDays
      BY <1>1
    <3>2. QED
      BY <2>6, <3>1
  <2>10. \A e \in (d + 1)..WindowDays : turnRows[d] \cap turnRows[e] = {}
    BY <2>3, <2>4, <2>8, <2>9 DEF Fair
  <2>11. \A e \in (d + 1)..WindowDays : Shown(d + 1) \cap turnRows[e] = {}
    BY <2>1, <2>9, <2>10
  <2>12. Cardinality(Shown(d + 1)) = Cardinality(Shown(d)) + Cardinality(turnRows[d])
    BY <2>1, <2>3, <2>5, <2>9, Disjoint
  <2>13. Cardinality(Shown(d + 1)) = RunSize * (d + 1) + 1
    BY <1>1, <2>4, <2>6, <2>7, <2>12
  <2>14. QED
    BY <2>11, <2>13
<1>9. ASSUME NEW d \in 0..WindowDays PROVE AllApart(d)
  <2> DEFINE Bad == {e \in Nat : e <= WindowDays /\ ~AllApart(e)}
  <2>1. CASE Bad = {}
    BY <1>1, <2>1
  <2>2. CASE Bad # {}
    <3>0. Bad \in SUBSET Nat
      OBVIOUS
    <3>1. PICK e \in Bad : \A x \in Bad : e <= x
      <4> HIDE DEF Bad
      <4>1. QED
        BY <2>2, <3>0, Least
    <3>2. e # 0 /\ e \in Nat /\ e <= WindowDays /\ ~AllApart(e)
      BY <1>7, <3>1
    <3>9. PICK y \in Nat : y = e - 1 /\ y + 1 = e
      BY <3>2
    <3>10. y \notin Bad
      <4> HIDE DEF Bad
      <4>1. QED
        BY <3>1, <3>2, <3>9
    <3>3. e - 1 \in 0..(WindowDays - 1) /\ e - 1 \notin Bad /\ e - 1 \in Nat
      <4> HIDE DEF Bad
      <4>1. QED
        BY <1>1, <3>2, <3>9, <3>10
    <3>4. AllApart(e - 1)
      <4>1. e - 1 <= WindowDays
        BY <1>1, <3>2
      <4> HIDE DEF AllApart
      <4>2. QED
        BY <3>3, <4>1
    <3>5. PICK k \in 0..(WindowDays - 1) : k = e - 1 /\ k + 1 = e
      BY <3>2, <3>3
    <3> HIDE DEF AllApart
    <3>6. AllApart(k + 1)
      BY <1>8, <3>4, <3>5
    <3>7. QED
      BY <3>2, <3>5, <3>6
  <2>3. QED
    BY <2>1, <2>2
<1>10. WindowDays \in 0..WindowDays
  BY <1>1
<1>11. Cardinality(Shown(WindowDays)) = RunSize * WindowDays + 1
  BY <1>9, <1>10
<1>12. /\ Shown(WindowDays) \in SUBSET stock /\ IsFiniteSet(stock)
       /\ Cardinality(stock) \in Nat
  BY <1>3, <1>6, <1>10, TurnSizes
<1> HIDE DEF Shown
<1>13. Cardinality(Shown(WindowDays)) <= Cardinality(stock)
  BY <1>12, Counts
<1>14. PICK q \in Nat : q = RunSize * WindowDays
  BY <1>1
<1>15. QED
  BY <1>2, <1>11, <1>12, <1>13, <1>14

-----------------------------------------------------------------------------
(***************************************************************************)
(* Reading the carousel: what a seller has is dealt in rounds, and what is *)
(* left of it on the page keeps its order.                                 *)
(***************************************************************************)
premiumSellers == s1
onPage == s2
dayRows == s3
reading == s4
paidLately == s5

SellerList(s) ==
  /\ \E n \in 0..TileCap : DOMAIN s = 1..n
  /\ \A i \in DOMAIN s : s[i] \in Numbered
  /\ \A i, j \in DOMAIN s : i # j => s[i] # s[j]

\* Tiles of sellers in S, none twice, TileCap of one seller at most.
TileList(s, S) ==
  /\ \E n \in Nat : DOMAIN s = 1..n
  /\ \A i \in DOMAIN s : s[i] \in Front!Tiles /\ s[i][1] \in S
  /\ \A i, j \in DOMAIN s : i # j => s[i] # s[j]
  /\ \A r \in Couple : Cardinality({i \in DOMAIN s : s[i][1] = r}) <= TileCap

InTurns(s) ==
  \A i, j \in DOMAIN s : i < j /\ s[i][1] = s[j][1] =>
    \A k \in DOMAIN s : k > j => \E n \in i..j : s[n][1] = s[k][1]

FrontInv ==
  /\ Front!TypeOK
  /\ \/ reading = Front!Idle
     \/ /\ reading.step = "rows"
        /\ DOMAIN reading.newest \subseteq paidLately
        /\ \A r \in DOMAIN reading.newest : SellerList(reading.newest[r])
     \/ /\ reading.step \in {"tiles", "answered"}
        /\ TileList(reading.ids, paidLately)
        /\ InTurns(reading.ids)
        /\ reading.step = "answered" =>
             /\ TileList(reading.shown, paidLately)
             /\ Front!Len(reading.shown) = Front!Len(reading.ids) =>
                  InTurns(reading.shown)

LEMMA FrontSizes ==
  ASSUME CatalogueAssumption
  PROVE  /\ IsFiniteSet(Couple) /\ IsFiniteSet(Numbered) /\ Numbered \in SUBSET Nat
         /\ TileCap \in Nat /\ TileCount \in Nat
         /\ None \notin DayPicks
         /\ \A s \in DayPicks : /\ \E n \in Nat : DOMAIN s = 1..n
                                /\ \A i \in DOMAIN s : s[i] \in Numbered
                                /\ \A i, j \in DOMAIN s : i # j => s[i] # s[j]
<1>1. /\ IsFiniteSet(Couple) /\ IsFiniteSet(Numbered) /\ Numbered \in SUBSET Nat
      /\ TileCap \in Nat /\ TileCount \in Nat
      /\ None \notin DayPicks
      /\ \A s \in DayPicks : /\ IsFiniteSet(DOMAIN s) /\ DOMAIN s = 1..Cardinality(DOMAIN s)
                             /\ \A i \in DOMAIN s : s[i] \in Numbered
                             /\ \A i, j \in DOMAIN s : i # j => s[i] # s[j]
  BY SameCounts DEF CatalogueAssumption, Front!PicksAssumption
<1>2. ASSUME NEW s \in DayPicks PROVE \E n \in Nat : DOMAIN s = 1..n
  BY <1>1, Counts
<1>3. QED
  BY <1>1, <1>2

LEMMA FrontCut ==
  ASSUME NEW s, NEW N \in Nat, DOMAIN s = 1..N, NEW n \in Nat
  PROVE  \E m \in 0..n :
           /\ m <= N
           /\ DOMAIN Front!Cut(s, n) = 1..m
           /\ \A i \in 1..m : Front!Cut(s, n)[i] = s[i]
<1>1. Front!Len(s) = N
  BY SameCounts, UpTo DEF Front!Len
<1>2. PICK m \in 0..n : m <= N /\ m = IF N < n THEN N ELSE n
  OBVIOUS
<1>3. QED
  BY <1>1, <1>2 DEF Front!Cut

LEMMA CutList ==
  ASSUME CatalogueAssumption, NEW s, NEW N \in Nat, DOMAIN s = 1..N,
         \A i \in 1..N : s[i] \in Numbered,
         \A i, j \in 1..N : i # j => s[i] # s[j]
  PROVE  SellerList(Front!Cut(s, TileCap))
<1>0. TileCap \in Nat
  BY FrontSizes
<1>4. PICK t : t = Front!Cut(s, TileCap)
  OBVIOUS
<1>1. PICK m \in 0..TileCap : /\ m <= N /\ DOMAIN t = 1..m
                              /\ \A i \in 1..m : t[i] = s[i]
  BY <1>0, <1>4, FrontCut
<1>5. \A i \in 1..m : t[i] = s[i] /\ i \in 1..N
  BY <1>0, <1>1
<1>6. SellerList(t)
  BY <1>1, <1>5 DEF SellerList
<1>3. QED
  BY <1>4, <1>6

LEMMA NewestList ==
  ASSUME CatalogueAssumption, NEW r \in Couple
  PROVE  SellerList(Front!Newest(r))
<1> DEFINE on == {l \in Numbered : <<r, l>> \in onPage}
           f == [n \in 1..Cardinality(on) |-> NthOf(on, n)]
<1>1. Front!Newest(r) = Front!Cut(f, TileCap)
  BY Zenon DEF Front!Newest, onPage, Front!Cardinality, Cardinality, NthOf
<1>2. on \in SUBSET Int /\ IsFiniteSet(on)
  <2>1. on \in SUBSET Numbered
    OBVIOUS
  <2> HIDE DEF on
  <2>2. QED
    BY <2>1, FrontSizes, FS_Subset
<1>3. /\ Cardinality(on) \in Nat
      /\ \A n \in 1..Cardinality(on) : f[n] \in on
      /\ \A m, n \in 1..Cardinality(on) : m # n => f[m] # f[n]
  <2>1. \A n \in 1..Cardinality(on) : f[n] = NthOf(on, n)
    OBVIOUS
  <2> HIDE DEF on, f
  <2>2. QED
    BY <1>2, <2>1, Nth
<1>4. DOMAIN f = 1..Cardinality(on)
  OBVIOUS
<1>5. on \subseteq Numbered
  OBVIOUS
<1> HIDE DEF on, f
<1>6. QED
  BY <1>1, <1>3, <1>4, <1>5, CutList

\* The tiles in rounds: the first of every seller, the second of every one.
LEMMA Dealing ==
  ASSUME CatalogueAssumption, NEW lists, DOMAIN lists \subseteq Couple,
         \A r \in DOMAIN lists : SellerList(lists[r]),
         NEW order \in [Couple -> Nat],
         \A r, q \in Couple : r # q => order[r] # order[q]
  PROVE  /\ TileList(Front!Cut(Front!interleaveByVendor(lists, order), TileCount), DOMAIN lists)
         /\ InTurns(Front!Cut(Front!interleaveByVendor(lists, order), TileCount))
<1> DEFINE spots == {p \in (DOMAIN lists) \X (1..TileCap) : p[2] <= Front!Len(lists[p[1]])}
           before(p) == {q \in spots : \/ q[2] < p[2]
                                       \/ q[2] = p[2] /\ order[q[1]] < order[p[1]]}
           R == {e \in spots \X spots : \/ e[1][2] < e[2][2]
                                        \/ e[1][2] = e[2][2] /\ order[e[1][1]] < order[e[2][1]]}
           spot == [n \in 1..Cardinality(spots) |-> RankedIn(spots, R, n)]
           dealt == Front!interleaveByVendor(lists, order)
<1>1. TileCap \in Nat /\ TileCount \in Nat /\ IsFiniteSet(Couple)
  BY FrontSizes
<1>2. \A p \in spots : p = <<p[1], p[2]>> /\ p[1] \in Couple /\ p[2] \in 1..TileCap
  BY <1>1
<1>3. StrictOrder(spots, R)
  <2>1. \A x \in spots : <<x, x>> \notin R
    BY <1>2
  <2>2. \A x, y, z \in spots : <<x, y>> \in R /\ <<y, z>> \in R => <<x, z>> \in R
    BY <1>2
  <2>3. \A x, y \in spots : x # y => <<x, y>> \in R \/ <<y, x>> \in R
    BY <1>2
  <2>4. QED
    BY <2>1, <2>2, <2>3 DEF StrictOrder
<1>4. IsFiniteSet(spots)
  <2>1. IsFiniteSet(DOMAIN lists) /\ IsFiniteSet(1..TileCap)
    BY <1>1, FS_Subset, FS_Interval
  <2>2. IsFiniteSet((DOMAIN lists) \X (1..TileCap))
    BY <2>1, FS_Product
  <2>3. spots \in SUBSET ((DOMAIN lists) \X (1..TileCap))
    OBVIOUS
  <2> HIDE DEF spots
  <2>4. QED
    BY <2>2, <2>3, FS_Subset
<1>5. \A p \in spots : before(p) = Before(spots, R, p)
  BY DEF Before
<1>6. dealt = [n \in 1..Cardinality(spots) |->
                 <<spot[n][1], lists[spot[n][1]][spot[n][2]]>>]
  <2>1. dealt = [n \in 1..Cardinality(spots) |->
                   LET p == CHOOSE p \in spots : Cardinality(before(p)) = n - 1
                   IN  <<p[1], lists[p[1]][p[2]]>>]
    BY Zenon DEF Front!interleaveByVendor, Front!Cardinality, Cardinality
  <2>2. ASSUME NEW n \in 1..Cardinality(spots)
        PROVE  spot[n] = CHOOSE p \in spots : Cardinality(before(p)) = n - 1
    <3>1. spot[n] = CHOOSE p \in spots : Cardinality(Before(spots, R, p)) = n - 1
      BY Zenon DEF RankedIn
    <3> HIDE DEF spots, R, spot, before
    <3>2. QED
      BY <1>5, <3>1, Zenon
  <2>3. ASSUME NEW n \in 1..Cardinality(spots)
        PROVE  (LET p == CHOOSE p \in spots : Cardinality(before(p)) = n - 1
                IN  <<p[1], lists[p[1]][p[2]]>>) = <<spot[n][1], lists[spot[n][1]][spot[n][2]]>>
    <3> HIDE DEF spots, R, spot, before, dealt
    <3>1. QED
      BY <2>2, Zenon
  <2> DEFINE body(n) == LET p == CHOOSE p \in spots : Cardinality(before(p)) = n - 1
                        IN  <<p[1], lists[p[1]][p[2]]>>
  <2>4. dealt = [n \in 1..Cardinality(spots) |-> body(n)]
    BY <2>1, Zenon
  <2>5. \A n \in 1..Cardinality(spots) :
          body(n) = <<spot[n][1], lists[spot[n][1]][spot[n][2]]>>
    BY <2>3, Zenon
  <2> HIDE DEF spots, R, spot, before, dealt, body
  <2>6. QED
    BY <2>4, <2>5
<1>7. /\ Cardinality(spots) \in Nat
      /\ \A n \in 1..Cardinality(spots) : spot[n] \in spots
      /\ \A p \in spots : \E n \in 1..Cardinality(spots) : spot[n] = p
      /\ \A m, n \in 1..Cardinality(spots) : m < n => <<spot[m], spot[n]>> \in R
      /\ \A m, n \in 1..Cardinality(spots) : <<spot[m], spot[n]>> \in R => m < n
      /\ \A m, n \in 1..Cardinality(spots) : m # n => spot[m] # spot[n]
  <2>1. \A n \in 1..Cardinality(spots) : spot[n] = RankedIn(spots, R, n)
    OBVIOUS
  <2> HIDE DEF spots, R, spot
  <2>2. QED
    BY <1>3, <1>4, <2>1, Ranked
<1>8. PICK N \in Nat : N = Cardinality(spots)
  <2> HIDE DEF spots
  <2>1. QED
    BY <1>4, Counts
<1>9. \A p \in spots : /\ p[1] \in DOMAIN lists /\ p[1] \in Couple /\ p[2] \in 1..TileCap
                       /\ p[2] \in DOMAIN lists[p[1]]
                       /\ \A b \in 1..p[2] : <<p[1], b>> \in spots
  <2> SUFFICES ASSUME NEW p \in spots
               PROVE  /\ p[1] \in DOMAIN lists /\ p[1] \in Couple /\ p[2] \in 1..TileCap
                      /\ p[2] \in DOMAIN lists[p[1]]
                      /\ \A b \in 1..p[2] : <<p[1], b>> \in spots
    OBVIOUS
  <2>1. p[1] \in DOMAIN lists /\ p[1] \in Couple /\ p[2] \in 1..TileCap /\ p[2] <= Front!Len(lists[p[1]])
    BY <1>2
  <2>2. PICK n \in 0..TileCap : DOMAIN lists[p[1]] = 1..n
    BY <2>1 DEF SellerList
  <2>3. Front!Len(lists[p[1]]) = n /\ n \in Nat
    BY <1>1, <2>2, SameCounts, UpTo DEF Front!Len
  <2>4. p[2] \in 1..n
    BY <1>1, <2>1, <2>3
  <2>5. ASSUME NEW b \in 1..p[2] PROVE <<p[1], b>> \in spots
    <3>1. b \in 1..TileCap /\ b <= Front!Len(lists[p[1]])
      BY <1>1, <2>1, <2>3, <2>4
    <3>2. QED
      BY <2>1, <3>1
  <2>6. QED
    BY <2>1, <2>2, <2>4, <2>5
<1>10. \A p, q \in spots : <<p, q>> \in R <=>
         \/ p[2] < q[2]
         \/ p[2] = q[2] /\ order[p[1]] < order[q[1]]
  OBVIOUS
<1>23. PICK ids : ids = Front!Cut(dealt, TileCount)
  OBVIOUS
<1>11. PICK m \in 0..TileCount : /\ m <= N /\ DOMAIN ids = 1..m
                                 /\ \A i \in 1..m : ids[i] = dealt[i]
  <2>1. DOMAIN dealt = 1..N
    BY <1>6, <1>8
  <2> HIDE DEF dealt, spots
  <2>2. QED
    BY <1>1, <1>23, <2>1, FrontCut
<1> HIDE DEF spots, R, spot, before, dealt
<1>12. /\ DOMAIN ids = 1..m
       /\ \A i \in 1..m : i \in 1..N /\ ids[i] = dealt[i]
  BY <1>1, <1>8, <1>11
<1>13. \A i \in 1..m : ids[i] = <<spot[i][1], lists[spot[i][1]][spot[i][2]]>>
  BY <1>6, <1>8, <1>12
<1>14. \A i \in 1..m : /\ spot[i] \in spots /\ ids[i][1] = spot[i][1]
                       /\ ids[i][2] = lists[spot[i][1]][spot[i][2]]
  BY <1>7, <1>8, <1>12, <1>13
<1>15. \A i \in 1..m : ids[i] \in Front!Tiles /\ ids[i][1] \in DOMAIN lists
  <2> SUFFICES ASSUME NEW i \in 1..m PROVE ids[i] \in Front!Tiles /\ ids[i][1] \in DOMAIN lists
    OBVIOUS
  <2>1. PICK r, k : r = spot[i][1] /\ k = spot[i][2] /\ ids[i] = <<r, lists[r][k]>>
    BY <1>13
  <2>2. r \in DOMAIN lists /\ r \in Couple /\ k \in DOMAIN lists[r]
    BY <1>9, <1>14, <2>1
  <2>3. lists[r][k] \in Numbered
    BY <2>2 DEF SellerList
  <2>4. QED
    BY <2>1, <2>2, <2>3 DEF Front!Tiles
<1>16. \A i, j \in 1..m : i # j /\ ids[i][1] = ids[j][1] => spot[i][2] # spot[j][2]
  <2> SUFFICES ASSUME NEW i \in 1..m, NEW j \in 1..m, i # j, ids[i][1] = ids[j][1],
                      spot[i][2] = spot[j][2]
               PROVE  FALSE
    OBVIOUS
  <2>1. spot[i] = spot[j]
    BY <1>2, <1>14
  <2>2. QED
    BY <1>7, <1>8, <1>12, <2>1
<1>17. \A i, j \in 1..m : i # j => ids[i] # ids[j]
  <2> SUFFICES ASSUME NEW i \in 1..m, NEW j \in 1..m, i # j, ids[i] = ids[j]
               PROVE  FALSE
    OBVIOUS
  <2>1. spot[i][1] = spot[j][1] /\ spot[i][2] # spot[j][2]
    BY <1>14, <1>16
  <2>2. PICK r, k, l : r = spot[i][1] /\ k = spot[i][2] /\ l = spot[j][2] /\ k # l
    BY <2>1
  <2>3. r \in DOMAIN lists /\ k \in DOMAIN lists[r] /\ l \in DOMAIN lists[r]
    BY <1>9, <1>14, <2>1, <2>2
  <2>4. ids[i][2] = lists[r][k] /\ ids[j][2] = lists[r][l]
    BY <1>14, <2>1, <2>2
  <2>5. lists[r][k] # lists[r][l]
    BY <2>2, <2>3 DEF SellerList
  <2>6. QED
    BY <2>4, <2>5
<1>18. ASSUME NEW r \in Couple
       PROVE  Cardinality({i \in 1..m : ids[i][1] = r}) <= TileCap
  <2> DEFINE I == {i \in 1..m : ids[i][1] = r}
             g == [i \in I |-> spot[i][2]]
  <2>1. I \in SUBSET (1..m) /\ IsFiniteSet(1..m)
    BY <1>1, UpTo
  <2>2. IsFiniteSet(I)
    BY <2>1, FS_Subset
  <2>3. \A x, y \in I : x # y => g[x] # g[y]
    BY <1>16
  <2>4. \A x \in I : g[x] \in 1..TileCap
    BY <1>9, <1>14
  <2> HIDE DEF I, g
  <2>5. Cardinality({g[x] : x \in I}) = Cardinality(I)
    BY <2>2, <2>3, Distinct
  <2>6. {g[x] : x \in I} \in SUBSET (1..TileCap)
    BY <2>4
  <2>9. IsFiniteSet(1..TileCap) /\ Cardinality(1..TileCap) = TileCap
    BY <1>1, UpTo
  <2>10. PICK G : G = {g[x] : x \in I}
    OBVIOUS
  <2>11. Cardinality(G) <= Cardinality(1..TileCap)
    BY <2>6, <2>9, <2>10, Counts
  <2>7. Cardinality({g[x] : x \in I}) <= TileCap
    BY <2>9, <2>10, <2>11
  <2>8. QED
    BY <2>5, <2>7 DEF I
<1>19. TileList(ids, DOMAIN lists)
  <2>1. m \in Nat
    BY <1>1
  <2>2. QED
    BY <1>12, <1>15, <1>17, <1>18, <2>1 DEF TileList
<1>20. ASSUME NEW i \in 1..m, NEW j \in 1..m, i < j, ids[i][1] = ids[j][1],
              NEW k \in 1..m, k > j
       PROVE  \E n \in i..j : ids[n][1] = ids[k][1]
  <2>1. PICK r \in Couple, a \in 1..TileCap, b \in 1..TileCap :
           spot[i] = <<r, a>> /\ spot[j] = <<r, b>> /\ ids[j][1] = r
    BY <1>2, <1>14, <1>20
  <2>2. PICK q \in Couple, c \in 1..TileCap : spot[k] = <<q, c>> /\ ids[k][1] = q
    BY <1>2, <1>14
  <2>3. /\ <<spot[i], spot[j]>> \in R /\ <<spot[j], spot[k]>> \in R
        /\ spot[i] \in spots /\ spot[j] \in spots /\ spot[k] \in spots
    BY <1>7, <1>8, <1>12, <1>20
  <2>4. order[r] \in Nat /\ order[q] \in Nat /\ (r # q => order[r] # order[q])
    OBVIOUS
  <2>5. a < b
    BY <1>10, <2>1, <2>3, <2>4
  <2>6. b <= c
    BY <1>10, <2>1, <2>2, <2>3
  <2>7. ASSUME NEW d \in 1..TileCap, d <= c,
               \/ a < d /\ d < b
               \/ d = b /\ order[q] < order[r]
               \/ d = a /\ order[r] < order[q]
        PROVE  \E n \in i..j : ids[n][1] = q
    <3>1. <<q, d>> \in spots
      <4>1. d \in 1..spot[k][2] /\ spot[k][1] = q
        BY <2>2, <2>7
      <4>2. QED
        BY <1>9, <2>3, <4>1
    <3>2. PICK n \in 1..N : spot[n] = <<q, d>>
      BY <1>7, <1>8, <3>1
    <3>3. <<spot[i], spot[n]>> \in R /\ <<spot[n], spot[j]>> \in R
      BY <1>10, <2>1, <2>3, <2>5, <2>7, <3>1, <3>2
    <3>4. i < n /\ n < j
      BY <1>7, <1>8, <1>12, <3>3
    <3>5. n \in 1..m /\ n \in i..j
      BY <3>4
    <3>6. ids[n][1] = q
      BY <1>14, <3>2, <3>5
    <3>7. QED
      BY <3>5, <3>6
  <2>8. CASE q = r
    BY <1>20, <2>1, <2>2, <2>8
  <2>9. CASE q # r /\ order[q] < order[r]
    BY <2>2, <2>6, <2>7, <2>9
  <2>10. CASE q # r /\ order[r] < order[q]
    BY <2>2, <2>5, <2>6, <2>7, <2>10
  <2>11. QED
    BY <2>4, <2>8, <2>9, <2>10
<1>21. InTurns(ids)
  BY <1>12, <1>20 DEF InTurns
<1>22. QED
  BY <1>19, <1>21, <1>23 DEF dealt

LEMMA FrontInit == ASSUME CatalogueAssumption, Front!Init PROVE FrontInv
<1>1. Front!Idle.step = "idle"
  BY DEF Front!Idle
<1>2. Front!TypeOK
  BY <1>1 DEF Front!Init, Front!TypeOK
<1>3. QED
  BY <1>2 DEF Front!Init, FrontInv, reading

LEMMA MorePaid ==
  ASSUME NEW s, NEW S, NEW T, S \subseteq T, TileList(s, S)
  PROVE  TileList(s, T)
  BY DEF TileList

LEMMA SameTurns ==
  ASSUME NEW N \in Nat, NEW s, NEW t, DOMAIN s = 1..N, DOMAIN t = 1..N,
         \A n \in 1..N : s[n] = t[n], InTurns(s)
  PROVE  InTurns(t)
<1>1. \A i, j \in 1..N : \A n \in i..j : n \in 1..N
  OBVIOUS
<1>2. QED
  BY <1>1 DEF InTurns

\* Listings that are no longer on show are dropped.
LeftOf(ids, on) ==
  LET kept == {i \in DOMAIN ids : ids[i] \in on}
      nth(n) == CHOOSE i \in kept : Front!Cardinality({j \in kept : j <= i}) = n
  IN  [n \in 1..Front!Cardinality(kept) |-> ids[nth(n)]]

LEMMA LeftIs ==
  ASSUME NEW ids, NEW on
  PROVE  \E kept \in SUBSET DOMAIN ids :
           LeftOf(ids, on) = [n \in 1..Cardinality(kept) |-> ids[NthOf(kept, n)]]
<1> DEFINE kept == {i \in DOMAIN ids : ids[i] \in on}
<1>1. LeftOf(ids, on) = [n \in 1..Cardinality(kept) |-> ids[NthOf(kept, n)]]
  BY Zenon DEF LeftOf, NthOf, Front!Cardinality, Cardinality
<1>2. kept \in SUBSET DOMAIN ids
  OBVIOUS
<1>3. QED
  BY <1>1, <1>2, Zenon

LEMMA Kept ==
  ASSUME CatalogueAssumption, NEW ids, NEW S, TileList(ids, S), InTurns(ids), NEW on
  PROVE  /\ TileList(LeftOf(ids, on), S)
         /\ Cardinality(DOMAIN LeftOf(ids, on)) = Cardinality(DOMAIN ids) =>
              InTurns(LeftOf(ids, on))
<1>1. PICK N \in Nat : DOMAIN ids = 1..N
  BY DEF TileList
<1>2. PICK kept \in SUBSET DOMAIN ids :
        LeftOf(ids, on) = [n \in 1..Cardinality(kept) |-> ids[NthOf(kept, n)]]
  BY LeftIs
<1>3. PICK shown, f : /\ shown = LeftOf(ids, on)
                      /\ f = [n \in 1..Cardinality(kept) |-> NthOf(kept, n)]
  OBVIOUS
<1>4. /\ \A n \in 1..Cardinality(kept) : f[n] = NthOf(kept, n)
      /\ DOMAIN shown = 1..Cardinality(kept)
      /\ \A n \in 1..Cardinality(kept) : shown[n] = ids[f[n]]
  BY <1>2, <1>3
<1>12. IsFiniteSet(1..N) /\ Cardinality(1..N) = N /\ kept \in SUBSET (1..N)
  BY <1>1, UpTo
<1>5. /\ IsFiniteSet(kept) /\ Cardinality(kept) \in Nat /\ Cardinality(kept) <= N
      /\ kept # 1..N => Cardinality(kept) < N
  BY <1>12, Counts
<1>6. PICK K \in Nat : K = Cardinality(kept) /\ K <= N /\ (kept # 1..N => K < N)
  BY <1>5
<1>7. /\ \A n \in 1..K : f[n] \in kept
      /\ \A m, n \in 1..K : m # n => f[m] # f[n]
  <2>1. kept \in SUBSET Int
    BY <1>12
  <2>2. /\ \A n \in 1..Cardinality(kept) : f[n] \in kept
        /\ \A m, n \in 1..Cardinality(kept) : m # n => f[m] # f[n]
    BY <1>4, <1>5, <2>1, Nth
  <2>3. QED
    BY <1>6, <2>2
<1>8. DOMAIN shown = 1..K /\ \A n \in 1..K : shown[n] = ids[f[n]] /\ f[n] \in 1..N
  BY <1>12, <1>4, <1>6, <1>7
<1>9. TileList(shown, S)
  <2>1. \A n \in 1..K : shown[n] \in Front!Tiles /\ shown[n][1] \in S
    BY <1>1, <1>8 DEF TileList
  <2>2. \A m, n \in 1..K : m # n => shown[m] # shown[n]
    <3>1. \A i, j \in 1..N : i # j => ids[i] # ids[j]
      BY <1>1 DEF TileList
    <3>2. QED
      BY <1>7, <1>8, <3>1
  <2>3. ASSUME NEW r \in Couple
        PROVE  Cardinality({n \in 1..K : shown[n][1] = r}) <= TileCap
    <3> DEFINE I == {n \in 1..K : shown[n][1] = r}
               J == {i \in 1..N : ids[i][1] = r}
    <3>1. I \in SUBSET (1..K) /\ IsFiniteSet(1..K) /\ J \in SUBSET (1..N)
      BY UpTo
    <3>2. IsFiniteSet(I) /\ IsFiniteSet(J)
      BY <1>12, <3>1, FS_Subset
    <3>3. \A x, y \in I : x # y => f[x] # f[y]
      BY <1>7
    <3>4. {f[x] : x \in I} \in SUBSET J
      BY <1>8
    <3>5. Cardinality(J) <= TileCap
      BY <1>1 DEF TileList
    <3> HIDE DEF I, J
    <3>6. Cardinality({f[x] : x \in I}) = Cardinality(I)
      BY <3>2, <3>3, Distinct
    <3>7. PICK G : G = {f[x] : x \in I}
      OBVIOUS
    <3>8. Cardinality(G) <= Cardinality(J) /\ Cardinality(J) \in Nat /\ Cardinality(G) \in Nat
      BY <3>2, <3>4, <3>7, Counts
    <3>9. Cardinality(I) <= TileCap
      <4>1. PICK a \in Nat, b \in Nat : a = Cardinality(G) /\ b = Cardinality(J) /\ a <= b
        BY <3>8
      <4>2. TileCap \in Nat
        BY FrontSizes
      <4>3. QED
        BY <3>5, <3>6, <3>7, <4>1, <4>2
    <3>10. QED
      BY <3>9 DEF I
  <2>4. QED
    BY <1>8, <2>1, <2>2, <2>3 DEF TileList
<1>10. ASSUME Cardinality(DOMAIN shown) = Cardinality(DOMAIN ids) PROVE InTurns(shown)
  <2>1. K = N
    BY <1>1, <1>8, <1>10, UpTo
  <2>2. kept = 1..N
    BY <1>6, <2>1
  <2>3. \A n \in 1..N : f[n] = n
    BY <1>4, <1>6, <2>1, <2>2, NthOfAll
  <2>4. \A n \in 1..N : ids[n] = shown[n]
    BY <1>8, <2>1, <2>3
  <2>5. QED
    BY <1>1, <1>8, <2>1, <2>4, SameTurns
<1>11. QED
  BY <1>3, <1>9, <1>10

LEMMA FrontStays ==
  ASSUME FrontInv, Front!TypeOK', reading' = reading, paidLately \subseteq paidLately'
  PROVE  FrontInv'
<1>1. \A s : TileList(s, paidLately) => TileList(s, paidLately')
  BY MorePaid
<1>2. \A s : TileList(s, paidLately') => TileList(s, paidLately)'
  BY DEF TileList
<1>3. QED
  BY <1>1 DEF FrontInv

LEMMA FrontNext == ASSUME CatalogueAssumption, FrontInv, Front!Next PROVE FrontInv'
<1>0. Front!TypeOK
  BY DEF FrontInv
<1>1. CASE Front!ReadSellers
  <2>1. /\ reading.step = "idle"
        /\ reading' = [step |-> "rows", newest |-> [r \in premiumSellers |-> Front!Newest(r)]]
        /\ paidLately' = premiumSellers /\ UNCHANGED <<premiumSellers, onPage, dayRows>>
    BY <1>1 DEF Front!ReadSellers, Front!Idle, reading, premiumSellers, paidLately, onPage, dayRows
  <2>2. premiumSellers \subseteq Couple
    BY <1>0 DEF Front!TypeOK, premiumSellers
  <2>3. Front!TypeOK'
    BY <1>0, <2>1 DEF Front!TypeOK, reading, premiumSellers, paidLately, onPage, dayRows
  <2>4. \A r \in premiumSellers : SellerList(Front!Newest(r))
    BY <2>2, NewestList
  <2>5. /\ reading'.step = "rows" /\ DOMAIN reading'.newest = premiumSellers
        /\ \A r \in premiumSellers : reading'.newest[r] = Front!Newest(r)
    BY <2>1
  <2>6. \A r \in premiumSellers : SellerList(reading'.newest[r])
    BY <2>4, <2>5
  <2>7. QED
    BY <2>1, <2>3, <2>5, <2>6 DEF FrontInv, SellerList
<1>2. ASSUME NEW order \in [Couple -> 1..Front!Cardinality(Couple)],
             \A r, q \in Couple : r # q => order[r] # order[q], Front!ReadRows(order)
      PROVE  FrontInv'
  <2> DEFINE list(r) == IF dayRows[r] # None THEN Front!Cut(dayRows[r], TileCap) ELSE reading.newest[r]
             lists == [r \in DOMAIN reading.newest |-> list(r)]
             ids == Front!Cut(Front!interleaveByVendor(lists, order), TileCount)
  <2>1. /\ reading.step = "rows" /\ reading' = [step |-> "tiles", ids |-> ids]
        /\ UNCHANGED <<premiumSellers, onPage, dayRows, paidLately>>
    BY <1>2, Zenon DEF Front!ReadRows, reading, dayRows, premiumSellers, onPage, paidLately
  <2>2. /\ DOMAIN reading.newest \subseteq paidLately /\ paidLately \subseteq Couple
        /\ \A r \in DOMAIN reading.newest : SellerList(reading.newest[r])
        /\ dayRows \in [Couple -> DayPicks \cup {None}]
    <3>1. reading # Front!Idle
      BY <2>1 DEF Front!Idle
    <3>2. QED
      BY <1>0, <2>1, <3>1 DEF FrontInv, Front!TypeOK, paidLately, dayRows
  <2>3. ASSUME NEW r \in DOMAIN reading.newest PROVE SellerList(list(r))
    <3>1. CASE dayRows[r] = None
      BY <2>2, <3>1
    <3>2. CASE dayRows[r] # None
      <4>1. PICK s \in DayPicks : s = dayRows[r]
        BY <2>2, <3>2
      <4>2. SellerList(Front!Cut(s, TileCap))
        <5>1. PICK N \in Nat : DOMAIN s = 1..N
          BY FrontSizes
        <5>2. /\ \A i \in 1..N : s[i] \in Numbered
              /\ \A i, j \in 1..N : i # j => s[i] # s[j]
          BY <5>1, FrontSizes
        <5>3. QED
          BY <5>1, <5>2, CutList
      <4>3. QED
        BY <3>2, <4>1, <4>2
    <3>3. QED
      BY <3>1, <3>2
  <2>4. order \in [Couple -> Nat]
    <3>1. 1..Front!Cardinality(Couple) \subseteq Nat
      BY SameCounts, FrontSizes, FS_CardinalityType
    <3>2. QED
      BY <3>1
  <2>5. /\ DOMAIN lists \subseteq Couple /\ DOMAIN lists \subseteq paidLately
        /\ \A r \in DOMAIN lists : SellerList(lists[r])
    BY <2>2, <2>3
  <2> HIDE DEF lists
  <2>6. TileList(ids, DOMAIN lists) /\ InTurns(ids)
    BY <1>2, <2>4, <2>5, Dealing
  <2>7. TileList(ids, paidLately)
    BY <2>5, <2>6, MorePaid
  <2> HIDE DEF ids
  <2>8. reading'.step = "tiles" /\ reading'.ids = ids
    BY <2>1
  <2>9. TileList(reading'.ids, paidLately') /\ InTurns(reading'.ids)
    BY <2>1, <2>6, <2>7, <2>8
  <2>10. Front!TypeOK'
    BY <1>0, <2>1, <2>8, <2>9 DEF Front!TypeOK, TileList, reading, premiumSellers, paidLately,
       onPage, dayRows
  <2>11. QED
    BY <2>8, <2>9, <2>10 DEF FrontInv, TileList, InTurns
<1>3. CASE Front!ReadTiles
  <2> DEFINE shown == LeftOf(reading.ids, onPage)
  <2>1. /\ reading.step = "tiles"
        /\ reading' = [step |-> "answered", ids |-> reading.ids, shown |-> shown]
        /\ UNCHANGED <<premiumSellers, onPage, dayRows, paidLately>>
    BY <1>3, Zenon DEF LeftOf, Front!ReadTiles, reading, dayRows, premiumSellers, onPage, paidLately
  <2>2. TileList(reading.ids, paidLately) /\ InTurns(reading.ids)
    <3> HIDE DEF shown
    <3>1. reading # Front!Idle
      BY <2>1 DEF Front!Idle
    <3>2. QED
      BY <2>1, <3>1 DEF FrontInv
  <2>3. /\ TileList(shown, paidLately)
        /\ Front!Len(shown) = Front!Len(reading.ids) => InTurns(shown)
    BY <2>2, Kept, SameCounts DEF Front!Len
  <2> HIDE DEF shown
  <2>4. reading'.step = "answered" /\ reading'.ids = reading.ids /\ reading'.shown = shown
    BY <2>1
  <2>5. /\ TileList(reading'.ids, paidLately') /\ InTurns(reading'.ids)
        /\ TileList(reading'.shown, paidLately')
        /\ Front!Len(reading'.shown) = Front!Len(reading'.ids) => InTurns(reading'.shown)
    BY <2>1, <2>2, <2>3, <2>4
  <2>6. Front!TypeOK'
    BY <1>0, <2>1, <2>4, <2>5 DEF Front!TypeOK, TileList, reading, premiumSellers, paidLately,
       onPage, dayRows
  <2>7. QED
    BY <2>4, <2>5, <2>6 DEF FrontInv, TileList, InTurns
<1>4. CASE Front!Answered
  <2>1. Front!Idle.step = "idle"
    BY DEF Front!Idle
  <2>2. Front!TypeOK'
    BY <1>0, <1>4, <2>1 DEF Front!TypeOK, Front!Answered
  <2>3. QED
    BY <1>4, <2>2 DEF FrontInv, Front!Answered, reading
<1>5. ASSUME NEW r \in Couple, Front!ChangePlan(r) PROVE FrontInv'
  <2>1. Front!TypeOK'
    BY <1>0, <1>5 DEF Front!TypeOK, Front!ChangePlan
  <2>2. QED
    BY <1>5, <2>1, FrontStays DEF Front!ChangePlan, reading, paidLately
<1>6. ASSUME NEW t \in Front!Tiles, Front!ChangeListing(t) PROVE FrontInv'
  <2>1. Front!TypeOK'
    BY <1>0, <1>6 DEF Front!TypeOK, Front!ChangeListing
  <2>2. QED
    BY <1>6, <2>1, FrontStays DEF Front!ChangeListing, reading, paidLately
<1>7. QED
  BY <1>1, <1>2, <1>3, <1>4, <1>5, <1>6 DEF Front!Next

LEMMA FrontMeans ==
  ASSUME FrontInv
  PROVE  Front!OnlyPremiumShown /\ Front!SellersTakeTurns
<1> SUFFICES ASSUME reading.step = "answered"
             PROVE  Front!OnlyPremiumShown /\ Front!SellersTakeTurns
  BY DEF Front!OnlyPremiumShown, Front!SellersTakeTurns, reading
<1>1. /\ TileList(reading.shown, paidLately)
      /\ Front!Len(reading.shown) = Front!Len(reading.ids) => InTurns(reading.shown)
  BY DEF FrontInv, Front!Idle
<1>2. Front!OnlyPremiumShown
  BY <1>1, SameCounts DEF TileList, Front!OnlyPremiumShown, reading, paidLately
<1>3. Front!SellersTakeTurns
  BY <1>1 DEF InTurns, Front!SellersTakeTurns, reading
<1>4. QED
  BY <1>2, <1>3

-----------------------------------------------------------------------------
(***************************************************************************)
(* The home screen: a rail holds what was on show, once.                   *)
(***************************************************************************)
onOffer == s1
homeRows == s2
opened == s3
screen == s5
wasOnShow == s6

\* Listings of S, none twice.
Rail(s, S) ==
  /\ \E n \in Nat : DOMAIN s = 1..n
  /\ \A i \in DOMAIN s : s[i] \in S
  /\ \A i, j \in DOMAIN s : i # j => s[i] # s[j]

Full(rail) == rail.section.type # "banner" => Feed!Len(rail.listings) >= rail.section.minResults

FeedInv ==
  /\ onOffer \subseteq Posted /\ wasOnShow \subseteq Posted
  /\ homeRows \in [1..2 -> HomeSet]
  /\ \E n \in Nat : opened \in [1..n -> Posted]
  /\ s4 \in 0..FeedTime
  /\ \/ screen = Feed!Idle
     \/ /\ screen = [step |-> screen.step, rails |-> screen.rails, todo |-> screen.todo]
        /\ screen.step \in {"sections", "answered"}
        /\ onOffer \subseteq wasOnShow
        /\ \E n \in Nat : DOMAIN screen.rails = 1..n
        /\ \A i \in DOMAIN screen.rails :
             Rail(screen.rails[i].listings, wasOnShow) /\ Full(screen.rails[i])
        /\ \E n \in Nat : screen.todo \in [1..n -> Feed!Section]

LEMMA FeedSizes ==
  ASSUME CatalogueAssumption
  PROVE  /\ IsFiniteSet(Posted) /\ Posted \in SUBSET Int /\ HomeSet \in SUBSET Feed!Section
         /\ Default \in Nat /\ MaxRail \in Nat /\ MaxPage \in Nat /\ ViewPool \in Nat
         /\ Target \in Nat /\ FeedViews \in Nat /\ FeedTime \in Nat
  BY SameCounts DEF CatalogueAssumption, Feed!FeedAssumption

LEMMA FeedLen == ASSUME NEW s, NEW N \in Nat, DOMAIN s = 1..N PROVE Feed!Len(s) = N
  BY SameCounts, UpTo DEF Feed!Len

LEMMA FeedCut ==
  ASSUME NEW s, NEW N \in Nat, DOMAIN s = 1..N, NEW n \in Nat
  PROVE  \E m \in Nat : /\ m = Fewer(N, n) /\ m <= N /\ m <= n
                        /\ DOMAIN Feed!Cut(s, n) = 1..m
                        /\ \A i \in 1..m : Feed!Cut(s, n)[i] = s[i]
<1>1. PICK m \in Nat : m = Fewer(N, n) /\ m <= N /\ m <= n /\ m = IF N < n THEN N ELSE n
  BY DEF Fewer
<1>2. PICK t : t = Feed!Cut(s, n) /\ t = [i \in 1..m |-> s[i]]
  BY <1>1, FeedLen DEF Feed!Cut
<1>3. DOMAIN t = 1..m /\ \A i \in 1..m : t[i] = s[i]
  BY <1>1, <1>2
<1>4. QED
  BY <1>1, <1>2, <1>3

LEMMA CutRail ==
  ASSUME NEW s, NEW S, Rail(s, S), NEW n \in Nat
  PROVE  Rail(Feed!Cut(s, n), S)
<1>1. PICK N \in Nat : DOMAIN s = 1..N
  BY DEF Rail
<1>2. PICK t : t = Feed!Cut(s, n)
  OBVIOUS
<1>3. PICK m \in Nat :
        /\ m = Fewer(N, n) /\ m <= N /\ m <= n
        /\ DOMAIN Feed!Cut(s, n) = 1..m
        /\ \A i \in 1..m : Feed!Cut(s, n)[i] = s[i]
  BY <1>1, FeedCut
<1>6. DOMAIN t = 1..m /\ \A i \in 1..m : t[i] = s[i] /\ i \in 1..N
  BY <1>2, <1>3
<1>4. Rail(t, S)
  BY <1>1, <1>3, <1>6 DEF Rail
<1>5. QED
  BY <1>2, <1>4

\* The places P of s, in their order.
Places(t, s, P, K, f) ==
  /\ DOMAIN t = 1..K /\ t = [n \in 1..K |-> t[n]]
  /\ \A n \in 1..K : t[n] = s[f[n]] /\ f[n] \in P
  /\ \A x \in P : \E n \in 1..K : f[n] = x
  /\ \A m, n \in 1..K : m < n => f[m] < f[n]
  /\ \A m, n \in 1..K : m # n => f[m] # f[n]

LEMMA FeedAt ==
  ASSUME NEW s, NEW N \in Nat, NEW P \in SUBSET (1..N), NEW t, t = Feed!At(s, P)
  PROVE  \E K \in Nat : \E f : Places(t, s, P, K, f)
<1>1. Feed!At(s, P) = [n \in 1..Cardinality(P) |-> s[NthOf(P, n)]]
  BY Zenon DEF Feed!At, NthOf, Feed!Cardinality, Cardinality
<1>2. P \in SUBSET Int /\ IsFiniteSet(P) /\ Cardinality(P) \in Nat
  <2>1. IsFiniteSet(1..N) /\ P \in SUBSET Int
    BY UpTo
  <2>2. QED
    BY <2>1, Counts
<1>3. PICK K \in Nat : K = Cardinality(P)
  BY <1>2
<1>4. PICK f : f = [n \in 1..Cardinality(P) |-> NthOf(P, n)]
  OBVIOUS
<1>5. \A n \in 1..Cardinality(P) : f[n] = NthOf(P, n)
  BY <1>4
<1>6. /\ \A n \in 1..Cardinality(P) : f[n] \in P
      /\ \A x \in P : \E n \in 1..Cardinality(P) : f[n] = x
      /\ \A m, n \in 1..Cardinality(P) : m < n => f[m] < f[n]
      /\ \A m, n \in 1..Cardinality(P) : m # n => f[m] # f[n]
  BY <1>2, <1>5, Nth
<1>7. DOMAIN t = 1..K /\ t = [n \in 1..K |-> t[n]] /\ \A n \in 1..K : t[n] = s[f[n]]
  BY <1>1, <1>3, <1>5
<1>8. Places(t, s, P, K, f)
  BY <1>3, <1>6, <1>7 DEF Places
<1>9. QED
  BY <1>8

\* Where the rail of what the viewer opened comes from.
RecentFrom(rail, pool, N, m, K, L, f) ==
  /\ DOMAIN opened = 1..N /\ m <= N /\ L = Fewer(K, Target)
  /\ DOMAIN pool = 1..m
  /\ \A i \in 1..m : pool[i] = opened[i]
  /\ DOMAIN rail = 1..L
  /\ \A n \in 1..L : rail[n] = opened[f[n]] /\ n \in 1..K
  /\ \A n \in 1..K : /\ f[n] \in 1..m /\ opened[f[n]] \in onOffer
                     /\ \A j \in 1..m : j < f[n] => opened[j] # opened[f[n]]
  /\ \A i \in 1..m : /\ opened[i] \in onOffer
                     /\ \A j \in 1..m : j < i => opened[j] # opened[i]
                     => \E n \in 1..K : f[n] = i
  /\ \A p, n \in 1..K : p < n => f[p] < f[n]
  /\ \A p, n \in 1..K : p # n => f[p] # f[n]

LEMMA RecentIs ==
  ASSUME CatalogueAssumption, FeedInv,
         NEW rail, rail = Feed!resolveRecentViews,
         NEW pool, pool = Feed!Cut(opened, ViewPool)
  PROVE  \E N \in Nat, m \in Nat, K \in Nat, L \in Nat : \E f :
           RecentFrom(rail, pool, N, m, K, L, f)
<1>1. PICK N \in Nat : DOMAIN opened = 1..N
  BY DEF FeedInv
<1>3. ViewPool \in Nat /\ Target \in Nat
  BY FeedSizes
<1>2. PICK m \in Nat :
        /\ m = Fewer(N, ViewPool) /\ m <= N /\ m <= ViewPool
        /\ DOMAIN Feed!Cut(opened, ViewPool) = 1..m
        /\ \A i \in 1..m : Feed!Cut(opened, ViewPool)[i] = opened[i]
  BY <1>1, <1>3, FeedCut
<1>4. m <= N /\ DOMAIN pool = 1..m /\ \A i \in 1..m : pool[i] = opened[i]
  BY <1>2
<1> DEFINE P == {i \in DOMAIN pool : /\ pool[i] \in onOffer
                                     /\ \A j \in DOMAIN pool : j < i => pool[j] # pool[i]}
<1>5. P \in SUBSET (1..m)
  BY <1>4
<1>6. PICK t : t = Feed!At(pool, P)
  OBVIOUS
<1>7. rail = Feed!Cut(t, Target)
  BY <1>6, Zenon DEF Feed!resolveRecentViews, opened, onOffer
<1>11. ASSUME NEW i \in P
       PROVE  /\ i \in 1..m /\ pool[i] = opened[i] /\ opened[i] \in onOffer
              /\ \A j \in 1..m : j < i => opened[j] # opened[i]
  BY <1>4
<1>12. ASSUME NEW i \in 1..m, opened[i] \in onOffer,
              \A j \in 1..m : j < i => opened[j] # opened[i]
       PROVE  i \in P
  BY <1>4, <1>12
<1> HIDE DEF P
<1>8k. PICK K \in Nat : \E f : Places(t, pool, P, K, f)
  BY <1>4, <1>5, <1>6, FeedAt
<1>8. PICK f : Places(t, pool, P, K, f)
  BY <1>8k
<1>18. DOMAIN t = 1..K
  BY <1>8 DEF Places
<1>19. PICK L \in Nat :
        /\ L = Fewer(K, Target) /\ L <= K /\ L <= Target
        /\ DOMAIN Feed!Cut(t, Target) = 1..L
        /\ \A i \in 1..L : Feed!Cut(t, Target)[i] = t[i]
  BY <1>3, <1>18, FeedCut
<1>9. /\ L = Fewer(K, Target) /\ L <= K /\ DOMAIN rail = 1..L
      /\ \A n \in 1..L : rail[n] = t[n]
  BY <1>7, <1>19
<1>10. \A n \in 1..L : rail[n] = t[n] /\ n \in 1..K
  BY <1>9
<1>13. \A n \in 1..K : t[n] = pool[f[n]] /\ f[n] \in P
  BY <1>8 DEF Places
<1>14. \A n \in 1..L : rail[n] = opened[f[n]] /\ n \in 1..K
  BY <1>10, <1>11, <1>13
<1>15. \A n \in 1..K : /\ f[n] \in 1..m /\ opened[f[n]] \in onOffer
                       /\ \A j \in 1..m : j < f[n] => opened[j] # opened[f[n]]
  BY <1>11, <1>13
<1>16. \A i \in 1..m : /\ opened[i] \in onOffer
                       /\ \A j \in 1..m : j < i => opened[j] # opened[i]
                       => \E n \in 1..K : f[n] = i
  BY <1>8, <1>12 DEF Places
<1>17. RecentFrom(rail, pool, N, m, K, L, f)
  BY <1>1, <1>4, <1>8, <1>9, <1>10, <1>14, <1>15, <1>16 DEF RecentFrom, Places
<1>20. QED
  BY <1>17

LEMMA RecentRail ==
  ASSUME CatalogueAssumption, FeedInv
  PROVE  Rail(Feed!resolveRecentViews, onOffer)
<1>1. PICK rail, pool : rail = Feed!resolveRecentViews /\ pool = Feed!Cut(opened, ViewPool)
  OBVIOUS
<1>2k. PICK N \in Nat, m \in Nat, K \in Nat, L \in Nat : \E f :
         RecentFrom(rail, pool, N, m, K, L, f)
  BY <1>1, RecentIs
<1>2. PICK f : RecentFrom(rail, pool, N, m, K, L, f)
  BY <1>2k
<1>3. /\ DOMAIN rail = 1..L
      /\ \A n \in 1..L : rail[n] = opened[f[n]] /\ n \in 1..K
      /\ \A n \in 1..K : /\ f[n] \in 1..m /\ opened[f[n]] \in onOffer
                         /\ \A j \in 1..m : j < f[n] => opened[j] # opened[f[n]]
      /\ \A p, n \in 1..K : p < n => f[p] < f[n]
  BY <1>2 DEF RecentFrom
<1>4. \A i, j \in 1..L : i < j => rail[i] # rail[j]
  <2> SUFFICES ASSUME NEW i \in 1..L, NEW j \in 1..L, i < j PROVE rail[i] # rail[j]
    OBVIOUS
  <2>1. i \in 1..K /\ j \in 1..K
    BY <1>3
  <2>2. f[i] < f[j] /\ f[i] \in 1..m /\ \A x \in 1..m : x < f[j] => opened[x] # opened[f[j]]
    BY <1>3, <2>1
  <2>3. opened[f[i]] # opened[f[j]]
    BY <2>2
  <2>4. QED
    BY <1>3, <2>3
<1>5. \A i, j \in 1..L : i # j => rail[i] # rail[j]
  <2>1. \A i, j \in 1..L : i # j => i < j \/ j < i
    OBVIOUS
  <2>2. QED
    BY <1>4, <2>1
<1>6. Rail(rail, onOffer)
  BY <1>3, <1>5 DEF Rail
<1>7. QED
  BY <1>1, <1>6

\* What a filter finds, in its order.
LEMMA MatchRail ==
  ASSUME CatalogueAssumption, onOffer \subseteq Posted, NEW filter, NEW s \in Feed!Matches(filter)
  PROVE  Rail(s, onOffer)
<1>1. IsFiniteSet(onOffer) /\ Cardinality(onOffer) \in Nat /\ onOffer \in SUBSET Int
  BY FeedSizes, Counts
<1>2. CASE filter = None
  <2>1. s \in [1..Cardinality(onOffer) -> onOffer] /\ {s[i] : i \in DOMAIN s} = onOffer
    BY <1>2, SameCounts DEF Feed!Matches, Feed!Orders, Feed!Members, onOffer
  <2>2. PICK n \in Nat : n = Cardinality(onOffer)
    BY <1>1
  <2>3. s \in [1..n -> onOffer]
    BY <2>1, <2>2
  <2>4. s \in Surjection(1..n, onOffer)
    BY <2>1, <2>3 DEF Surjection
  <2>5. IsFiniteSet(1..n) /\ Cardinality(1..n) = n
    BY UpTo
  <2>6. s \in Injection(1..n, onOffer)
    BY <2>2, <2>4, <2>5, FS_Surjection
  <2>7. \A i, j \in 1..n : i # j => s[i] # s[j]
    BY <2>6 DEF Injection, IsInjective
  <2>8. QED
    BY <2>3, <2>7 DEF Rail
<1>3. CASE filter # None
  <2> DEFINE found == onOffer \cap filter.lets
  <2>1. s = [n \in 1..Cardinality(found) |-> NthOf(found, n)]
    BY <1>3, Zenon DEF Feed!Matches, onOffer, NthOf, Feed!Cardinality, Cardinality
  <2>2. found \in SUBSET Int /\ found \in SUBSET onOffer
    BY <1>1
  <2> HIDE DEF found
  <2>3. IsFiniteSet(found)
    BY <1>1, <2>2, Counts
  <2>4. \A n \in 1..Cardinality(found) : s[n] = NthOf(found, n)
    BY <2>1
  <2>5. /\ Cardinality(found) \in Nat
        /\ \A n \in 1..Cardinality(found) : s[n] \in found
        /\ \A m, n \in 1..Cardinality(found) : m # n => s[m] # s[n]
    BY <2>2, <2>3, <2>4, Nth
  <2>6. DOMAIN s = 1..Cardinality(found)
    BY <2>1
  <2>7. QED
    BY <2>2, <2>5, <2>6 DEF Rail
<1>4. QED
  BY <1>2, <1>3

LEMMA RailSizeNat ==
  ASSUME CatalogueAssumption, NEW s \in Feed!Section
  PROVE  Feed!RailSize(s.filter) \in Nat
<1>1. s.filter \in Feed!Filter \cup {None} /\ Default \in Nat /\ MaxRail \in Nat
  BY FeedSizes DEF Feed!Section
<1>2. QED
  BY <1>1 DEF Feed!RailSize, Feed!Min2, Feed!Filter

LEMMA SomeRail ==
  ASSUME CatalogueAssumption, FeedInv, NEW s \in Feed!Section, NEW rail \in Feed!Rails(s)
  PROVE  Rail(rail, onOffer)
<1>1. CASE s.type = "recent"
  BY <1>1, RecentRail DEF Feed!Rails
<1>2. CASE s.type = "banner"
  <2>1. rail = <<>>
    BY <1>2 DEF Feed!Rails
  <2>2. DOMAIN rail = 1..0
    BY <2>1
  <2>3. QED
    BY <2>2 DEF Rail
<1>3. CASE s.type \notin {"recent", "banner"}
  <2>1. rail \in Feed!buildProductQuery(s.filter, s.type = "grid")
    BY <1>3, Zenon DEF Feed!Rails
  <2>2. PICK q \in Feed!Matches(s.filter) :
          rail = q \/ rail = Feed!Cut(q, Feed!RailSize(s.filter))
    BY <2>1 DEF Feed!buildProductQuery
  <2>3. Rail(q, onOffer)
    BY MatchRail DEF FeedInv
  <2>4. Feed!RailSize(s.filter) \in Nat
    BY RailSizeNat
  <2>5. QED
    BY <2>2, <2>3, <2>4, CutRail
<1>4. QED
  BY <1>1, <1>2, <1>3

LEMMA RecentSound == ASSUME CatalogueAssumption, FeedInv PROVE Feed!RecentComplete
<1> DEFINE latest(l) == CHOOSE i \in DOMAIN opened :
                          opened[i] = l /\ \A j \in 1..(i - 1) : opened[j] # l
<1>1. PICK rail, pool : rail = Feed!resolveRecentViews /\ pool = Feed!Cut(opened, ViewPool)
  OBVIOUS
<1>2k. PICK N \in Nat, m \in Nat, K \in Nat, L \in Nat : \E f :
         RecentFrom(rail, pool, N, m, K, L, f)
  BY <1>1, RecentIs
<1>2. PICK f : RecentFrom(rail, pool, N, m, K, L, f)
  BY <1>2k
<1>3. /\ DOMAIN opened = 1..N /\ m <= N /\ L = Fewer(K, Target)
      /\ DOMAIN pool = 1..m
      /\ \A i \in 1..m : pool[i] = opened[i]
      /\ DOMAIN rail = 1..L
      /\ \A n \in 1..L : rail[n] = opened[f[n]] /\ n \in 1..K
      /\ \A p, n \in 1..K : p < n => f[p] < f[n]
  BY <1>2 DEF RecentFrom
<1>4. \A n \in 1..K : /\ f[n] \in 1..m /\ opened[f[n]] \in onOffer
                      /\ \A j \in 1..m : j < f[n] => opened[j] # opened[f[n]]
  BY <1>2 DEF RecentFrom
<1>5. \A i \in 1..m : /\ opened[i] \in onOffer
                      /\ \A j \in 1..m : j < i => opened[j] # opened[i]
                      => \E n \in 1..K : f[n] = i
  BY <1>2 DEF RecentFrom
<1>6. ASSUME NEW i \in 1..m, \A j \in 1..m : j < i => opened[j] # opened[i]
      PROVE  latest(opened[i]) = i
  <2>1. i \in DOMAIN opened /\ \A j \in 1..(i - 1) : opened[j] # opened[i]
    BY <1>3, <1>6
  <2>2. ASSUME NEW k \in DOMAIN opened, opened[k] = opened[i],
               \A j \in 1..(k - 1) : opened[j] # opened[i]
        PROVE  k = i
    <3>1. ~(k < i)
      BY <1>3, <1>6, <2>2
    <3>2. ~(i < k)
      BY <1>3, <2>2
    <3>3. QED
      BY <1>3, <3>1, <3>2
  <2>3. QED
    BY <2>1, <2>2, Zenon
<1>7. \A n \in 1..K : latest(opened[f[n]]) = f[n]
  BY <1>4, <1>6
<1> HIDE DEF latest
<1>8. ASSUME NEW i \in DOMAIN rail, NEW j \in DOMAIN rail, i < j
      PROVE  latest(rail[i]) < latest(rail[j])
  <2>1. /\ i \in 1..K /\ j \in 1..K
        /\ rail[i] = opened[f[i]] /\ rail[j] = opened[f[j]]
    BY <1>3, <1>8
  <2>2. f[i] < f[j]
    BY <1>3, <1>8, <2>1
  <2>3. QED
    BY <1>7, <2>1, <2>2
<1>9. ASSUME NEW l \in Feed!Members(pool) \cap onOffer, l \notin Feed!Members(rail)
      PROVE  Feed!Len(rail) = Target /\ \A k \in Feed!Members(rail) : latest(k) < latest(l)
  <2> DEFINE S == {i \in 1..m : opened[i] = l}
  <2>1. S # {} /\ S \in SUBSET Nat
    BY <1>3, <1>9 DEF Feed!Members
  <2>2. PICK i \in S : \A x \in S : i <= x
    <3> HIDE DEF S
    <3>1. QED
      BY <2>1, Least
  <2>3. i \in 1..m /\ opened[i] = l /\ opened[i] \in onOffer
    BY <1>9
  <2>4. \A j \in 1..m : j < i => opened[j] # opened[i]
    <3> SUFFICES ASSUME NEW j \in 1..m, j < i, opened[j] = opened[i] PROVE FALSE
      OBVIOUS
    <3>1. j \in S
      BY <2>3
    <3> HIDE DEF S
    <3>2. i <= j
      BY <2>2, <3>1
    <3>3. QED
      BY <2>3, <3>2
  <2>5. PICK n \in 1..K : f[n] = i
    BY <1>5, <2>3, <2>4
  <2>6. n \notin 1..L
    BY <1>3, <1>9, <2>3, <2>5 DEF Feed!Members
  <2>7. Target \in Nat
    BY FeedSizes
  <2>8. L = Target /\ L < n
    BY <1>3, <2>6, <2>7 DEF Fewer
  <2>9. Feed!Len(rail) = Target
    BY <1>3, <2>8, FeedLen
  <2>10. ASSUME NEW k \in Feed!Members(rail) PROVE latest(k) < latest(l)
    <3>1. PICK p \in 1..L : k = rail[p]
      BY <1>3 DEF Feed!Members
    <3>2. p \in 1..K /\ k = opened[f[p]] /\ p < n
      BY <1>3, <2>8, <3>1
    <3>3. latest(k) = f[p] /\ latest(l) = f[n] /\ f[p] < f[n]
      BY <1>3, <1>7, <2>3, <2>5, <3>2
    <3>4. QED
      BY <3>3
  <2>11. QED
    BY <2>9, <2>10
<1>10. /\ \A l \in Feed!Members(pool) \cap onOffer :
            l \notin Feed!Members(rail) =>
              Feed!Len(rail) = Target /\ \A k \in Feed!Members(rail) : latest(k) < latest(l)
       /\ \A i, j \in DOMAIN rail : i < j => latest(rail[i]) < latest(rail[j])
  BY <1>8, <1>9
<1>11. /\ \A l \in Feed!Members(Feed!Cut(opened, ViewPool)) \cap onOffer :
            l \notin Feed!Members(Feed!resolveRecentViews) =>
              /\ Feed!Len(Feed!resolveRecentViews) = Target
              /\ \A k \in Feed!Members(Feed!resolveRecentViews) : latest(k) < latest(l)
       /\ \A i, j \in DOMAIN Feed!resolveRecentViews : i < j =>
            latest(Feed!resolveRecentViews[i]) < latest(Feed!resolveRecentViews[j])
  BY <1>1, <1>10, Zenon
<1>12. QED
  BY <1>11, Zenon DEF latest, Feed!RecentComplete, onOffer, opened

LEMMA SeeAllSound == ASSUME CatalogueAssumption, FeedInv PROVE Feed!SeeAllGoesOn
<1> SUFFICES ASSUME NEW s \in HomeSet, s.type \in {"rail", "grid"}, s.filter # None,
                    NEW all \in Feed!Matches(s.filter), NEW take \in 1..MaxPage
             PROVE  /\ \A rail \in Feed!Rails(s), page \in Feed!getSectionProducts(s, 0, 0) :
                         \A n \in DOMAIN rail \cap DOMAIN page : rail[n] = page[n]
                    /\ \A p \in 0..Feed!Len(all) :
                         \A page \in Feed!getSectionProducts(s, take, p * take) :
                           page = Feed!Cut(Feed!Drop(all, p * take), take)
  <2>1. \A i \in DOMAIN homeRows : homeRows[i] \in HomeSet
    BY DEF FeedInv
  <2>2. QED
    BY <2>1, Zenon DEF Feed!SeeAllGoesOn, homeRows
<1>1. \A q \in Feed!Matches(s.filter) : q = all
  BY Zenon DEF Feed!Matches
<1>2. ASSUME NEW rail \in Feed!Rails(s), NEW page \in Feed!getSectionProducts(s, 0, 0),
             NEW n \in DOMAIN rail \cap DOMAIN page
      PROVE  rail[n] = page[n]
  <2>1. rail \in Feed!buildProductQuery(s.filter, s.type = "grid")
    BY Zenon DEF Feed!Rails
  <2>2. rail = all \/ rail = Feed!Cut(all, Feed!RailSize(s.filter))
    BY <1>1, <2>1 DEF Feed!buildProductQuery
  <2>3. page = Feed!Cut(Feed!Drop(all, 0), Feed!RailSize(s.filter))
    BY <1>1, <1>2 DEF Feed!getSectionProducts
  <2>4. rail[n] = all[n]
    BY <1>2, <2>2 DEF Feed!Cut
  <2>5. PICK N \in Nat : DOMAIN all = 1..N
    BY MatchRail DEF FeedInv, Rail
  <2>6. PICK d, k : d = Feed!Drop(all, 0) /\ k = Feed!RailSize(s.filter)
    OBVIOUS
  <2>7. DOMAIN d = 1..N /\ \A i \in 1..N : d[i] = all[i]
    BY <2>5, <2>6, FeedLen DEF Feed!Drop
  <2>8. k \in Nat
    BY <2>6, FeedSizes, RailSizeNat
  <2>9. PICK m \in Nat :
        /\ m = Fewer(N, k) /\ m <= N /\ m <= k
        /\ DOMAIN Feed!Cut(d, k) = 1..m
        /\ \A i \in 1..m : Feed!Cut(d, k)[i] = d[i]
    BY <2>7, <2>8, FeedCut
  <2>10. page = Feed!Cut(d, k)
    BY <2>3, <2>6
  <2>11. n \in 1..m /\ n \in 1..N /\ page[n] = d[n]
    BY <1>2, <2>9, <2>10
  <2>12. page[n] = all[n]
    BY <2>7, <2>11
  <2>13. QED
    BY <2>4, <2>12
<1>3. ASSUME NEW p, NEW page \in Feed!getSectionProducts(s, take, p * take)
      PROVE  page = Feed!Cut(Feed!Drop(all, p * take), take)
  <2>1. MaxPage \in Nat
    BY FeedSizes
  <2>2. take # 0 /\ Feed!Min2(take, MaxPage) = take
    BY <2>1 DEF Feed!Min2
  <2>3. QED
    BY <1>1, <1>3, <2>2 DEF Feed!getSectionProducts
<1>4. QED
  BY <1>2, <1>3

LEMMA FeedInit == ASSUME CatalogueAssumption, Feed!Init PROVE FeedInv
<1>1. opened \in [1..0 -> Posted]
  BY DEF Feed!Init, opened
<1>2. /\ onOffer = Posted /\ wasOnShow = {} /\ homeRows \in [1..2 -> HomeSet] /\ s4 = 0
      /\ screen = Feed!Idle
  BY DEF Feed!Init, onOffer, homeRows, screen, wasOnShow
<1>3. 0 \in 0..FeedTime /\ 0 \in Nat
  BY FeedSizes
<1>4. QED
  BY <1>1, <1>2, <1>3 DEF FeedInv

LEMMA MoreShown ==
  ASSUME NEW s, NEW S, NEW T, S \subseteq T, Rail(s, S)
  PROVE  Rail(s, T)
  BY DEF Rail

\* The screen stays as it is while more may be on show.
LEMMA FeedStays ==
  ASSUME FeedInv, screen' = screen,
         onOffer' \subseteq Posted, wasOnShow' \subseteq Posted,
         homeRows' \in [1..2 -> HomeSet],
         (\E n \in Nat : opened \in [1..n -> Posted])',
         s4' \in 0..FeedTime,
         screen # Feed!Idle => wasOnShow \subseteq wasOnShow' /\ onOffer' \subseteq wasOnShow'
  PROVE  FeedInv'
<1>1. CASE screen = Feed!Idle
  BY <1>1 DEF FeedInv
<1>2. CASE screen # Feed!Idle
  <2>1. /\ screen = [step |-> screen.step, rails |-> screen.rails, todo |-> screen.todo]
        /\ screen.step \in {"sections", "answered"}
        /\ \E n \in Nat : DOMAIN screen.rails = 1..n
        /\ \A i \in DOMAIN screen.rails :
             Rail(screen.rails[i].listings, wasOnShow) /\ Full(screen.rails[i])
        /\ \E n \in Nat : screen.todo \in [1..n -> Feed!Section]
    BY <1>2 DEF FeedInv
  <2>2. \A i \in DOMAIN screen.rails : Rail(screen.rails[i].listings, wasOnShow')
    BY <1>2, <2>1, MoreShown
  <2>3. \A i \in DOMAIN screen'.rails :
          Rail(screen'.rails[i].listings, wasOnShow') /\ Full(screen'.rails[i])
    BY <2>1, <2>2
  <2>4. QED
    BY <1>2, <2>1, <2>3 DEF FeedInv
<1>3. QED
  BY <1>1, <1>2

LEMMA FindPublicInv == ASSUME CatalogueAssumption, FeedInv, Feed!findPublic PROVE FeedInv'
<1> DEFINE P == {i \in DOMAIN homeRows : Feed!isSectionActive(homeRows[i])}
<1>1. /\ screen' = [step |-> "sections", rails |-> <<>>, todo |-> Feed!At(homeRows, P)]
      /\ wasOnShow' = onOffer /\ UNCHANGED <<onOffer, homeRows, opened, s4>>
  BY Zenon DEF Feed!findPublic, onOffer, homeRows, opened, screen, wasOnShow
<1>2. P \in SUBSET (1..2) /\ homeRows \in [1..2 -> HomeSet]
  BY DEF FeedInv
<1> HIDE DEF P
<1>3. PICK t : t = Feed!At(homeRows, P)
  OBVIOUS
<1>4k. PICK K \in Nat : \E f : Places(t, homeRows, P, K, f)
  BY <1>2, <1>3, FeedAt
<1>4. PICK f : Places(t, homeRows, P, K, f)
  BY <1>4k
<1>5. t \in [1..K -> Feed!Section]
  <2>1. t = [n \in 1..K |-> t[n]] /\ \A n \in 1..K : t[n] \in Feed!Section
    BY <1>2, <1>4, FeedSizes DEF Places
  <2>2. QED
    BY <2>1
<1>6. /\ screen'.step = "sections" /\ screen'.rails = <<>> /\ screen'.todo = t
      /\ screen' = [step |-> screen'.step, rails |-> screen'.rails, todo |-> screen'.todo]
  BY <1>1, <1>3
<1>7. DOMAIN screen'.rails = 1..0
  BY <1>6
<1>8. /\ onOffer \subseteq Posted /\ homeRows \in [1..2 -> HomeSet]
      /\ \E n \in Nat : opened \in [1..n -> Posted]
      /\ s4 \in 0..FeedTime
  BY DEF FeedInv
<1>9. /\ \A i \in DOMAIN screen'.rails :
           Rail(screen'.rails[i].listings, wasOnShow') /\ Full(screen'.rails[i])
      /\ \E n \in Nat : DOMAIN screen'.rails = 1..n
      /\ \E n \in Nat : screen'.todo \in [1..n -> Feed!Section]
  <2>1. DOMAIN screen'.rails = {}
    BY <1>7
  <2>2. QED
    BY <1>5, <1>6, <1>7, <2>1
<1>10. QED
  BY <1>1, <1>6, <1>8, <1>9 DEF FeedInv

LEMMA ResolveInv == ASSUME CatalogueAssumption, FeedInv, Feed!Resolve PROVE FeedInv'
<1>1. /\ screen.step = "sections" /\ screen.todo # <<>>
      /\ UNCHANGED <<onOffer, homeRows, opened, s4, wasOnShow>>
  BY DEF Feed!Resolve, onOffer, homeRows, opened, screen, wasOnShow
<1>2. /\ screen = [step |-> screen.step, rails |-> screen.rails, todo |-> screen.todo]
      /\ onOffer \subseteq wasOnShow
      /\ \E n \in Nat : DOMAIN screen.rails = 1..n
      /\ \A i \in DOMAIN screen.rails :
           Rail(screen.rails[i].listings, wasOnShow) /\ Full(screen.rails[i])
      /\ \E n \in Nat : screen.todo \in [1..n -> Feed!Section]
  <2>1. screen # Feed!Idle
    BY <1>1 DEF Feed!Idle
  <2>2. QED
    BY <2>1 DEF FeedInv
<1>3. PICK N \in Nat : DOMAIN screen.rails = 1..N
  BY <1>2
<1>4. PICK M \in Nat : screen.todo \in [1..M -> Feed!Section]
  BY <1>2
<1>5. M # 0 /\ screen.todo[1] \in Feed!Section
  BY <1>1, <1>4
<1>6. PICK t : t = Feed!Drop(screen.todo, 1)
  OBVIOUS
<1>7. PICK L \in Nat : L = M - 1 /\ t \in [1..L -> Feed!Section]
  <2>1. PICK L \in Nat : L = M - 1 /\ L + 1 = M
    BY <1>5
  <2>2. Feed!Len(screen.todo) = M
    BY <1>4, FeedLen
  <2>3. t = [i \in 1..L |-> screen.todo[i + 1]]
    BY <1>5, <1>6, <2>1, <2>2 DEF Feed!Drop
  <2>4. \A i \in 1..L : screen.todo[i + 1] \in Feed!Section
    BY <1>4, <2>1
  <2>5. QED
    BY <2>1, <2>3, <2>4
<1>13. PICK s \in Feed!Section : s = screen.todo[1]
  BY <1>5
<1>8. PICK rail \in Feed!Rails(s) :
        LET rest == [screen EXCEPT !.todo = t]
        IN  screen' = IF s.type # "banner" /\ Feed!Len(rail) < s.minResults THEN rest
                      ELSE [rest EXCEPT !.rails =
                              [i \in 1..(Feed!Len(screen.rails) + 1) |->
                                 IF i <= Feed!Len(screen.rails) THEN screen.rails[i]
                                 ELSE [section |-> s, listings |-> rail]]]
  BY <1>6, <1>13 DEF Feed!Resolve, screen
<1>9. Feed!Len(screen.rails) = N
  BY <1>3, FeedLen
<1> DEFINE more == [i \in 1..(N + 1) |-> IF i <= N THEN screen.rails[i]
                                         ELSE [section |-> s, listings |-> rail]]
<1>10. CASE s.type # "banner" /\ Feed!Len(rail) < s.minResults
  <2>1. screen' = [step |-> "sections", rails |-> screen.rails, todo |-> t]
    BY <1>1, <1>2, <1>8, <1>10
  <2>2. /\ screen' = [step |-> screen'.step, rails |-> screen'.rails, todo |-> screen'.todo]
        /\ screen'.step = "sections" /\ screen'.rails = screen.rails /\ screen'.todo = t
    BY <2>1
  <2>3. QED
    BY <1>1, <1>2, <1>7, <2>2 DEF FeedInv, Rail, Full
<1>11. CASE ~(s.type # "banner" /\ Feed!Len(rail) < s.minResults)
  <2>1. screen' = [step |-> "sections", rails |-> more, todo |-> t]
    BY <1>1, <1>2, <1>8, <1>9, <1>11
  <2>2. DOMAIN more = 1..(N + 1) /\ N + 1 \in Nat
    OBVIOUS
  <2>3. ASSUME NEW i \in 1..(N + 1)
        PROVE  Rail(more[i].listings, wasOnShow) /\ Full(more[i])
    <3>1. CASE i <= N
      BY <1>2, <1>3, <3>1
    <3>2. CASE ~(i <= N)
      <4>1. more[i].section = s /\ more[i].listings = rail
        BY <3>2
      <4>2. Rail(rail, onOffer)
        BY SomeRail
      <4>3. Rail(rail, wasOnShow)
        BY <1>2, <4>2, MoreShown
      <4>4. PICK n \in Nat : DOMAIN rail = 1..n
        BY <4>2 DEF Rail
      <4>5. Feed!Len(rail) = n /\ s.minResults \in Nat
        BY <4>4, FeedLen DEF Feed!Section
      <4> HIDE DEF more
      <4>6. Full(more[i])
        BY <1>11, <4>1, <4>5 DEF Full
      <4>7. QED
        BY <4>1, <4>3, <4>6
    <3>3. QED
      BY <3>1, <3>2
  <2> HIDE DEF more
  <2>4. /\ screen' = [step |-> screen'.step, rails |-> screen'.rails, todo |-> screen'.todo]
        /\ screen'.step = "sections" /\ screen'.rails = more /\ screen'.todo = t
    BY <2>1
  <2>5. \A i \in DOMAIN screen'.rails :
          Rail(screen'.rails[i].listings, wasOnShow') /\ Full(screen'.rails[i])
    BY <1>1, <2>2, <2>3, <2>4
  <2>6. \E n \in Nat : DOMAIN screen'.rails = 1..n
    BY <2>2, <2>4
  <2>7. QED
    BY <1>1, <1>2, <1>7, <2>4, <2>5, <2>6 DEF FeedInv
<1>12. QED
  BY <1>10, <1>11

LEMMA FeedNext == ASSUME CatalogueAssumption, FeedInv, Feed!Next PROVE FeedInv'
<1>1. CASE Feed!findPublic
  BY <1>1, FindPublicInv
<1>2. CASE Feed!Resolve
  BY <1>2, ResolveInv
<1>3. CASE Feed!Answer
  <2>1. /\ screen.step = "sections" /\ screen' = [screen EXCEPT !.step = "answered"]
        /\ UNCHANGED <<onOffer, homeRows, opened, s4, wasOnShow>>
    BY <1>3 DEF Feed!Answer, onOffer, homeRows, opened, screen, wasOnShow
  <2>2. screen # Feed!Idle
    BY <2>1 DEF Feed!Idle
  <2>3. screen = [step |-> screen.step, rails |-> screen.rails, todo |-> screen.todo]
    BY <2>2 DEF FeedInv
  <2>4. /\ screen' = [step |-> screen'.step, rails |-> screen'.rails, todo |-> screen'.todo]
        /\ screen'.step = "answered" /\ screen'.rails = screen.rails /\ screen'.todo = screen.todo
    BY <2>1, <2>3
  <2>5. QED
    BY <2>1, <2>2, <2>4 DEF FeedInv, Rail, Full
<1>4. CASE Feed!Done
  BY <1>4 DEF Feed!Done, FeedInv, onOffer, homeRows, opened, screen, wasOnShow
<1>5. CASE Feed!Tick
  <2>1. s4' \in 0..FeedTime
    BY <1>5, FeedSizes DEF Feed!Tick, FeedInv
  <2>2. screen # Feed!Idle => onOffer \subseteq wasOnShow
    BY DEF FeedInv
  <2>3. /\ screen' = screen
        /\ UNCHANGED <<onOffer, homeRows, opened, wasOnShow>>
    BY <1>5 DEF Feed!Tick, onOffer, homeRows, opened, screen, wasOnShow
  <2>4. /\ onOffer \subseteq Posted /\ wasOnShow \subseteq Posted /\ homeRows \in [1..2 -> HomeSet]
        /\ \E n \in Nat : opened \in [1..n -> Posted]
    BY DEF FeedInv
  <2>5. QED
    BY <2>1, <2>2, <2>3, <2>4, FeedStays
<1>6. ASSUME NEW l \in Posted, Feed!HideOrShow(l) PROVE FeedInv'
  <2>1. /\ onOffer' = IF l \in onOffer THEN onOffer \ {l} ELSE onOffer \cup {l}
        /\ wasOnShow' = IF screen = Feed!Idle THEN {} ELSE wasOnShow \cup onOffer'
        /\ UNCHANGED <<homeRows, opened, s4, screen>>
    BY <1>6 DEF Feed!HideOrShow, onOffer, homeRows, opened, screen, wasOnShow
  <2>2. /\ onOffer \subseteq Posted /\ wasOnShow \subseteq Posted /\ homeRows \in [1..2 -> HomeSet]
        /\ \E n \in Nat : opened \in [1..n -> Posted]
        /\ s4 \in 0..FeedTime
    BY DEF FeedInv
  <2>3. QED
    BY <2>1, <2>2, FeedStays
<1>7. ASSUME NEW l \in Posted, Feed!View(l) PROVE FeedInv'
  <2>1. /\ opened' = [i \in 1..(Feed!Len(opened) + 1) |-> IF i = 1 THEN l ELSE opened[i - 1]]
        /\ UNCHANGED <<onOffer, homeRows, s4, screen, wasOnShow>>
    BY <1>7 DEF Feed!View, onOffer, homeRows, opened, screen, wasOnShow
  <2>2. PICK n \in Nat : opened \in [1..n -> Posted]
    BY DEF FeedInv
  <2>3. opened' \in [1..(n + 1) -> Posted]
    <3>1. Feed!Len(opened) = n
      BY <2>2, FeedLen
    <3>2. \A i \in 1..(n + 1) : (IF i = 1 THEN l ELSE opened[i - 1]) \in Posted
      BY <2>2
    <3>3. QED
      BY <2>1, <3>1, <3>2
  <2>4. /\ onOffer \subseteq Posted /\ wasOnShow \subseteq Posted /\ homeRows \in [1..2 -> HomeSet]
        /\ s4 \in 0..FeedTime
        /\ screen # Feed!Idle => onOffer \subseteq wasOnShow
    BY DEF FeedInv
  <2>5. \E k \in Nat : opened' \in [1..k -> Posted]
    BY <2>3
  <2>6. QED
    BY <2>1, <2>4, <2>5, FeedStays
<1>8. ASSUME NEW i \in DOMAIN homeRows, NEW s \in HomeSet, Feed!Update(i, s) PROVE FeedInv'
  <2>1. /\ homeRows' = [homeRows EXCEPT ![i] = s]
        /\ UNCHANGED <<onOffer, opened, s4, screen, wasOnShow>>
    BY <1>8 DEF Feed!Update, onOffer, homeRows, opened, screen, wasOnShow
  <2>2. /\ onOffer \subseteq Posted /\ wasOnShow \subseteq Posted /\ homeRows \in [1..2 -> HomeSet]
        /\ \E n \in Nat : opened \in [1..n -> Posted]
        /\ s4 \in 0..FeedTime
        /\ screen # Feed!Idle => onOffer \subseteq wasOnShow
    BY DEF FeedInv
  <2>3. homeRows' \in [1..2 -> HomeSet]
    BY <2>1, <2>2
  <2>4. QED
    BY <2>1, <2>2, <2>3, FeedStays
<1>9. QED
  BY <1>1, <1>2, <1>3, <1>4, <1>5, <1>6, <1>7, <1>8 DEF Feed!Next, homeRows

LEMMA FeedMeans ==
  ASSUME CatalogueAssumption, FeedInv
  PROVE  Feed!TypeOK /\ Feed!FeedSound /\ Feed!RecentComplete /\ Feed!SeeAllGoesOn
<1>1. ASSUME screen # Feed!Idle
      PROVE  /\ screen.step \in {"sections", "answered"} /\ wasOnShow \subseteq Posted
             /\ \A i \in DOMAIN screen.rails :
                  Rail(screen.rails[i].listings, wasOnShow) /\ Full(screen.rails[i])
  BY <1>1 DEF FeedInv
<1>2. Feed!TypeOK
  <2>1. Feed!Idle.step = "idle"
    BY DEF Feed!Idle
  <2>2. ASSUME screen # Feed!Idle, NEW i \in DOMAIN screen.rails
        PROVE  Feed!Members(screen.rails[i].listings) \subseteq Posted
    BY <1>1, <2>2 DEF Rail, Feed!Members
  <2>3. Feed!Members(homeRows) \subseteq Feed!Section /\ Feed!Members(opened) \subseteq Posted
    BY FeedSizes DEF FeedInv, Feed!Members
  <2>4. onOffer \subseteq Posted /\ wasOnShow \subseteq Posted /\ s4 \in 0..FeedTime
    BY DEF FeedInv
  <2>5. QED
    BY <1>1, <2>1, <2>2, <2>3, <2>4
       DEF Feed!TypeOK, onOffer, homeRows, opened, screen, wasOnShow
<1>3. Feed!FeedSound
  <2> SUFFICES ASSUME screen.step = "answered", NEW i \in DOMAIN screen.rails
               PROVE  LET rail == screen.rails[i]
                      IN  /\ Feed!Members(rail.listings) \subseteq wasOnShow
                          /\ Feed!Cardinality(Feed!Members(rail.listings)) = Feed!Len(rail.listings)
                          /\ rail.section.type # "banner" =>
                               Feed!Len(rail.listings) >= rail.section.minResults
    BY Zenon DEF Feed!FeedSound, screen, wasOnShow
  <2>1. screen # Feed!Idle
    BY DEF Feed!Idle
  <2>2. Rail(screen.rails[i].listings, wasOnShow) /\ Full(screen.rails[i])
    BY <1>1, <2>1
  <2>3. PICK s : s = screen.rails[i].listings
    OBVIOUS
  <2>4. PICK n \in Nat : DOMAIN s = 1..n
    BY <2>2, <2>3 DEF Rail
  <2>5. \A x, y \in 1..n : x # y => s[x] # s[y]
    BY <2>2, <2>3, <2>4 DEF Rail
  <2>6. Cardinality({s[x] : x \in 1..n}) = Cardinality(1..n)
    <3>1. IsFiniteSet(1..n)
      BY UpTo
    <3>2. QED
      BY <2>5, <3>1, Distinct
  <2>7. Feed!Members(s) = {s[x] : x \in 1..n}
    BY <2>4 DEF Feed!Members
  <2>8. Feed!Cardinality(Feed!Members(s)) = Feed!Len(s)
    BY <2>4, <2>6, <2>7, UpTo, FeedLen, SameCounts
  <2>9. Feed!Members(s) \subseteq wasOnShow
    BY <2>2, <2>3 DEF Rail, Feed!Members
  <2>10. QED
    BY <2>2, <2>3, <2>8, <2>9 DEF Full
<1>4. QED
  BY <1>2, <1>3, RecentSound, SeeAllSound

-----------------------------------------------------------------------------
(***************************************************************************)
(* The sections of the home screen: who is about to suggest a title, or to *)
(* take a place, counts as having done so.                                 *)
(***************************************************************************)
homeSections == s1
suggestions == s2
adminCalls == s3

Automatic(n) == {i \in Couple \cup {One} : homeSections[i].auto /\ homeSections[i].place = n}
Inserting(n) == {c \in Pair : adminCalls[c].step = "insert" /\ adminCalls[c].place = n}
Suggesting(t) ==
  {c \in Pair : adminCalls[c].step \in {"titles", "suggest"} /\ t \in adminCalls[c].fresh}

SectionRow == {Sections!Gone} \cup [title : Themes, place : Sections!Places, auto : BOOLEAN]
AdminCall == {Sections!Idle} \cup [step : {"last"}, title : Themes]
               \cup [step : {"insert"}, title : Themes, place : Sections!Places]
               \cup [step : {"titles", "suggest"}, fresh : SUBSET Themes]

SectionsInv ==
  /\ homeSections \in [Couple \cup {One} -> SectionRow]
  /\ suggestions \in [Themes -> [Sections!Status -> Nat]]
  /\ adminCalls \in [Pair -> AdminCall]
  /\ \A t \in Themes : Sections!Made(t) <= MaxSuggestions
  /\ \A t \in Themes : Sections!Pending(t) + Cardinality(Suggesting(t)) <= Cardinality(Pair)
  /\ \A n \in Sections!Places :
       Cardinality(Automatic(n)) + Cardinality(Inserting(n)) <= Cardinality(Pair)

LEMMA SectionSizes ==
  ASSUME CatalogueAssumption
  PROVE  /\ IsFiniteSet(Pair) /\ Cardinality(Pair) \in Nat /\ IsFiniteSet(Couple \cup {One})
         /\ MaxSuggestions \in Nat
         /\ Sections!Places = 0..Cardinality(Couple \cup {One})
         /\ Cardinality(Couple \cup {One}) \in Nat
<1>1. IsFiniteSet(Pair) /\ IsFiniteSet(Couple \cup {One}) /\ MaxSuggestions \in Nat
  BY SameCounts DEF CatalogueAssumption, Sections!SectionsAssumption
<1>2. Sections!Cardinality(Couple \cup {One}) = Cardinality(Couple \cup {One})
  BY SameCounts
<1>3. QED
  BY <1>1, <1>2, FS_CardinalityType, Zenon DEF Sections!Places

LEMMA Three ==
  ASSUME SectionsInv, NEW t \in Themes
  PROVE  /\ Sections!Pending(t) \in Nat /\ suggestions[t]["pending"] = Sections!Pending(t)
         /\ suggestions[t]["accepted"] \in Nat /\ suggestions[t]["dismissed"] \in Nat
         /\ Sections!Made(t) = suggestions[t]["pending"] + suggestions[t]["accepted"]
                                + suggestions[t]["dismissed"]
         /\ Sections!Made(t) \in Nat
<1>1. suggestions[t] \in [Sections!Status -> Nat]
  BY DEF SectionsInv
<1>2. /\ suggestions[t]["pending"] \in Nat /\ suggestions[t]["accepted"] \in Nat
      /\ suggestions[t]["dismissed"] \in Nat
  BY <1>1 DEF Sections!Status
<1>3. Sections!Pending(t) = suggestions[t]["pending"]
  BY DEF Sections!Pending, suggestions
<1>4. Sections!Made(t) = suggestions[t]["pending"] + suggestions[t]["accepted"]
                                + suggestions[t]["dismissed"]
  BY <1>3, Zenon DEF Sections!Made, suggestions
<1>5. QED
  BY <1>2, <1>3, <1>4

LEMMA AdminCounts ==
  ASSUME CatalogueAssumption
  PROVE  /\ \A t : /\ Suggesting(t) \in SUBSET Pair /\ IsFiniteSet(Suggesting(t))
                   /\ Cardinality(Suggesting(t)) \in Nat
                   /\ Cardinality(Suggesting(t)) <= Cardinality(Pair)
         /\ \A n : /\ Inserting(n) \in SUBSET Pair /\ IsFiniteSet(Inserting(n))
                   /\ Cardinality(Inserting(n)) \in Nat
                   /\ Cardinality(Inserting(n)) <= Cardinality(Pair)
         /\ \A n : /\ Automatic(n) \in SUBSET (Couple \cup {One}) /\ IsFiniteSet(Automatic(n))
                   /\ Cardinality(Automatic(n)) \in Nat
<1>1. ASSUME NEW t
      PROVE  /\ Suggesting(t) \in SUBSET Pair /\ IsFiniteSet(Suggesting(t))
             /\ Cardinality(Suggesting(t)) \in Nat
             /\ Cardinality(Suggesting(t)) <= Cardinality(Pair)
  <2>1. Suggesting(t) \in SUBSET Pair
    BY DEF Suggesting
  <2>2. QED
    BY <2>1, SectionSizes, Counts
<1>2. ASSUME NEW n
      PROVE  /\ Inserting(n) \in SUBSET Pair /\ IsFiniteSet(Inserting(n))
             /\ Cardinality(Inserting(n)) \in Nat
             /\ Cardinality(Inserting(n)) <= Cardinality(Pair)
  <2>1. Inserting(n) \in SUBSET Pair
    BY DEF Inserting
  <2>2. QED
    BY <2>1, SectionSizes, Counts
<1>3. ASSUME NEW n
      PROVE  /\ Automatic(n) \in SUBSET (Couple \cup {One}) /\ IsFiniteSet(Automatic(n))
             /\ Cardinality(Automatic(n)) \in Nat
  <2>1. Automatic(n) \in SUBSET (Couple \cup {One})
    BY DEF Automatic
  <2>2. QED
    BY <2>1, SectionSizes, Counts
<1>4. QED
  BY <1>1, <1>2, <1>3

LEMMA SectionsTyped == ASSUME CatalogueAssumption, SectionsInv PROVE Sections!TypeOK
<1>1. ASSUME NEW t \in Themes PROVE suggestions[t] \in [Sections!Status -> 0..MaxSuggestions]
  <2>1. PICK p \in Nat, a \in Nat, d \in Nat :
          /\ p = suggestions[t]["pending"] /\ a = suggestions[t]["accepted"]
          /\ d = suggestions[t]["dismissed"] /\ p + a + d <= MaxSuggestions
    BY Three DEF SectionsInv
  <2>2. p \in 0..MaxSuggestions /\ a \in 0..MaxSuggestions /\ d \in 0..MaxSuggestions
    BY <2>1, SectionSizes
  <2>3. suggestions[t] \in [Sections!Status -> Nat]
    BY DEF SectionsInv
  <2>4. \A s \in Sections!Status : suggestions[t][s] \in 0..MaxSuggestions
    BY <2>1, <2>2 DEF Sections!Status
  <2>5. QED
    BY <2>3, <2>4
<1>2. suggestions \in [Themes -> [Sections!Status -> 0..MaxSuggestions]]
  BY <1>1 DEF SectionsInv
<1>3. QED
  BY <1>2 DEF SectionsInv, SectionRow, AdminCall, Sections!TypeOK, homeSections, suggestions,
     adminCalls

LEMMA SectionsMean ==
  ASSUME CatalogueAssumption, SectionsInv
  PROVE  Sections!WaitingBounded /\ Sections!PlacesShared
<1>1. ASSUME NEW t \in Themes
      PROVE  Sections!Pending(t) + Sections!Cardinality({c \in Pair :
               adminCalls[c].step \in {"titles", "suggest"} /\ t \in adminCalls[c].fresh})
                 <= Sections!Cardinality(Pair)
  BY SameCounts, Zenon DEF SectionsInv, Suggesting
<1>2. ASSUME NEW n \in Sections!Places
      PROVE  Sections!Cardinality({i \in Sections!Live :
               homeSections[i].auto /\ homeSections[i].place = n}) <= Sections!Cardinality(Pair)
  <2>1. {i \in Sections!Live : homeSections[i].auto /\ homeSections[i].place = n} \subseteq Automatic(n)
    BY DEF Automatic, Sections!Live
  <2>2. Cardinality({i \in Sections!Live : homeSections[i].auto /\ homeSections[i].place = n})
          <= Cardinality(Automatic(n))
    BY <2>1, AdminCounts, Counts
  <2>3. Cardinality({i \in Sections!Live : homeSections[i].auto /\ homeSections[i].place = n}) \in Nat
    BY <2>1, AdminCounts, Counts
  <2>4. /\ Cardinality(Automatic(n)) \in Nat /\ Cardinality(Inserting(n)) \in Nat
        /\ Cardinality(Pair) \in Nat
        /\ Cardinality(Automatic(n)) + Cardinality(Inserting(n)) <= Cardinality(Pair)
    BY AdminCounts, SectionSizes DEF SectionsInv
  <2>5. Cardinality({i \in Sections!Live : homeSections[i].auto /\ homeSections[i].place = n})
          <= Cardinality(Pair)
    BY <2>2, <2>3, <2>4
  <2>6. QED
    BY <2>5, SameCounts, Zenon
<1>3. Sections!WaitingBounded
  BY <1>1, Zenon DEF Sections!WaitingBounded, adminCalls
<1>4. Sections!PlacesShared
  BY <1>2, Zenon DEF Sections!PlacesShared, homeSections
<1>5. QED
  BY <1>3, <1>4

LEMMA SectionsInit == ASSUME CatalogueAssumption, Sections!Init PROVE SectionsInv
<1> USE DEF homeSections, suggestions, adminCalls
<1>1. /\ homeSections = [i \in Couple \cup {One} |-> Sections!Gone]
      /\ suggestions = [t \in Themes |-> [s \in Sections!Status |-> 0]]
      /\ adminCalls = [c \in Pair |-> Sections!Idle]
  BY DEF Sections!Init
<1>2. \A t \in Themes : Sections!Pending(t) = 0 /\ Sections!Made(t) = 0
  BY <1>1 DEF Sections!Pending, Sections!Made, Sections!Status
<1>3. \A t : Suggesting(t) = {}
  BY <1>1 DEF Suggesting, Sections!Idle
<1>4. \A n : Inserting(n) = {} /\ Automatic(n) = {}
  BY <1>1 DEF Inserting, Automatic, Sections!Idle, Sections!Gone
<1>5. Cardinality({}) = 0 /\ Cardinality(Pair) \in Nat /\ MaxSuggestions \in Nat
  BY FS_EmptySet, SectionSizes
<1>6. /\ homeSections \in [Couple \cup {One} -> SectionRow]
      /\ suggestions \in [Themes -> [Sections!Status -> Nat]]
      /\ adminCalls \in [Pair -> AdminCall]
  BY <1>1 DEF SectionRow, AdminCall
<1>7. \A t \in Themes : /\ Sections!Made(t) <= MaxSuggestions
                        /\ Sections!Pending(t) + Cardinality(Suggesting(t)) <= Cardinality(Pair)
  BY <1>2, <1>3, <1>5
<1>8. \A n \in Sections!Places :
       Cardinality(Automatic(n)) + Cardinality(Inserting(n)) <= Cardinality(Pair)
  BY <1>4, <1>5
<1>9. QED
  BY <1>6, <1>7, <1>8 DEF SectionsInv
\* What one call, or one section, does to the counts.
LEMMA CallCounts ==
  ASSUME CatalogueAssumption, SectionsInv, NEW c \in Pair, NEW m \in AdminCall,
         adminCalls' = [adminCalls EXCEPT ![c] = m]
  PROVE  /\ adminCalls' \in [Pair -> AdminCall]
         /\ \A t : Suggesting(t)' =
              IF m.step \in {"titles", "suggest"} /\ t \in m.fresh THEN Suggesting(t) \cup {c}
              ELSE Suggesting(t) \ {c}
         /\ \A n : Inserting(n)' =
              IF m.step = "insert" /\ m.place = n THEN Inserting(n) \cup {c}
              ELSE Inserting(n) \ {c}
<1>1. adminCalls' \in [Pair -> AdminCall]
  BY DEF SectionsInv
<1>2. \A d \in Pair : adminCalls'[d] = IF d = c THEN m ELSE adminCalls[d]
  BY DEF SectionsInv
<1>3. ASSUME NEW t
      PROVE  Suggesting(t)' =
              IF m.step \in {"titles", "suggest"} /\ t \in m.fresh THEN Suggesting(t) \cup {c}
              ELSE Suggesting(t) \ {c}
  BY <1>2 DEF Suggesting
<1>4. ASSUME NEW n
      PROVE  Inserting(n)' =
              IF m.step = "insert" /\ m.place = n THEN Inserting(n) \cup {c}
              ELSE Inserting(n) \ {c}
  BY <1>2 DEF Inserting
<1>5. QED
  BY <1>1, <1>3, <1>4

\* Fewer waiting, fewer in place.
LEMMA FewerWaiting ==
  ASSUME CatalogueAssumption, SectionsInv, NEW t \in Themes,
         Suggesting(t)' \subseteq Suggesting(t), suggestions'[t]["pending"] \in Nat,
         suggestions'[t]["pending"] <= suggestions[t]["pending"]
  PROVE  (Sections!Pending(t) + Cardinality(Suggesting(t)) <= Cardinality(Pair))'
<1>1. /\ Cardinality(Suggesting(t)') \in Nat /\ Cardinality(Suggesting(t)) \in Nat
      /\ Cardinality(Suggesting(t)') <= Cardinality(Suggesting(t))
  BY AdminCounts, Counts
<1>2. /\ Sections!Pending(t) \in Nat /\ suggestions[t]["pending"] = Sections!Pending(t)
      /\ Sections!Pending(t) + Cardinality(Suggesting(t)) <= Cardinality(Pair)
  BY Three DEF SectionsInv
<1>3. Sections!Pending(t)' = suggestions'[t]["pending"]
  BY DEF Sections!Pending, suggestions
<1>4. PICK p \in Nat, q \in Nat, v \in Nat, w \in Nat, k \in Nat :
        /\ p = Sections!Pending(t) /\ q = Sections!Pending(t)'
        /\ v = Cardinality(Suggesting(t)) /\ w = Cardinality(Suggesting(t)') /\ k = Cardinality(Pair)
  BY <1>1, <1>2, <1>3, SectionSizes
<1>5. q <= p /\ w <= v /\ p + v <= k
  BY <1>1, <1>2, <1>3, <1>4
<1>6. q + w <= k
  BY <1>5
<1>7. Cardinality(Pair)' = Cardinality(Pair)
  OBVIOUS
<1>8. QED
  BY <1>4, <1>6, <1>7

LEMMA FewerPlaced ==
  ASSUME CatalogueAssumption, SectionsInv, NEW n \in Sections!Places,
         Automatic(n)' \subseteq Automatic(n), Inserting(n)' \subseteq Inserting(n)
  PROVE  (Cardinality(Automatic(n)) + Cardinality(Inserting(n)) <= Cardinality(Pair))'
<1>1. /\ Cardinality(Automatic(n)') \in Nat /\ Cardinality(Automatic(n)) \in Nat
      /\ Cardinality(Automatic(n)') <= Cardinality(Automatic(n))
  BY AdminCounts, Counts
<1>2. /\ Cardinality(Inserting(n)') \in Nat /\ Cardinality(Inserting(n)) \in Nat
      /\ Cardinality(Inserting(n)') <= Cardinality(Inserting(n))
  BY AdminCounts, Counts
<1>3. PICK p \in Nat, q \in Nat, v \in Nat, w \in Nat, k \in Nat :
        /\ p = Cardinality(Automatic(n)) /\ q = Cardinality(Automatic(n)')
        /\ v = Cardinality(Inserting(n)) /\ w = Cardinality(Inserting(n)') /\ k = Cardinality(Pair)
  BY <1>1, <1>2, SectionSizes
<1>4. q <= p /\ w <= v /\ p + v <= k
  BY <1>1, <1>2, <1>3 DEF SectionsInv
<1>5. q + w <= k
  BY <1>4
<1>6. Cardinality(Pair)' = Cardinality(Pair)
  OBVIOUS
<1>7. QED
  BY <1>3, <1>5, <1>6

SameWaiting ==
  /\ suggestions' = suggestions
  /\ \A t \in Themes : Suggesting(t)' \subseteq Suggesting(t)
SamePlaces ==
  /\ homeSections' \in [Couple \cup {One} -> SectionRow]
  /\ \A n \in Sections!Places : Automatic(n)' \subseteq Automatic(n) /\ Inserting(n)' \subseteq Inserting(n)

LEMMA AllWaiting ==
  ASSUME CatalogueAssumption, SectionsInv, SameWaiting
  PROVE  /\ suggestions' \in [Themes -> [Sections!Status -> Nat]]
         /\ \A t \in Themes : Sections!Made(t)' <= MaxSuggestions
         /\ \A t \in Themes :
              (Sections!Pending(t) + Cardinality(Suggesting(t)) <= Cardinality(Pair))'
<1>1. suggestions' \in [Themes -> [Sections!Status -> Nat]]
  BY DEF SectionsInv, SameWaiting
<1>2. \A t \in Themes : Sections!Made(t)' = Sections!Made(t)
  BY DEF SameWaiting, Sections!Made, Sections!Pending, suggestions
<1>3. ASSUME NEW t \in Themes
      PROVE  (Sections!Pending(t) + Cardinality(Suggesting(t)) <= Cardinality(Pair))'
  <2>1. suggestions[t]["pending"] \in Nat
    BY Three
  <2>2. suggestions'[t]["pending"] \in Nat /\ suggestions'[t]["pending"] <= suggestions[t]["pending"]
    BY <2>1 DEF SameWaiting
  <2>3. QED
    BY <2>2, FewerWaiting DEF SameWaiting
<1>4. QED
  BY <1>1, <1>2, <1>3 DEF SectionsInv

LEMMA AllPlaced ==
  ASSUME CatalogueAssumption, SectionsInv, SamePlaces
  PROVE  \A n \in Sections!Places :
           (Cardinality(Automatic(n)) + Cardinality(Inserting(n)) <= Cardinality(Pair))'
<1>1. ASSUME NEW n \in Sections!Places
      PROVE  (Cardinality(Automatic(n)) + Cardinality(Inserting(n)) <= Cardinality(Pair))'
  BY FewerPlaced DEF SamePlaces
<1>2. QED
  BY <1>1

LEMMA BecomesWaiting ==
  ASSUME CatalogueAssumption, SectionsInv, NEW t \in Themes, NEW from \in Sections!Status,
         NEW to \in {"accepted", "dismissed"}, Sections!Becomes(t, from, to),
         \A u \in Themes : Suggesting(u)' \subseteq Suggesting(u)
  PROVE  /\ suggestions' \in [Themes -> [Sections!Status -> Nat]]
         /\ \A u \in Themes : Sections!Made(u)' <= MaxSuggestions
         /\ \A u \in Themes :
              (Sections!Pending(u) + Cardinality(Suggesting(u)) <= Cardinality(Pair))'
<1> DEFINE old == suggestions[t]
           new == [s \in Sections!Status |->
                     old[s] + (IF s = to THEN 1 ELSE 0) - (IF s = from THEN 1 ELSE 0)]
<1>1. old \in [Sections!Status -> Nat] /\ old[from] > 0 /\ suggestions' = [suggestions EXCEPT ![t] = new]
  BY DEF SectionsInv, Sections!Becomes, suggestions
<1>2. /\ old["pending"] \in Nat /\ old["accepted"] \in Nat /\ old["dismissed"] \in Nat
  BY <1>1 DEF Sections!Status
<1> HIDE DEF old
<1>3. new \in [Sections!Status -> Nat]
  <2>1. ASSUME NEW s \in Sections!Status
        PROVE  old[s] + (IF s = to THEN 1 ELSE 0) - (IF s = from THEN 1 ELSE 0) \in Nat
    <3>1. PICK k \in Nat : k = old[s] /\ (s = from => k > 0)
      BY <1>1
    <3>2. k + (IF s = to THEN 1 ELSE 0) - (IF s = from THEN 1 ELSE 0) \in Nat
      BY <3>1
    <3>3. QED
      BY <3>1, <3>2
  <2>2. QED
    BY <2>1
<1>4. /\ new["pending"] <= old["pending"]
      /\ new["pending"] + new["accepted"] + new["dismissed"]
           = old["pending"] + old["accepted"] + old["dismissed"]
  <2>1. /\ new["pending"] = old["pending"] - (IF from = "pending" THEN 1 ELSE 0)
        /\ new["accepted"] = old["accepted"] + (IF to = "accepted" THEN 1 ELSE 0)
                               - (IF from = "accepted" THEN 1 ELSE 0)
        /\ new["dismissed"] = old["dismissed"] + (IF to = "dismissed" THEN 1 ELSE 0)
                               - (IF from = "dismissed" THEN 1 ELSE 0)
    BY <1>2 DEF Sections!Status
  <2> HIDE DEF new
  <2>2. PICK p \in Nat, a \in Nat, d \in Nat :
          p = old["pending"] /\ a = old["accepted"] /\ d = old["dismissed"]
    BY <1>2
  <2>3. QED
    BY <2>1, <2>2 DEF Sections!Status
<1> HIDE DEF new
<1>5. \A u \in Themes : suggestions'[u] = IF u = t THEN new ELSE suggestions[u]
  BY <1>1 DEF SectionsInv
<1>6. suggestions' \in [Themes -> [Sections!Status -> Nat]]
  BY <1>1, <1>3 DEF SectionsInv
<1>7. ASSUME NEW u \in Themes PROVE Sections!Made(u)' <= MaxSuggestions
  <2>1. Sections!Made(u)' = suggestions'[u]["pending"] + suggestions'[u]["accepted"]
                              + suggestions'[u]["dismissed"]
    BY DEF Sections!Made, Sections!Pending, suggestions
  <2>2. suggestions'[u]["pending"] + suggestions'[u]["accepted"] + suggestions'[u]["dismissed"]
          = suggestions[u]["pending"] + suggestions[u]["accepted"] + suggestions[u]["dismissed"]
    BY <1>4, <1>5 DEF old
  <2>3. QED
    BY <2>1, <2>2, Three DEF SectionsInv
<1>8. ASSUME NEW u \in Themes
      PROVE  (Sections!Pending(u) + Cardinality(Suggesting(u)) <= Cardinality(Pair))'
  <2>1. suggestions'[u]["pending"] \in Nat
    BY <1>6 DEF Sections!Status
  <2>2. suggestions'[u]["pending"] <= suggestions[u]["pending"]
    <3>1. suggestions[u]["pending"] \in Nat
      BY Three
    <3>2. CASE u = t
      BY <1>4, <1>5, <3>2 DEF old
    <3>3. CASE u # t
      BY <1>5, <3>1, <3>3
    <3>4. QED
      BY <3>2, <3>3
  <2>3. QED
    BY <2>1, <2>2, FewerWaiting
<1>9. QED
  BY <1>6, <1>7, <1>8

LEMMA SectionsAsBefore ==
  ASSUME adminCalls' \in [Pair -> AdminCall],
         homeSections' \in [Couple \cup {One} -> SectionRow],
         suggestions' \in [Themes -> [Sections!Status -> Nat]],
         \A t \in Themes : Sections!Made(t)' <= MaxSuggestions,
         \A t \in Themes :
           (Sections!Pending(t) + Cardinality(Suggesting(t)) <= Cardinality(Pair))',
         \A n \in Sections!Places :
           (Cardinality(Automatic(n)) + Cardinality(Inserting(n)) <= Cardinality(Pair))'
  PROVE  SectionsInv'
<1>1. Sections!Places' = Sections!Places /\ Sections!Status' = Sections!Status
      /\ SectionRow' = SectionRow /\ AdminCall' = AdminCall /\ MaxSuggestions' = MaxSuggestions
      /\ Pair' = Pair /\ Themes' = Themes /\ (Couple \cup {One})' = Couple \cup {One}
  BY DEF Sections!Places, Sections!Status, SectionRow, AdminCall, Sections!Gone, Sections!Idle
<1>2. QED
  BY <1>1 DEF SectionsInv

\* The last place is behind every section in place.
LEMMA NextPlaceLast ==
  ASSUME CatalogueAssumption, SectionsInv
  PROVE  Automatic(Sections!NextPlace) = {}
<1>1. CASE Sections!Live = {}
  BY <1>1 DEF Sections!Live, Automatic, Sections!Gone, homeSections
<1>2. CASE Sections!Live # {}
  <2> DEFINE S == {homeSections[i].place : i \in Sections!Live}
  <2>1. \A i \in Sections!Live : homeSections[i].place \in Sections!Places
    BY DEF SectionsInv, SectionRow, Sections!Live, homeSections
  <2>2. \A i \in Couple \cup {One} : homeSections[i].auto => i \in Sections!Live
    BY DEF Sections!Live, Sections!Gone, homeSections
  <2>h. PICK h \in Int : Sections!Places = 0..h
    BY SectionSizes
  <2>3. S \in SUBSET Int /\ S # {} /\ \A x \in S : x <= h
    BY <1>2, <2>1, <2>h
  <2> HIDE DEF S
  <2>4. PICK n \in S : \A x \in S : x <= n
    BY <2>3, Greatest
  <2> USE DEF S
  <2>5. n \in Sections!Places /\ \E i \in Sections!Live : homeSections[i].place = n
    BY <2>1, <2>4
  <2>6. \A i \in Sections!Live : homeSections[i].place <= n
    BY <2>4
  <2> DEFINE last == CHOOSE k \in Sections!Places :
                       /\ \E i \in Sections!Live : homeSections[i].place = k
                       /\ \A i \in Sections!Live : homeSections[i].place <= k
  <2>7. last \in Sections!Places /\ \A i \in Sections!Live : homeSections[i].place <= last
    BY <2>5, <2>6
  <2>8. Sections!NextPlace = 1 + last
    BY <1>2 DEF Sections!NextPlace, homeSections
  <2> HIDE DEF last
  <2>9. \A i \in Sections!Live : homeSections[i].place # Sections!NextPlace
    <3>1. last \in Nat
      BY <2>7, SectionSizes
    <3>2. \A i \in Sections!Live : homeSections[i].place # 1 + last
      BY <2>1, <2>7, <3>1, SectionSizes
    <3>3. QED
      BY <2>8, <3>2
  <2>10. QED
    BY <2>2, <2>9 DEF Automatic
<1>3. QED
  BY <1>1, <1>2

\* A call that neither suggests nor takes a place.
LEMMA PassiveCall ==
  ASSUME CatalogueAssumption, SectionsInv, NEW c \in Pair, NEW m \in AdminCall,
         adminCalls' = [adminCalls EXCEPT ![c] = m], m.step \in {"idle", "last"}
  PROVE  /\ adminCalls' \in [Pair -> AdminCall]
         /\ \A t : Suggesting(t)' = Suggesting(t) \ {c}
         /\ \A n : Inserting(n)' = Inserting(n) \ {c}
  BY CallCounts

LEMMA SameSections ==
  ASSUME homeSections' = homeSections
  PROVE  \A n : Automatic(n)' = Automatic(n)
  BY DEF Automatic

LEMMA SameAdmins ==
  ASSUME adminCalls' = adminCalls
  PROVE  (\A t : Suggesting(t)' = Suggesting(t)) /\ \A n : Inserting(n)' = Inserting(n)
  BY DEF Suggesting, Inserting

LEMMA IdleOrLast ==
  /\ Sections!Idle \in AdminCall /\ Sections!Idle.step = "idle"
  /\ \A t \in Themes : /\ [step |-> "last", title |-> t] \in AdminCall
                       /\ [step |-> "last", title |-> t].step = "last"
  BY DEF AdminCall, Sections!Idle

LEMMA SectionsAtRest ==
  ASSUME CatalogueAssumption, SectionsInv, adminCalls' \in [Pair -> AdminCall], SameWaiting, SamePlaces
  PROVE  SectionsInv'
  BY AllWaiting, AllPlaced, SectionsAsBefore DEF SamePlaces

LEMMA PassiveInv ==
  ASSUME CatalogueAssumption, SectionsInv, NEW c \in Pair, NEW m \in AdminCall,
         adminCalls' = [adminCalls EXCEPT ![c] = m], m.step \in {"idle", "last"},
         homeSections' = homeSections, suggestions' = suggestions
  PROVE  SectionsInv'
<1>1. /\ adminCalls' \in [Pair -> AdminCall]
      /\ \A t : Suggesting(t)' = Suggesting(t) \ {c}
      /\ \A n : Inserting(n)' = Inserting(n) \ {c}
  BY PassiveCall
<1>2. SameWaiting
  BY <1>1 DEF SameWaiting
<1>3. SamePlaces
  BY <1>1, SameSections DEF SamePlaces, SectionsInv
<1>4. QED
  BY <1>1, <1>2, <1>3, SectionsAtRest

LEMMA AcceptInv ==
  ASSUME CatalogueAssumption, SectionsInv, NEW c \in Pair, NEW t \in Themes,
         NEW from \in Sections!Status, Sections!Accept(c, t, from)
  PROVE  SectionsInv'
<1> DEFINE m == [step |-> "last", title |-> t]
<1>1. /\ adminCalls' = [adminCalls EXCEPT ![c] = m] /\ homeSections' = homeSections
      /\ Sections!Becomes(t, from, "accepted")
  BY DEF Sections!Accept, Sections!Put, adminCalls, homeSections
<1>2. m \in AdminCall /\ m.step = "last"
  BY IdleOrLast
<1> HIDE DEF m
<1>3. /\ adminCalls' \in [Pair -> AdminCall]
      /\ \A u : Suggesting(u)' = Suggesting(u) \ {c}
      /\ \A n : Inserting(n)' = Inserting(n) \ {c}
  BY <1>1, <1>2, PassiveCall
<1>4. SamePlaces
  BY <1>1, <1>3, SameSections DEF SamePlaces, SectionsInv
<1>5. \A u \in Themes : Suggesting(u)' \subseteq Suggesting(u)
  BY <1>3
<1>6. /\ suggestions' \in [Themes -> [Sections!Status -> Nat]]
      /\ \A u \in Themes : Sections!Made(u)' <= MaxSuggestions
      /\ \A u \in Themes :
              (Sections!Pending(u) + Cardinality(Suggesting(u)) <= Cardinality(Pair))'
  BY <1>1, <1>5, BecomesWaiting
<1>7. homeSections' \in [Couple \cup {One} -> SectionRow]
  BY <1>4 DEF SamePlaces
<1>8. \A n \in Sections!Places :
           (Cardinality(Automatic(n)) + Cardinality(Inserting(n)) <= Cardinality(Pair))'
  BY <1>4, AllPlaced
<1>9. QED
  BY <1>3, <1>6, <1>7, <1>8, SectionsAsBefore

LEMMA DismissInv ==
  ASSUME CatalogueAssumption, SectionsInv, NEW t \in Themes,
         NEW from \in Sections!Status, Sections!Dismiss(t, from)
  PROVE  SectionsInv'
<1>1. /\ adminCalls' = adminCalls /\ homeSections' = homeSections
      /\ Sections!Becomes(t, from, "dismissed")
  BY DEF Sections!Dismiss, adminCalls, homeSections
<1>2. SamePlaces
  BY <1>1, SameSections, SameAdmins DEF SamePlaces, SectionsInv
<1>3. \A u \in Themes : Suggesting(u)' \subseteq Suggesting(u)
  BY <1>1, SameAdmins
<1>4. /\ suggestions' \in [Themes -> [Sections!Status -> Nat]]
      /\ \A u \in Themes : Sections!Made(u)' <= MaxSuggestions
      /\ \A u \in Themes :
              (Sections!Pending(u) + Cardinality(Suggesting(u)) <= Cardinality(Pair))'
  BY <1>1, <1>3, BecomesWaiting
<1>5. homeSections' \in [Couple \cup {One} -> SectionRow] /\ adminCalls' \in [Pair -> AdminCall]
  BY <1>1, <1>2 DEF SamePlaces, SectionsInv
<1>6. \A n \in Sections!Places :
           (Cardinality(Automatic(n)) + Cardinality(Inserting(n)) <= Cardinality(Pair))'
  BY <1>2, AllPlaced
<1>7. QED
  BY <1>4, <1>5, <1>6, SectionsAsBefore

LEMMA FindLastInv ==
  ASSUME CatalogueAssumption, SectionsInv, NEW c \in Pair, Sections!FindLast(c)
  PROVE  SectionsInv'
<1> DEFINE k == Sections!NextPlace
           m == [step |-> "insert", title |-> adminCalls[c].title, place |-> k]
<1>1. /\ adminCalls[c].step = "last" /\ k \in Sections!Places
      /\ adminCalls' = [adminCalls EXCEPT ![c] = m]
      /\ homeSections' = homeSections /\ suggestions' = suggestions
  BY DEF Sections!FindLast, Sections!Put, adminCalls, homeSections, suggestions
<1>2. adminCalls[c].title \in Themes
  BY <1>1 DEF SectionsInv, AdminCall, Sections!Idle
<1>3. m \in AdminCall /\ m.step = "insert" /\ m.place = k
  BY <1>1, <1>2 DEF AdminCall
<1>4. Automatic(k) = {}
  BY NextPlaceLast
<1> HIDE DEF k, m
<1>5. /\ adminCalls' \in [Pair -> AdminCall]
      /\ \A t : Suggesting(t)' = Suggesting(t) \ {c}
      /\ \A n : n # k => Inserting(n)' = Inserting(n) \ {c}
  BY <1>1, <1>3, CallCounts
<1>6. SameWaiting
  BY <1>1, <1>5 DEF SameWaiting
<1>7. ASSUME NEW n \in Sections!Places
      PROVE  (Cardinality(Automatic(n)) + Cardinality(Inserting(n)) <= Cardinality(Pair))'
  <2>1. CASE n # k
    BY <1>1, <1>5, <2>1, SameSections, FewerPlaced
  <2>2. CASE n = k
    <3>1. Automatic(n)' = {}
      BY <1>1, <1>4, <2>2, SameSections
    <3>2. Inserting(n)' \in SUBSET Pair
      BY DEF Inserting
    <3>3. Cardinality(Inserting(n)') \in Nat /\ Cardinality(Inserting(n)') <= Cardinality(Pair)
      BY <3>2, SectionSizes, Counts
    <3>4. Cardinality(Automatic(n)') = 0
      BY <3>1, FS_EmptySet
    <3>5. Cardinality(Automatic(n)') + Cardinality(Inserting(n)') <= Cardinality(Pair)
      BY <3>3, <3>4, SectionSizes
    <3>6. QED
      BY <3>5
  <2>3. QED
    BY <2>1, <2>2
<1>8. homeSections' \in [Couple \cup {One} -> SectionRow]
  BY <1>1 DEF SectionsInv
<1>9. QED
  BY <1>5, <1>6, <1>7, <1>8, AllWaiting, SectionsAsBefore

LEMMA InsertInv ==
  ASSUME CatalogueAssumption, SectionsInv, NEW c \in Pair, NEW i \in Couple \cup {One},
         Sections!Insert(c, i)
  PROVE  SectionsInv'
<1> DEFINE row == [title |-> adminCalls[c].title, place |-> adminCalls[c].place, auto |-> TRUE]
<1>1. /\ adminCalls[c].step = "insert" /\ i \notin Sections!Live
      /\ homeSections' = [homeSections EXCEPT ![i] = row]
      /\ adminCalls' = [adminCalls EXCEPT ![c] = Sections!Idle] /\ suggestions' = suggestions
  BY DEF Sections!Insert, Sections!Put, adminCalls, homeSections, suggestions
<1>2. adminCalls[c].title \in Themes /\ adminCalls[c].place \in Sections!Places
  BY <1>1 DEF SectionsInv, AdminCall, Sections!Idle
<1>3. row \in SectionRow /\ row.auto /\ row.place = adminCalls[c].place
  BY <1>2 DEF SectionRow
<1> HIDE DEF row
<1>4. homeSections' \in [Couple \cup {One} -> SectionRow]
      /\ \A j \in Couple \cup {One} : homeSections'[j] = IF j = i THEN row ELSE homeSections[j]
  BY <1>1, <1>3 DEF SectionsInv
<1>5. /\ adminCalls' \in [Pair -> AdminCall]
      /\ \A t : Suggesting(t)' = Suggesting(t) \ {c}
      /\ \A n : Inserting(n)' = Inserting(n) \ {c}
  BY <1>1, IdleOrLast, PassiveCall
<1>6. SameWaiting
  BY <1>1, <1>5 DEF SameWaiting
<1>7. ~homeSections[i].auto
  BY <1>1 DEF Sections!Live, Sections!Gone, homeSections
<1>8. ASSUME NEW n \in Sections!Places
      PROVE  (Cardinality(Automatic(n)) + Cardinality(Inserting(n)) <= Cardinality(Pair))'
  <2>1. CASE n # adminCalls[c].place
    <3>1. Automatic(n)' \subseteq Automatic(n)
      BY <1>3, <1>4, <2>1 DEF Automatic
    <3>2. QED
      BY <1>5, <3>1, FewerPlaced
  <2>2. CASE n = adminCalls[c].place
    <3>1. c \in Inserting(n) /\ i \notin Automatic(n)
      BY <1>1, <1>7, <2>2 DEF Inserting, Automatic
    <3>2. Automatic(n)' = Automatic(n) \cup {i} /\ Inserting(n)' = Inserting(n) \ {c}
      BY <1>3, <1>4, <1>5, <2>2 DEF Automatic
    <3>3. Cardinality(Automatic(n)') = Cardinality(Automatic(n)) + 1
      BY <3>1, <3>2, AdminCounts, Counts, SectionSizes
    <3>4. Cardinality(Inserting(n)') = Cardinality(Inserting(n)) - 1
      BY <3>1, <3>2, AdminCounts, Counts, SectionSizes
    <3>5. Cardinality(Automatic(n)) \in Nat /\ Cardinality(Inserting(n)) \in Nat
      BY AdminCounts
    <3>6. Cardinality(Automatic(n)) + Cardinality(Inserting(n)) <= Cardinality(Pair)
      BY DEF SectionsInv
    <3>7. Cardinality(Automatic(n)') + Cardinality(Inserting(n)') <= Cardinality(Pair)
      BY <3>3, <3>4, <3>5, <3>6
    <3>8. QED
      BY <3>7
  <2>3. QED
    BY <2>1, <2>2
<1>9. QED
  BY <1>4, <1>5, <1>6, <1>8, AllWaiting, SectionsAsBefore

\* Sections that are placed by hand, renamed or removed.
LEMMA ByHandInv ==
  ASSUME CatalogueAssumption, SectionsInv, homeSections' \in [Couple \cup {One} -> SectionRow],
         \A i \in Couple \cup {One} : homeSections'[i].auto =>
           homeSections[i].auto /\ homeSections'[i].place = homeSections[i].place,
         adminCalls' = adminCalls, suggestions' = suggestions
  PROVE  SectionsInv'
<1>1. \A n : Automatic(n)' \subseteq Automatic(n)
  BY DEF Automatic
<1>2. SamePlaces
  BY <1>1, SameAdmins DEF SamePlaces
<1>3. SameWaiting
  BY SameAdmins DEF SameWaiting
<1>4. adminCalls' \in [Pair -> AdminCall]
  BY DEF SectionsInv
<1>5. QED
  BY <1>2, <1>3, <1>4, SectionsAtRest

LEMMA HandSteps ==
  ASSUME CatalogueAssumption, SectionsInv,
         \/ \E i \in Couple \cup {One} : Sections!Delete(i)
         \/ \E i \in Couple \cup {One}, t \in Themes, n \in Sections!Places :
              Sections!CreateAt(i, t, n) \/ Sections!Update(i, t, n)
         \/ \E rank \in [Couple \cup {One} -> 0..(Sections!Cardinality(Couple \cup {One}) - 1)] :
              Sections!Reorder(rank)
  PROVE  SectionsInv'
<1>0. homeSections \in [Couple \cup {One} -> SectionRow]
  BY DEF SectionsInv
<1>1. ASSUME NEW i \in Couple \cup {One}, Sections!Delete(i) PROVE SectionsInv'
  <2>1. /\ homeSections' = [homeSections EXCEPT ![i] = Sections!Gone]
        /\ adminCalls' = adminCalls /\ suggestions' = suggestions
    BY <1>1 DEF Sections!Delete, homeSections, adminCalls, suggestions
  <2>2. homeSections' \in [Couple \cup {One} -> SectionRow] /\ ~Sections!Gone.auto
    BY <1>0, <2>1 DEF SectionRow, Sections!Gone
  <2>3. \A j \in Couple \cup {One} : homeSections'[j] = IF j = i THEN Sections!Gone ELSE homeSections[j]
    BY <1>0, <2>1
  <2>4. QED
    BY <2>1, <2>2, <2>3, ByHandInv
<1>2. ASSUME NEW i \in Couple \cup {One}, NEW t \in Themes, NEW n \in Sections!Places,
             Sections!CreateAt(i, t, n)
      PROVE  SectionsInv'
  <2> DEFINE row == [title |-> t, place |-> n, auto |-> FALSE]
  <2>1. /\ homeSections' = [homeSections EXCEPT ![i] = row]
        /\ adminCalls' = adminCalls /\ suggestions' = suggestions
    BY <1>2 DEF Sections!CreateAt, homeSections, adminCalls, suggestions
  <2>2. row \in SectionRow /\ ~row.auto
    BY DEF SectionRow
  <2> HIDE DEF row
  <2>3. /\ homeSections' \in [Couple \cup {One} -> SectionRow]
        /\ \A j \in Couple \cup {One} : homeSections'[j] = IF j = i THEN row ELSE homeSections[j]
    BY <1>0, <2>1, <2>2
  <2>4. QED
    BY <2>1, <2>2, <2>3, ByHandInv
<1>3. ASSUME NEW i \in Couple \cup {One}, NEW t \in Themes, NEW n \in Sections!Places,
             Sections!Update(i, t, n)
      PROVE  SectionsInv'
  <2>1. homeSections[i] \in [title : Themes, place : Sections!Places, auto : BOOLEAN]
    BY <1>0, <1>3 DEF SectionRow, Sections!Update, Sections!Live, homeSections
  <2>2. /\ \/ homeSections' = [homeSections EXCEPT ![i] = [homeSections[i] EXCEPT !.title = t]]
           \/ homeSections' = [homeSections EXCEPT ![i] =
                [homeSections[i] EXCEPT !.title = t, !.place = n, !.auto = FALSE]]
        /\ adminCalls' = adminCalls /\ suggestions' = suggestions
    BY <1>3 DEF Sections!Update, homeSections, adminCalls, suggestions
  <2>3. PICK row \in SectionRow :
          /\ homeSections' = [homeSections EXCEPT ![i] = row]
          /\ row.auto => homeSections[i].auto /\ row.place = homeSections[i].place
    <3>1. CASE homeSections' = [homeSections EXCEPT ![i] = [homeSections[i] EXCEPT !.title = t]]
      <4> DEFINE r == [homeSections[i] EXCEPT !.title = t]
      <4>1. r \in SectionRow /\ r.auto = homeSections[i].auto /\ r.place = homeSections[i].place
        BY <2>1 DEF SectionRow
      <4>2. QED
        BY <3>1, <4>1
    <3>2. CASE homeSections' = [homeSections EXCEPT ![i] =
                [homeSections[i] EXCEPT !.title = t, !.place = n, !.auto = FALSE]]
      <4> DEFINE r == [homeSections[i] EXCEPT !.title = t, !.place = n, !.auto = FALSE]
      <4>1. r \in SectionRow /\ ~r.auto
        BY <2>1 DEF SectionRow
      <4>2. QED
        BY <3>2, <4>1
    <3>3. QED
      BY <2>2, <3>1, <3>2
  <2>4. /\ homeSections' \in [Couple \cup {One} -> SectionRow]
        /\ \A j \in Couple \cup {One} : homeSections'[j] = IF j = i THEN row ELSE homeSections[j]
    BY <1>0, <2>3
  <2>5. QED
    BY <2>2, <2>3, <2>4, ByHandInv
<1>4. ASSUME NEW rank \in [Couple \cup {One} -> 0..(Sections!Cardinality(Couple \cup {One}) - 1)],
             Sections!Reorder(rank)
      PROVE  SectionsInv'
  <2>1. /\ homeSections' = [i \in Couple \cup {One} |->
              IF i \in Sections!Live THEN [homeSections[i] EXCEPT !.place = rank[i], !.auto = FALSE]
              ELSE Sections!Gone]
        /\ adminCalls' = adminCalls /\ suggestions' = suggestions
    BY <1>4 DEF Sections!Reorder, homeSections, adminCalls, suggestions
  <2>2. ASSUME NEW i \in Couple \cup {One}
        PROVE  homeSections'[i] \in SectionRow /\ ~homeSections'[i].auto
    <3>1. rank[i] \in Sections!Places
      <4>1. Sections!Cardinality(Couple \cup {One}) = Cardinality(Couple \cup {One})
        BY SameCounts
      <4>2. rank[i] \in 0..(Cardinality(Couple \cup {One}) - 1)
        BY <4>1
      <4>3. QED
        BY <4>2, SectionSizes
    <3>2. CASE i \in Sections!Live
      <4>1. homeSections[i] \in [title : Themes, place : Sections!Places, auto : BOOLEAN]
        BY <1>0, <3>2 DEF SectionRow, Sections!Live, homeSections
      <4>2. homeSections'[i] = [homeSections[i] EXCEPT !.place = rank[i], !.auto = FALSE]
        BY <2>1, <3>2
      <4>3. QED
        BY <3>1, <4>1, <4>2 DEF SectionRow
    <3>3. CASE i \notin Sections!Live
      BY <2>1, <3>3 DEF SectionRow, Sections!Gone
    <3>4. QED
      BY <3>2, <3>3
  <2>3. homeSections' \in [Couple \cup {One} -> SectionRow]
    <3>1. homeSections' = [i \in Couple \cup {One} |-> homeSections'[i]]
      BY <2>1
    <3>2. QED
      BY <2>2, <3>1
  <2>4. QED
    BY <2>1, <2>2, <2>3, ByHandInv
<1>5. QED
  BY <1>1, <1>2, <1>3, <1>4

LEMMA DetectInv ==
  ASSUME CatalogueAssumption, SectionsInv, NEW c \in Pair, NEW found \in SUBSET Themes,
         Sections!Detect(c, found)
  PROVE  SectionsInv'
<1> DEFINE fresh == {t \in found : Sections!Pending(t) = 0}
           m == [step |-> "titles", fresh |-> fresh]
<1>1. /\ adminCalls' = [adminCalls EXCEPT ![c] = m]
      /\ homeSections' = homeSections /\ suggestions' = suggestions
  BY DEF Sections!Detect, Sections!Put, adminCalls, homeSections, suggestions
<1>2. m \in AdminCall /\ m.step = "titles" /\ m.fresh = fresh
  BY DEF AdminCall
<1>3. \A t \in fresh : Sections!Pending(t) = 0
  OBVIOUS
<1> HIDE DEF m, fresh
<1>4. /\ adminCalls' \in [Pair -> AdminCall]
      /\ \A t : t \notin fresh => Suggesting(t)' = Suggesting(t) \ {c}
      /\ \A n : Inserting(n)' = Inserting(n) \ {c}
  BY <1>1, <1>2, CallCounts
<1>5. SamePlaces
  BY <1>1, <1>4, SameSections DEF SamePlaces, SectionsInv
<1>6. ASSUME NEW t \in Themes
      PROVE  /\ Sections!Made(t)' = Sections!Made(t) /\ Sections!Pending(t)' = Sections!Pending(t)
             /\ suggestions'[t]["pending"] = suggestions[t]["pending"]
             /\ suggestions[t]["pending"] \in Nat
  BY <1>1, Three DEF Sections!Made, Sections!Pending, suggestions
<1>7. ASSUME NEW t \in Themes
      PROVE  (Sections!Pending(t) + Cardinality(Suggesting(t)) <= Cardinality(Pair))'
  <2>1. CASE t \notin fresh
    <3>1. Suggesting(t)' \subseteq Suggesting(t)
      BY <1>4, <2>1
    <3>2. QED
      BY <1>6, <3>1, FewerWaiting
  <2>2. CASE t \in fresh
    <3>1. Suggesting(t)' \in SUBSET Pair
      BY DEF Suggesting
    <3>2. Cardinality(Suggesting(t)') \in Nat /\ Cardinality(Suggesting(t)') <= Cardinality(Pair)
      BY <3>1, SectionSizes, Counts
    <3>3. Sections!Pending(t)' = 0
      BY <1>3, <1>6, <2>2
    <3>4. Sections!Pending(t)' + Cardinality(Suggesting(t)') <= Cardinality(Pair)
      BY <3>2, <3>3, SectionSizes
    <3>5. QED
      BY <3>4
  <2>3. QED
    BY <2>1, <2>2
<1>8. \A t \in Themes : Sections!Made(t)' <= MaxSuggestions
  BY <1>6 DEF SectionsInv
<1>9. suggestions' \in [Themes -> [Sections!Status -> Nat]]
      /\ homeSections' \in [Couple \cup {One} -> SectionRow]
  BY <1>1 DEF SectionsInv
<1>10. QED
  BY <1>4, <1>5, <1>7, <1>8, <1>9, AllPlaced, SectionsAsBefore

LEMMA ReadTitlesInv ==
  ASSUME CatalogueAssumption, SectionsInv, NEW c \in Pair, Sections!ReadTitles(c)
  PROVE  SectionsInv'
<1> DEFINE fresh == adminCalls[c].fresh \ {homeSections[i].title : i \in Sections!Live}
<1>1. adminCalls[c].step = "titles" /\ homeSections' = homeSections /\ suggestions' = suggestions
  BY DEF Sections!ReadTitles, adminCalls, homeSections, suggestions
<1>2. adminCalls[c].fresh \in SUBSET Themes
  BY <1>1 DEF SectionsInv, AdminCall, Sections!Idle
<1>3. CASE adminCalls' = [adminCalls EXCEPT ![c] = Sections!Idle]
  BY <1>1, <1>3, IdleOrLast, PassiveInv
<1>4. CASE adminCalls' = [adminCalls EXCEPT ![c] = [step |-> "suggest", fresh |-> fresh]]
  <2> DEFINE m == [step |-> "suggest", fresh |-> fresh]
  <2>1. m \in AdminCall /\ m.step = "suggest" /\ m.fresh = fresh
    BY <1>2 DEF AdminCall
  <2>2. \A t \in fresh : c \in Suggesting(t)
    BY <1>1 DEF Suggesting
  <2>3. adminCalls' = [adminCalls EXCEPT ![c] = m]
    BY <1>4
  <2> HIDE DEF m, fresh
  <2>4. /\ adminCalls' \in [Pair -> AdminCall]
        /\ \A t : Suggesting(t)' = IF t \in fresh THEN Suggesting(t) \cup {c} ELSE Suggesting(t) \ {c}
        /\ \A n : Inserting(n)' = Inserting(n) \ {c}
    BY <2>1, <2>3, CallCounts
  <2>5. SameWaiting
    BY <1>1, <2>2, <2>4 DEF SameWaiting
  <2>6. SamePlaces
    BY <1>1, <2>4, SameSections DEF SamePlaces, SectionsInv
  <2>7. QED
    BY <2>4, <2>5, <2>6, SectionsAtRest
<1>5. QED
  BY <1>3, <1>4 DEF Sections!ReadTitles, Sections!Put, adminCalls, homeSections

LEMMA SuggestInv ==
  ASSUME CatalogueAssumption, SectionsInv, NEW c \in Pair, Sections!Suggest(c)
  PROVE  SectionsInv'
<1> DEFINE fresh == adminCalls[c].fresh
<1>1. /\ adminCalls[c].step = "suggest" /\ homeSections' = homeSections
      /\ \A t \in fresh : Sections!Made(t) < MaxSuggestions
      /\ suggestions' = [t \in Themes |-> IF t \in fresh
           THEN [suggestions[t] EXCEPT !["pending"] = suggestions[t]["pending"] + 1]
           ELSE suggestions[t]]
      /\ adminCalls' = [adminCalls EXCEPT ![c] = Sections!Idle]
  BY DEF Sections!Suggest, Sections!Put, adminCalls, homeSections, suggestions
<1>2. fresh \in SUBSET Themes
  BY <1>1 DEF SectionsInv, AdminCall, Sections!Idle
<1>3. /\ adminCalls' \in [Pair -> AdminCall]
      /\ \A t : Suggesting(t)' = Suggesting(t) \ {c}
      /\ \A n : Inserting(n)' = Inserting(n) \ {c}
  BY <1>1, IdleOrLast, PassiveCall
<1>4. SamePlaces
  BY <1>1, <1>3, SameSections DEF SamePlaces, SectionsInv
<1>5. \A t \in fresh : c \in Suggesting(t)
  BY <1>1 DEF Suggesting
<1> HIDE DEF fresh
<1>6. ASSUME NEW t \in Themes
      PROVE  /\ suggestions'[t] \in [Sections!Status -> Nat]
             /\ suggestions'[t]["pending"] =
                  suggestions[t]["pending"] + (IF t \in fresh THEN 1 ELSE 0)
             /\ suggestions'[t]["accepted"] = suggestions[t]["accepted"]
             /\ suggestions'[t]["dismissed"] = suggestions[t]["dismissed"]
  <2>1. suggestions[t] \in [Sections!Status -> Nat]
    BY DEF SectionsInv
  <2>2. CASE t \in fresh
    <3>1. suggestions'[t] = [suggestions[t] EXCEPT !["pending"] = suggestions[t]["pending"] + 1]
      BY <1>1, <2>2
    <3>2. suggestions[t]["pending"] + 1 \in Nat
      BY <2>1 DEF Sections!Status
    <3>3. QED
      BY <2>1, <2>2, <3>1, <3>2 DEF Sections!Status
  <2>3. CASE t \notin fresh
    <3>1. suggestions'[t] = suggestions[t]
      BY <1>1, <2>3
    <3>2. suggestions[t]["pending"] \in Nat
      BY <2>1 DEF Sections!Status
    <3>3. QED
      BY <2>1, <2>3, <3>1, <3>2
  <2>4. QED
    BY <2>2, <2>3
<1>7. suggestions' \in [Themes -> [Sections!Status -> Nat]]
  <2>1. suggestions' = [t \in Themes |-> suggestions'[t]]
    BY <1>1
  <2>2. QED
    BY <1>6, <2>1
<1>8. ASSUME NEW t \in Themes PROVE Sections!Made(t)' <= MaxSuggestions
  <2>1. Sections!Made(t)' = suggestions'[t]["pending"] + suggestions'[t]["accepted"]
                              + suggestions'[t]["dismissed"]
    BY DEF Sections!Made, Sections!Pending, suggestions
  <2>2. PICK p \in Nat, a \in Nat, d \in Nat :
          /\ p = suggestions[t]["pending"] /\ a = suggestions[t]["accepted"]
          /\ d = suggestions[t]["dismissed"] /\ Sections!Made(t) = p + a + d
    BY Three
  <2>3. Sections!Made(t)' = p + (IF t \in fresh THEN 1 ELSE 0) + a + d
    BY <1>6, <2>1, <2>2
  <2>4. p + a + d <= MaxSuggestions /\ (t \in fresh => p + a + d < MaxSuggestions)
    BY <1>1, <2>2 DEF SectionsInv
  <2>5. QED
    BY <2>3, <2>4, SectionSizes
<1>9. ASSUME NEW t \in Themes
      PROVE  (Sections!Pending(t) + Cardinality(Suggesting(t)) <= Cardinality(Pair))'
  <2>1. CASE t \notin fresh
    <3>1. suggestions'[t]["pending"] = suggestions[t]["pending"] /\ suggestions[t]["pending"] \in Nat
      BY <1>6, <2>1, Three
    <3>2. QED
      BY <1>3, <3>1, FewerWaiting
  <2>2. CASE t \in fresh
    <3>1. c \in Suggesting(t) /\ Suggesting(t)' = Suggesting(t) \ {c}
      BY <1>3, <1>5, <2>2
    <3>2. Cardinality(Suggesting(t)') = Cardinality(Suggesting(t)) - 1
      BY <3>1, AdminCounts, Counts, SectionSizes
    <3>3. /\ Sections!Pending(t) \in Nat /\ suggestions[t]["pending"] = Sections!Pending(t)
          /\ Cardinality(Suggesting(t)) \in Nat
          /\ Sections!Pending(t) + Cardinality(Suggesting(t)) <= Cardinality(Pair)
      BY Three, AdminCounts DEF SectionsInv
    <3>4. Sections!Pending(t)' = Sections!Pending(t) + 1
      BY <1>6, <2>2, <3>3 DEF Sections!Pending, suggestions
    <3>5. Sections!Pending(t)' + Cardinality(Suggesting(t)') <= Cardinality(Pair)
      BY <3>2, <3>3, <3>4
    <3>6. QED
      BY <3>5
  <2>3. QED
    BY <2>1, <2>2
<1>10. homeSections' \in [Couple \cup {One} -> SectionRow]
  BY <1>1 DEF SectionsInv
<1>11. QED
  BY <1>3, <1>4, <1>7, <1>8, <1>9, <1>10, AllPlaced, SectionsAsBefore

LEMMA SectionsNext == ASSUME CatalogueAssumption, SectionsInv, Sections!Next PROVE SectionsInv'
<1>1. ASSUME NEW c \in Pair, Sections!Fail(c) PROVE SectionsInv'
  <2>1. /\ adminCalls' = [adminCalls EXCEPT ![c] = Sections!Idle]
        /\ homeSections' = homeSections /\ suggestions' = suggestions
    BY <1>1 DEF Sections!Fail, Sections!Put, adminCalls, homeSections, suggestions
  <2>2. QED
    BY <2>1, IdleOrLast, PassiveInv
<1>2. ASSUME NEW c \in Pair, NEW t \in Themes, Sections!StartCreate(c, t) PROVE SectionsInv'
  <2>1. /\ adminCalls' = [adminCalls EXCEPT ![c] = [step |-> "last", title |-> t]]
        /\ homeSections' = homeSections /\ suggestions' = suggestions
    BY <1>2 DEF Sections!StartCreate, Sections!Put, adminCalls, homeSections, suggestions
  <2>2. QED
    BY <2>1, IdleOrLast, PassiveInv
<1>3. CASE \E c \in Pair : Sections!FindLast(c) \/ Sections!ReadTitles(c) \/ Sections!Suggest(c)
  BY <1>3, FindLastInv, ReadTitlesInv, SuggestInv
<1>4. CASE \E c \in Pair : \/ \E t \in Themes, from \in Sections!Status : Sections!Accept(c, t, from)
                           \/ \E i \in Couple \cup {One} : Sections!Insert(c, i)
                           \/ \E found \in SUBSET Themes : Sections!Detect(c, found)
  BY <1>4, AcceptInv, InsertInv, DetectInv
<1>5. CASE \E t \in Themes, from \in Sections!Status : Sections!Dismiss(t, from)
  BY <1>5, DismissInv
<1>6. CASE \/ \E i \in Couple \cup {One} : Sections!Delete(i)
           \/ \E i \in Couple \cup {One}, t \in Themes, n \in Sections!Places :
                Sections!CreateAt(i, t, n) \/ Sections!Update(i, t, n)
           \/ \E rank \in [Couple \cup {One} -> 0..(Sections!Cardinality(Couple \cup {One}) - 1)] :
                Sections!Reorder(rank)
  BY <1>6, HandSteps
<1>7. QED
  BY <1>1, <1>2, <1>3, <1>4, <1>5, <1>6, Zenon DEF Sections!Next

-----------------------------------------------------------------------------
(***************************************************************************)
(* Search: the pages are slices of the listings in their order, and        *)
(* sorting a page keeps what is on it.                                     *)
(***************************************************************************)
offers == s1
sorting == s2
worded == s3
skipped == s4
leafed == s5

Exact == {i \in Numbered : offers[i].match = "exact" /\ offers[i].passes}
ByOrder == {e \in Numbered \X Numbered : Finder!OrderBy(e[1], e[2])}
Tied(a, b) == a # b /\ ~Finder!OrderBy(a, b) /\ ~Finder!OrderBy(b, a)
Total == Finder!IsPriceSort \/ ~\E a, b \in Numbered : Tied(a, b)
Placed(x) == Cardinality(Before(Exact, ByOrder, x)) + 1

\* Boosted before others, the later bump first.
ByBoost ==
  {e \in Numbered \X Numbered :
     \/ offers[e[1]].boosted /\ ~offers[e[2]].boosted
     \/ /\ offers[e[1]].boosted = offers[e[2]].boosted
        /\ offers[e[1]].bump > offers[e[2]].bump}

\* Listings that may be on a page, none twice.
Candidates(p) ==
  /\ \E k \in Nat : p \in [1..k -> Numbered]
  /\ \A i, j \in DOMAIN p : i # j => p[i] # p[j]
  /\ \A i \in DOMAIN p : offers[p[i]].passes /\ offers[p[i]].match # "none"

InOrder(p) ==
  /\ Finder!IsPriceSort => \A i, j \in DOMAIN p : i < j => <<p[j], p[i]>> \notin ByOrder
  /\ ~Finder!IsPriceSort => \A i, j \in DOMAIN p : i < j => <<p[j], p[i]>> \notin ByBoost

\* The n-th page of a search without text, where the order is total.
ShowsPlaces(p, n) ==
  \A x \in Numbered : (\E i \in DOMAIN p : p[i] = x) <=>
    x \in Exact /\ (n - 1) * PageTake < Placed(x) /\ Placed(x) <= n * PageTake

FinderTyped ==
  /\ offers \in [Numbered -> Finder!Listing] /\ sorting \in Orderings /\ worded \in BOOLEAN
  /\ ~worded => \A i \in Numbered : offers[i].match = "exact"

FinderInv ==
  /\ FinderTyped
  /\ \E n \in Nat :
       /\ DOMAIN leafed = 1..n /\ skipped = n * PageTake
       /\ \A m \in 1..n : /\ Candidates(leafed[m]) /\ InOrder(leafed[m])
                          /\ ~worded /\ Total => ShowsPlaces(leafed[m], m)

LEMMA FinderSizes ==
  ASSUME CatalogueAssumption
  PROVE  /\ IsFiniteSet(Numbered) /\ Numbered \in SUBSET Nat
         /\ SearchPrices \in SUBSET Int /\ SearchBumps \in SUBSET Int
         /\ Orderings \subseteq {"recent", "price_asc", "price_desc"}
         /\ PageTake \in Nat /\ PageTake > 0
  BY SameCounts DEF CatalogueAssumption, Finder!SearchAssumption

LEMMA OfferIs ==
  ASSUME CatalogueAssumption, FinderTyped, NEW a \in Numbered
  PROVE  /\ a \in Int /\ offers[a].price \in Int /\ offers[a].bump \in Int
         /\ offers[a].boosted \in BOOLEAN /\ offers[a].passes \in BOOLEAN
<1>1. offers[a] \in Finder!Listing
  BY DEF FinderTyped
<1>2. QED
  BY <1>1, FinderSizes DEF Finder!Listing

\* Both orders are strict, and what is before another is before or after any third.
LEMMA WeakOrders ==
  ASSUME CatalogueAssumption, FinderTyped,
         NEW a \in Numbered, NEW b \in Numbered, NEW c \in Numbered
  PROVE  /\ Finder!OrderBy(a, b) => ~Finder!OrderBy(b, a)
         /\ Finder!OrderBy(a, c) => Finder!OrderBy(a, b) \/ Finder!OrderBy(b, c)
         /\ Finder!IsPriceSort /\ a # b => Finder!OrderBy(a, b) \/ Finder!OrderBy(b, a)
<1> DEFINE pa == offers[a].price
           pb == offers[b].price
           pc == offers[c].price
           ba == offers[a].bump
           bb == offers[b].bump
           bc == offers[c].bump
<1>1. /\ a \in Int /\ b \in Int /\ c \in Int /\ pa \in Int /\ pb \in Int /\ pc \in Int
      /\ ba \in Int /\ bb \in Int /\ bc \in Int
  BY OfferIs
<1>2. sorting \in {"recent", "price_asc", "price_desc"}
  BY FinderSizes DEF FinderTyped
<1>3. CASE sorting = "price_asc"
  <2>1. /\ Finder!OrderBy(a, b) <=> pa < pb \/ (~(pa > pb) /\ a < b)
        /\ Finder!OrderBy(b, a) <=> pb < pa \/ (~(pb > pa) /\ b < a)
        /\ Finder!OrderBy(a, c) <=> pa < pc \/ (~(pa > pc) /\ a < c)
        /\ Finder!OrderBy(b, c) <=> pb < pc \/ (~(pb > pc) /\ b < c)
    BY <1>3 DEF Finder!OrderBy, offers, sorting
  <2> HIDE DEF pa, pb, pc, ba, bb, bc
  <2>2. QED
    BY <1>1, <2>1
<1>4. CASE sorting = "price_desc"
  <2>1. /\ Finder!OrderBy(a, b) <=> pa > pb \/ (~(pa < pb) /\ a < b)
        /\ Finder!OrderBy(b, a) <=> pb > pa \/ (~(pb < pa) /\ b < a)
        /\ Finder!OrderBy(a, c) <=> pa > pc \/ (~(pa < pc) /\ a < c)
        /\ Finder!OrderBy(b, c) <=> pb > pc \/ (~(pb < pc) /\ b < c)
    BY <1>4 DEF Finder!OrderBy, offers, sorting
  <2> HIDE DEF pa, pb, pc, ba, bb, bc
  <2>2. QED
    BY <1>1, <2>1
<1>5. CASE sorting = "recent"
  <2>1. /\ Finder!OrderBy(a, b) <=> ba > bb
        /\ Finder!OrderBy(b, a) <=> bb > ba
        /\ Finder!OrderBy(a, c) <=> ba > bc
        /\ Finder!OrderBy(b, c) <=> bb > bc
        /\ ~Finder!IsPriceSort
    BY <1>5 DEF Finder!OrderBy, Finder!IsPriceSort, offers, sorting
  <2> HIDE DEF pa, pb, pc, ba, bb, bc
  <2>2. QED
    BY <1>1, <2>1
<1>6. QED
  BY <1>2, <1>3, <1>4, <1>5

WeakOrder(V, Q) ==
  /\ \A a, b \in V : <<a, b>> \in Q => <<b, a>> \notin Q
  /\ \A a, b, c \in V : <<a, c>> \in Q => <<a, b>> \in Q \/ <<b, c>> \in Q

LEMMA OrderWeak ==
  ASSUME CatalogueAssumption, FinderTyped
  PROVE  WeakOrder(Numbered, ByOrder) /\ WeakOrder(Numbered, ByBoost)
<1>1. \A a, b \in Numbered : <<a, b>> \in ByOrder <=> Finder!OrderBy(a, b)
  BY DEF ByOrder
<1>2. WeakOrder(Numbered, ByOrder)
  BY <1>1, WeakOrders DEF WeakOrder
<1>3. ASSUME NEW a \in Numbered, NEW b \in Numbered, NEW c \in Numbered
      PROVE  /\ <<a, b>> \in ByBoost => <<b, a>> \notin ByBoost
             /\ <<a, c>> \in ByBoost => <<a, b>> \in ByBoost \/ <<b, c>> \in ByBoost
  <2>1. PICK x \in Int, y \in Int, z \in Int :
          x = offers[a].bump /\ y = offers[b].bump /\ z = offers[c].bump
    BY OfferIs
  <2>2. PICK p \in BOOLEAN, q \in BOOLEAN, r \in BOOLEAN :
          p = offers[a].boosted /\ q = offers[b].boosted /\ r = offers[c].boosted
    BY OfferIs
  <2>3. /\ <<a, b>> \in ByBoost <=> (p /\ ~q) \/ (p = q /\ x > y)
        /\ <<b, a>> \in ByBoost <=> (q /\ ~p) \/ (q = p /\ y > x)
        /\ <<a, c>> \in ByBoost <=> (p /\ ~r) \/ (p = r /\ x > z)
        /\ <<b, c>> \in ByBoost <=> (q /\ ~r) \/ (q = r /\ y > z)
    BY <2>1, <2>2 DEF ByBoost
  <2>4. QED
    BY <2>3
<1>4. QED
  BY <1>2, <1>3 DEF WeakOrder

\* Sorting keeps what there is, equals in the order they came in.
StablePlace(s, k, Q) ==
  {e \in (1..k) \X (1..k) : \/ <<s[e[1]], s[e[2]]>> \in Q
                            \/ e[1] < e[2] /\ <<s[e[2]], s[e[1]]>> \notin Q}

\* t has what s has, f[n] in the n-th place.
Sorts(s, k, Q, t, f) ==
  \A n \in 1..k :
    /\ f[n] \in 1..k /\ t[n] = s[f[n]]
    /\ Cardinality(Before(1..k, StablePlace(s, k, Q), f[n])) = n - 1

LEMMA StableStrict ==
  ASSUME NEW k \in Nat, NEW s, NEW V, \A i \in 1..k : s[i] \in V,
         NEW Q, WeakOrder(V, Q)
  PROVE  StrictOrder(1..k, StablePlace(s, k, Q))
<1> DEFINE R == StablePlace(s, k, Q)
<1>1. \A i, j \in 1..k : <<j, i>> \in R <=>
        \/ <<s[j], s[i]>> \in Q
        \/ j < i /\ <<s[i], s[j]>> \notin Q
  BY DEF StablePlace
<1> HIDE DEF R
<1>s1. ASSUME NEW x \in 1..k PROVE <<x, x>> \notin R
  <2>1. PICK a \in V : a = s[x]
    OBVIOUS
  <2>2. <<a, a>> \notin Q
    BY DEF WeakOrder
  <2>3. QED
    BY <1>1, <2>1, <2>2
<1>s2. ASSUME NEW x \in 1..k, NEW y \in 1..k, NEW z \in 1..k, <<x, y>> \in R, <<y, z>> \in R
      PROVE  <<x, z>> \in R
  <2>1. PICK a \in V, b \in V, c \in V : a = s[x] /\ b = s[y] /\ c = s[z]
    OBVIOUS
  <2>2. /\ <<a, b>> \in Q => <<b, a>> \notin Q
        /\ <<b, c>> \in Q => <<c, b>> \notin Q
        /\ <<a, b>> \in Q => <<a, c>> \in Q \/ <<c, b>> \in Q
        /\ <<b, c>> \in Q => <<b, a>> \in Q \/ <<a, c>> \in Q
        /\ <<c, a>> \in Q => <<c, b>> \in Q \/ <<b, a>> \in Q
    BY DEF WeakOrder
  <2>3. <<a, b>> \in Q \/ (x < y /\ <<b, a>> \notin Q)
    BY <1>1, <1>s2, <2>1
  <2>4. <<b, c>> \in Q \/ (y < z /\ <<c, b>> \notin Q)
    BY <1>1, <1>s2, <2>1
  <2>5. x < y /\ y < z => x < z
    OBVIOUS
  <2>6. <<a, c>> \in Q \/ (x < z /\ <<c, a>> \notin Q)
    BY <2>2, <2>3, <2>4, <2>5
  <2>7. QED
    BY <1>1, <2>1, <2>6
<1>s3. ASSUME NEW x \in 1..k, NEW y \in 1..k, x # y PROVE <<x, y>> \in R \/ <<y, x>> \in R
  <2>1. x < y \/ y < x
    BY <1>s3
  <2>2. QED
    BY <1>1, <2>1
<1>s4. QED
  BY <1>s1, <1>s2, <1>s3 DEF StrictOrder, R

LEMMA Stable ==
  ASSUME NEW k \in Nat, NEW s, NEW V, \A i \in 1..k : s[i] \in V,
         NEW Q, WeakOrder(V, Q), NEW t, NEW f, Sorts(s, k, Q, t, f)
  PROVE  /\ \A n \in 1..k : \E i \in 1..k : t[n] = s[i]
         /\ \A i \in 1..k : \E n \in 1..k : t[n] = s[i]
         /\ (\A i, j \in 1..k : i # j => s[i] # s[j]) =>
              \A i, j \in 1..k : i # j => t[i] # t[j]
         /\ \A m, n \in 1..k : m < n => <<t[n], t[m]>> \notin Q
<1> DEFINE R == StablePlace(s, k, Q)
           P == 1..k
<1>1. \A i, j \in 1..k : <<j, i>> \in R <=>
        \/ <<s[j], s[i]>> \in Q
        \/ j < i /\ <<s[i], s[j]>> \notin Q
  BY DEF StablePlace
<1>2. IsFiniteSet(P) /\ Cardinality(P) = k /\ StrictOrder(P, R)
  BY UpTo, StableStrict
<1>3. \A n \in P : f[n] \in P /\ t[n] = s[f[n]] /\ Cardinality(Before(P, R, f[n])) = n - 1
  BY DEF Sorts
<1> HIDE DEF P, R
<1>4. ASSUME NEW n \in P PROVE f[n] = RankedIn(P, R, n)
  <2>1. f[n] \in P /\ Cardinality(Before(P, R, f[n])) = n - 1
    BY <1>3
  <2>2. RankedIn(P, R, n) \in P /\ Cardinality(Before(P, R, RankedIn(P, R, n))) = n - 1
    BY <2>1 DEF RankedIn
  <2>3. QED
    BY <1>2, <2>1, <2>2, RankApart
<1>5. \A n \in 1..Cardinality(P) : f[n] = RankedIn(P, R, n)
  BY <1>2, <1>4 DEF P
<1>11. IsFiniteSet(P) /\ StrictOrder(P, R)
  BY <1>2
<1>12. /\ \A n \in 1..Cardinality(P) : f[n] \in P
       /\ \A x \in P : \E n \in 1..Cardinality(P) : f[n] = x
       /\ \A m, n \in 1..Cardinality(P) : m < n => <<f[m], f[n]>> \in R
       /\ \A m, n \in 1..Cardinality(P) : m # n => f[m] # f[n]
  BY ONLY <1>5, <1>11, Ranked
<1>7. /\ \A n \in 1..k : f[n] \in 1..k
      /\ \A x \in 1..k : \E n \in 1..k : f[n] = x
      /\ \A m, n \in 1..k : m < n => <<f[m], f[n]>> \in R
      /\ \A m, n \in 1..k : m # n => f[m] # f[n]
  BY <1>2, <1>12 DEF P
<1>8. \A n \in 1..k : t[n] = s[f[n]]
  BY <1>3 DEF P
<1>9. ASSUME NEW m \in 1..k, NEW n \in 1..k, m < n PROVE <<t[n], t[m]>> \notin Q
  <2>1. /\ f[m] \in 1..k /\ f[n] \in 1..k /\ <<f[m], f[n]>> \in R
        /\ t[m] = s[f[m]] /\ t[n] = s[f[n]]
    BY <1>7, <1>8, <1>9
  <2>2. <<t[m], t[n]>> \in Q \/ <<t[n], t[m]>> \notin Q
    BY <1>1, <2>1
  <2>3. t[m] \in V /\ t[n] \in V
    BY <2>1
  <2>4. QED
    BY <2>2, <2>3 DEF WeakOrder
<1>13. \A n \in 1..k : \E i \in 1..k : t[n] = s[i]
  BY <1>7, <1>8
<1>14. ASSUME NEW i \in 1..k PROVE \E n \in 1..k : t[n] = s[i]
  <2>1. PICK n \in 1..k : f[n] = i
    BY <1>7
  <2>2. t[n] = s[i]
    BY <1>8, <2>1
  <2>3. QED
    BY <2>2
<1>15. ASSUME \A i, j \in 1..k : i # j => s[i] # s[j], NEW i \in 1..k, NEW j \in 1..k, i # j
       PROVE  t[i] # t[j]
  <2>1. f[i] \in 1..k /\ f[j] \in 1..k /\ f[i] # f[j]
    BY <1>7, <1>15
  <2>2. s[f[i]] # s[f[j]]
    BY <1>15, <2>1
  <2>3. QED
    BY <1>8, <2>2
<1>10. QED
  BY <1>9, <1>13, <1>14, <1>15

\* A page in its order.
LEMMA Arranged ==
  ASSUME CatalogueAssumption, FinderTyped, NEW p, Candidates(p)
  PROVE  Candidates(Finder!InOrder(p)) /\ InOrder(Finder!InOrder(p))
         /\ \A x : (\E i \in DOMAIN p : p[i] = x)
                  <=> \E i \in DOMAIN Finder!InOrder(p) : Finder!InOrder(p)[i] = x
<1>1. PICK k \in Nat : p \in [1..k -> Numbered]
  BY DEF Candidates
<1>2. DOMAIN p = 1..k /\ \A i \in 1..k : p[i] \in Numbered
  BY <1>1
<1>3. PICK t : t = Finder!InOrder(p)
  OBVIOUS
<1>4. PICK Q : Q = IF Finder!IsPriceSort THEN ByOrder ELSE ByBoost
  OBVIOUS
<1>5. WeakOrder(Numbered, Q)
  BY <1>4, OrderWeak
<1> DEFINE R == StablePlace(p, k, Q)
<1>7. IsFiniteSet(1..k) /\ StrictOrder(1..k, R)
  BY <1>2, <1>5, UpTo, StableStrict
<1>8. \A n \in 1..k : n - 1 \in 0..(Cardinality(1..k) - 1)
  BY UpTo
<1>15. \A i, j \in 1..k : <<j, i>> \in R <=>
         \/ <<p[j], p[i]>> \in Q
         \/ j < i /\ <<p[i], p[j]>> \notin Q
  BY DEF StablePlace
<1>16. \A i \in 1..k : Cardinality(Before(1..k, R, i)) \in Int
  BY <1>7, Rank
<1> HIDE DEF R
<1>6. \E f : /\ DOMAIN t = 1..k /\ t = [n \in 1..k |-> t[n]]
            /\ \A n \in 1..k : /\ f[n] \in 1..k /\ t[n] = p[f[n]]
                               /\ Cardinality(Before(1..k, R, f[n])) = n - 1
  <2>1. CASE Finder!IsPriceSort
    <3> DEFINE A(j, i) == Finder!OrderBy(j, i)
               B(j, i) == A(p[j], p[i]) \/ (j < i /\ ~A(p[i], p[j]))
               place(i) == 1 + Cardinality({j \in DOMAIN p : B(j, i)})
    <3>1. t = [n \in DOMAIN p |-> p[CHOOSE i \in DOMAIN p : place(i) = n]]
      BY <1>3, <2>1, Zenon DEF Finder!InOrder, Finder!Sorted,
         Finder!Cardinality, Cardinality, offers
    <3>2. \A a, b \in Numbered : <<a, b>> \in Q <=> A(a, b)
      BY <1>4, <2>1 DEF ByOrder
    <3> HIDE DEF A
    <3>3. \A i, j \in 1..k : <<j, i>> \in R <=> B(j, i)
      BY <1>2, <1>15, <3>2
    <3> HIDE DEF B
    <3>4. ASSUME NEW i \in 1..k
          PROVE  place(i) = 1 + Cardinality(Before(1..k, R, i))
      <4>1. {j \in DOMAIN p : B(j, i)} = Before(1..k, R, i)
        BY <1>2, <3>3 DEF Before
      <4>2. QED
        BY <4>1
    <3> HIDE DEF place
    <3>5. ASSUME NEW n \in 1..k PROVE \E i \in 1..k : place(i) = n
      <4>1. PICK i \in 1..k : Cardinality(Before(1..k, R, i)) = n - 1
        BY <1>7, <1>8, RankTaken
      <4>2. QED
        BY <3>4, <4>1
    <3>6. PICK f : f = [n \in 1..k |-> CHOOSE i \in DOMAIN p : place(i) = n]
      OBVIOUS
    <3>7. ASSUME NEW n \in 1..k
          PROVE  /\ f[n] \in 1..k /\ t[n] = p[f[n]]
                 /\ Cardinality(Before(1..k, R, f[n])) = n - 1
      <4>1. f[n] \in 1..k /\ place(f[n]) = n /\ t[n] = p[f[n]]
        BY <1>2, <3>1, <3>5, <3>6
      <4>2. PICK c \in Int : c = Cardinality(Before(1..k, R, f[n]))
        BY <1>16, <4>1
      <4>3. 1 + c = n
        BY <3>4, <4>1, <4>2
      <4>4. QED
        BY <4>1, <4>2, <4>3
    <3>8. DOMAIN t = 1..k /\ t = [n \in 1..k |-> t[n]]
      BY <1>2, <3>1
    <3>9. QED
      BY <3>7, <3>8
  <2>2. CASE ~Finder!IsPriceSort
    <3> DEFINE A(j, i) == \/ offers[j].boosted /\ ~offers[i].boosted
                          \/ /\ offers[j].boosted = offers[i].boosted
                             /\ offers[j].bump > offers[i].bump
               B(j, i) == A(p[j], p[i]) \/ (j < i /\ ~A(p[i], p[j]))
               place(i) == 1 + Cardinality({j \in DOMAIN p : B(j, i)})
    <3>1. t = [n \in DOMAIN p |-> p[CHOOSE i \in DOMAIN p : place(i) = n]]
      BY <1>3, <2>2, Zenon DEF Finder!InOrder, Finder!applyBoostSort, Finder!Sorted,
         Finder!Cardinality, Cardinality, offers
    <3>2. \A a, b \in Numbered : <<a, b>> \in Q <=> A(a, b)
      BY <1>4, <2>2 DEF ByBoost
    <3> HIDE DEF A
    <3>3. \A i, j \in 1..k : <<j, i>> \in R <=> B(j, i)
      BY <1>2, <1>15, <3>2
    <3> HIDE DEF B
    <3>4. ASSUME NEW i \in 1..k
          PROVE  place(i) = 1 + Cardinality(Before(1..k, R, i))
      <4>1. {j \in DOMAIN p : B(j, i)} = Before(1..k, R, i)
        BY <1>2, <3>3 DEF Before
      <4>2. QED
        BY <4>1
    <3> HIDE DEF place
    <3>5. ASSUME NEW n \in 1..k PROVE \E i \in 1..k : place(i) = n
      <4>1. PICK i \in 1..k : Cardinality(Before(1..k, R, i)) = n - 1
        BY <1>7, <1>8, RankTaken
      <4>2. QED
        BY <3>4, <4>1
    <3>6. PICK f : f = [n \in 1..k |-> CHOOSE i \in DOMAIN p : place(i) = n]
      OBVIOUS
    <3>7. ASSUME NEW n \in 1..k
          PROVE  /\ f[n] \in 1..k /\ t[n] = p[f[n]]
                 /\ Cardinality(Before(1..k, R, f[n])) = n - 1
      <4>1. f[n] \in 1..k /\ place(f[n]) = n /\ t[n] = p[f[n]]
        BY <1>2, <3>1, <3>5, <3>6
      <4>2. PICK c \in Int : c = Cardinality(Before(1..k, R, f[n]))
        BY <1>16, <4>1
      <4>3. 1 + c = n
        BY <3>4, <4>1, <4>2
      <4>4. QED
        BY <4>1, <4>2, <4>3
    <3>8. DOMAIN t = 1..k /\ t = [n \in 1..k |-> t[n]]
      BY <1>2, <3>1
    <3>9. QED
      BY <3>7, <3>8
  <2>3. QED
    BY <2>1, <2>2
<1>9. PICK f : /\ DOMAIN t = 1..k /\ t = [n \in 1..k |-> t[n]]
              /\ \A n \in 1..k : /\ f[n] \in 1..k /\ t[n] = p[f[n]]
                                 /\ Cardinality(Before(1..k, R, f[n])) = n - 1
  BY <1>6
<1>17. /\ \A i \in 1..k : p[i] \in Numbered
       /\ WeakOrder(Numbered, Q) /\ Sorts(p, k, Q, t, f)
  BY <1>2, <1>5, <1>9 DEF R, Sorts
<1>10. /\ \A n \in 1..k : \E i \in 1..k : t[n] = p[i]
       /\ \A i \in 1..k : \E n \in 1..k : t[n] = p[i]
       /\ (\A i, j \in 1..k : i # j => p[i] # p[j]) =>
            \A i, j \in 1..k : i # j => t[i] # t[j]
       /\ \A m, n \in 1..k : m < n => <<t[n], t[m]>> \notin Q
  BY ONLY k \in Nat, <1>17, Stable
<1>11. \A i, j \in 1..k : i # j => t[i] # t[j]
  BY <1>2, <1>10 DEF Candidates
<1>12. Candidates(t)
  <2>1. t \in [1..k -> Numbered]
    BY <1>2, <1>9, <1>10
  <2>2. \A n \in 1..k : offers[t[n]].passes /\ offers[t[n]].match # "none"
    <3>1. \A i \in 1..k : offers[p[i]].passes /\ offers[p[i]].match # "none"
      BY <1>2 DEF Candidates
    <3>2. QED
      BY <1>10, <3>1
  <2>3. QED
    BY <1>9, <1>11, <2>1, <2>2 DEF Candidates
<1>13. InOrder(t)
  BY <1>4, <1>9, <1>10 DEF InOrder
<1>14. \A x : (\E i \in DOMAIN p : p[i] = x) <=> \E i \in DOMAIN t : t[i] = x
  BY <1>2, <1>9, <1>10
<1>20. QED
  BY <1>3, <1>12, <1>13, <1>14

\* t is what there is of n elements of s, which has k, after the first from.
Sliced(t, s, k, from, n, m) ==
  /\ DOMAIN t = 1..m /\ t = [i \in 1..m |-> t[i]]
  /\ \A i \in 1..m : t[i] = s[from + i]
  /\ \A i \in Nat \ {0} : i <= m <=> i <= n /\ from + i <= k

LEMMA SliceIs ==
  ASSUME NEW s, NEW k \in Nat, DOMAIN s = 1..k, NEW from \in Nat, NEW n \in Nat
  PROVE  \E m \in Nat : Sliced(Finder!Slice(s, from, n), s, k, from, n, m)
<1>1. Cardinality(1..k) = k
  BY UpTo
<1>2. PICK m : m = IF from + n <= k THEN n ELSE IF from < k THEN k - from ELSE 0
  OBVIOUS
<1>3. Finder!Slice(s, from, n) = [i \in 1..m |-> s[from + i]]
  BY <1>1, <1>2, Zenon DEF Finder!Slice, Finder!Cardinality, Cardinality
<1>4. m \in Nat /\ \A i \in Nat \ {0} : i <= m <=> i <= n /\ from + i <= k
  BY <1>2
<1>5. QED
  BY <1>3, <1>4 DEF Sliced

\* w is s, which has a elements, and then t, which has b.
Joined(w, s, a, t, b) ==
  /\ DOMAIN w = 1..(a + b)
  /\ \A i \in 1..a : w[i] = s[i] /\ i \in 1..(a + b)
  /\ \A i \in 1..(a + b) : i \notin 1..a => i - a \in 1..b /\ w[i] = t[i - a]

LEMMA JoinIs ==
  ASSUME NEW s, NEW a \in Nat, DOMAIN s = 1..a, NEW t, NEW b \in Nat, DOMAIN t = 1..b
  PROVE  Joined(Finder!Join(s, t), s, a, t, b)
<1>1. Cardinality(1..a) = a /\ Cardinality(1..b) = b
  BY UpTo
<1>2. Finder!Join(s, t) = [i \in 1..(a + b) |-> IF i \in 1..a THEN s[i] ELSE t[i - a]]
  <2>1. Finder!Cardinality(DOMAIN s) = a /\ Finder!Cardinality(DOMAIN t) = b
    BY <1>1, SameCounts
  <2>2. QED
    BY <2>1, Zenon DEF Finder!Join
<1>3. DOMAIN Finder!Join(s, t) = 1..(a + b)
  BY <1>2
<1>4. \A i \in 1..a : Finder!Join(s, t)[i] = s[i] /\ i \in 1..(a + b)
  BY <1>2
<1>5. ASSUME NEW i \in 1..(a + b), i \notin 1..a
      PROVE  i - a \in 1..b /\ Finder!Join(s, t)[i] = t[i - a]
  BY <1>2, <1>5
<1>6. QED
  BY <1>3, <1>4, <1>5 DEF Joined

\* S in an order.
LEMMA OrderedIs ==
  ASSUME NEW S, IsFiniteSet(S), NEW s \in Finder!Orders(S)
  PROVE  \E k \in Nat :
           /\ k = Cardinality(S) /\ s \in [1..k -> S]
           /\ \A i, j \in 1..k : i # j => s[i] # s[j]
           /\ \A x \in S : \E i \in 1..k : s[i] = x
<1>1. PICK k \in Nat : k = Cardinality(S)
  BY Counts
<1>2. s \in [1..k -> S] /\ \A i, j \in 1..k : i # j => s[i] # s[j]
  <2>1. s \in [1..Cardinality(S) -> S] /\ \A i, j \in DOMAIN s : i # j => s[i] # s[j]
    BY Zenon DEF Finder!Orders, Finder!Cardinality, Cardinality
  <2>2. QED
    BY <1>1, <2>1
<1> DEFINE T == {s[i] : i \in 1..k}
<1>3. T \in SUBSET S
  BY <1>2
<1>4. IsFiniteSet(1..k) /\ Cardinality(1..k) = k
  BY UpTo
<1>5. Cardinality(T) = k
  BY <1>2, <1>4, Distinct
<1>6. T = S
  <2>1. PICK c \in Int : c = Cardinality(T)
    BY <1>5
  <2> HIDE DEF T
  <2>2. T # S => Cardinality(T) < Cardinality(S)
    BY <1>3, Counts
  <2>3. QED
    BY <1>1, <1>5, <2>2
<1>7. \A x \in S : \E i \in 1..k : s[i] = x
  BY <1>6
<1>8. QED
  BY <1>1, <1>2, <1>7

LEMMA FilledUpIs ==
  ASSUME CatalogueAssumption, FinderTyped, NEW p, Candidates(p), NEW q \in Finder!FilledUp(p)
  PROVE  Candidates(q) /\ (~worded => q = p)
<1>1. CASE q = p
  BY <1>1
<1>2. CASE q # p
  <2>1. worded /\ \E e \in Finder!Extras(p) : q = Finder!Slice(Finder!Join(p, e), 0, PageTake)
    BY <1>2, Zenon DEF Finder!FilledUp, worded
  <2>2. PICK e \in Finder!Extras(p) : q = Finder!Slice(Finder!Join(p, e), 0, PageTake)
    BY <2>1
  <2> DEFINE similar == {i \in Numbered : offers[i].match # "none"}
             keep(top) == {i \in Finder!Members(top) : offers[i].passes} \ Finder!Members(p)
  <2>3. \E top \in {Finder!Slice(s, 0, PageTake) : s \in Finder!Orders(similar)} :
          e \in Finder!Orders(keep(top))
    BY Zenon DEF Finder!Extras, offers
  <2>4. PICK s \in Finder!Orders(similar) : e \in Finder!Orders(keep(Finder!Slice(s, 0, PageTake)))
    BY <2>3
  <2>5. IsFiniteSet(similar) /\ similar \in SUBSET Numbered
    <3>1. similar \in SUBSET Numbered
      OBVIOUS
    <3>2. QED
      BY <3>1, FinderSizes, Counts
  <2>6. PICK K \in Nat : s \in [1..K -> similar]
    <3> HIDE DEF similar
    <3>1. QED
      BY <2>5, OrderedIs
  <2>7. 0 \in Nat /\ PageTake \in Nat /\ DOMAIN s = 1..K
    BY <2>6, FinderSizes
  <2>8. PICK top : top = Finder!Slice(s, 0, PageTake)
    OBVIOUS
  <2>9. \A i \in DOMAIN top : top[i] \in similar
    <3> HIDE DEF similar, keep
    <3>1. PICK m \in Nat : Sliced(Finder!Slice(s, 0, PageTake), s, K, 0, PageTake, m)
      BY <2>7, SliceIs
    <3>2. DOMAIN top = 1..m /\ \A i \in 1..m : top[i] = s[0 + i] /\ 0 + i \in 1..K
      BY <2>8, <3>1 DEF Sliced
    <3>3. ASSUME NEW i \in 1..m PROVE top[i] \in similar
      <4>1. PICK j \in 1..K : top[i] = s[j]
        BY <3>2
      <4>2. QED
        BY <2>6, <4>1
    <3>4. QED
      BY <3>2, <3>3
  <2> DEFINE S == keep(top)
  <2>10. /\ S \subseteq similar /\ \A x \in S : offers[x].passes
         /\ \A x \in S : \A i \in DOMAIN p : p[i] # x
    BY <2>9 DEF Finder!Members
  <2>11. IsFiniteSet(S)
    BY <2>5, <2>10, Counts
  <2>12. e \in Finder!Orders(S)
    BY <2>4, <2>8
  <2>13. \A x \in S : /\ x \in Numbered /\ offers[x].passes /\ offers[x].match # "none"
                      /\ \A i \in DOMAIN p : p[i] # x
    BY <2>10
  <2> HIDE DEF S, keep, similar
  <2>14. PICK b \in Nat : e \in [1..b -> S] /\ \A i, j \in 1..b : i # j => e[i] # e[j]
    BY <2>11, <2>12, OrderedIs
  <2>15. PICK a \in Nat : DOMAIN p = 1..a
    BY DEF Candidates
  <2>16. PICK w : w = Finder!Join(p, e)
    OBVIOUS
  <2>17. /\ DOMAIN w = 1..(a + b)
         /\ \A i \in 1..a : w[i] = p[i] /\ i \in 1..(a + b)
         /\ \A i \in 1..(a + b) : i \notin 1..a => i - a \in 1..b /\ w[i] = e[i - a]
    <3>1. DOMAIN p = 1..a /\ DOMAIN e = 1..b
      BY <2>14, <2>15
    <3>2. Joined(w, p, a, e, b)
      BY <2>16, <3>1, JoinIs
    <3>3. QED
      BY <3>2 DEF Joined
  <2>18. \A i \in 1..(a + b) : /\ w[i] \in Numbered /\ offers[w[i]].passes
                              /\ offers[w[i]].match # "none"
    BY <2>13, <2>14, <2>15, <2>17 DEF Candidates
  <2>19. ASSUME NEW i \in 1..(a + b), NEW j \in 1..(a + b), i # j PROVE w[i] # w[j]
    <3>1. CASE i \in 1..a /\ j \in 1..a
      BY <2>15, <2>17, <2>19, <3>1 DEF Candidates
    <3>2. CASE i \notin 1..a /\ j \notin 1..a
      <4>1. i - a \in 1..b /\ j - a \in 1..b /\ i - a # j - a /\ w[i] = e[i - a] /\ w[j] = e[j - a]
        BY <2>17, <2>19, <3>2
      <4>2. QED
        BY <2>14, <4>1
    <3>3. CASE i \in 1..a /\ j \notin 1..a
      <4>1. w[i] = p[i] /\ w[j] = e[j - a] /\ j - a \in 1..b
        BY <2>17, <3>3
      <4>2. e[j - a] \in S
        BY <2>14, <4>1
      <4>3. QED
        BY <2>13, <2>15, <3>3, <4>1, <4>2
    <3>4. CASE i \notin 1..a /\ j \in 1..a
      <4>1. w[j] = p[j] /\ w[i] = e[i - a] /\ i - a \in 1..b
        BY <2>17, <3>4
      <4>2. e[i - a] \in S
        BY <2>14, <4>1
      <4>3. QED
        BY <2>13, <2>15, <3>4, <4>1, <4>2
    <3>5. QED
      BY <3>1, <3>2, <3>3, <3>4
  <2>20. PICK c \in Nat : c = a + b
    OBVIOUS
  <2>21. DOMAIN w = 1..c
    BY <2>17, <2>20
  <2>22. PICK m \in Nat : Sliced(Finder!Slice(w, 0, PageTake), w, c, 0, PageTake, m)
    BY <2>7, <2>21, SliceIs
  <2>23. /\ DOMAIN q = 1..m /\ q = [i \in 1..m |-> q[i]]
         /\ \A i \in 1..m : q[i] = w[i] /\ i \in 1..c
    BY <2>2, <2>16, <2>22 DEF Sliced
  <2>24. /\ \A i \in 1..m : /\ q[i] \in Numbered /\ offers[q[i]].passes
                            /\ offers[q[i]].match # "none"
         /\ \A i, j \in 1..m : i # j => q[i] # q[j]
    BY <2>18, <2>19, <2>20, <2>23
  <2>25. q \in [1..m -> Numbered]
    BY <2>23, <2>24
  <2>26. QED
    BY <2>1, <2>23, <2>24, <2>25 DEF Candidates
<1>3. QED
  BY <1>1, <1>2

\* What the database answers: the exact matches, one before another that follows it.
FoundIn(s, K) ==
  /\ K = Cardinality(Exact) /\ s \in [1..K -> Exact]
  /\ \A i, j \in 1..K : i # j => s[i] # s[j]
  /\ \A x \in Exact : \E i \in 1..K : s[i] = x
  /\ \A i, j \in 1..K : Finder!OrderBy(s[i], s[j]) => i < j

LEMMA FoundIs ==
  ASSUME CatalogueAssumption, NEW s \in Finder!Found
  PROVE  \E K \in Nat : FoundIn(s, K)
<1>1. Exact \in SUBSET Numbered /\ IsFiniteSet(Exact)
  <2>1. Exact \in SUBSET Numbered
    BY DEF Exact
  <2>2. QED
    BY <2>1, FinderSizes, Counts
<1>2. /\ s \in Finder!Orders(Exact)
      /\ \A i, j \in DOMAIN s : Finder!OrderBy(s[i], s[j]) => i < j
  BY Zenon DEF Finder!Found, Exact, offers
<1>3. PICK K \in Nat :
        /\ K = Cardinality(Exact) /\ s \in [1..K -> Exact]
        /\ \A i, j \in 1..K : i # j => s[i] # s[j]
        /\ \A x \in Exact : \E i \in 1..K : s[i] = x
  BY <1>1, <1>2, OrderedIs
<1>4. \A i, j \in 1..K : Finder!OrderBy(s[i], s[j]) => i < j
  BY <1>2, <1>3
<1>5. QED
  BY <1>3, <1>4 DEF FoundIn

\* Where the order is total, the place of a match is where it is found.
LEMMA FoundPlaced ==
  ASSUME CatalogueAssumption, FinderTyped, Total,
         NEW s, NEW K \in Nat, FoundIn(s, K), NEW i \in 1..K
  PROVE  Placed(s[i]) = i
<1>1. \A a, b \in Numbered : a # b => Finder!OrderBy(a, b) \/ Finder!OrderBy(b, a)
  BY WeakOrders DEF Total, Tied
<1>2. \A j \in 1..K : s[j] \in Exact /\ s[j] \in Numbered
  BY DEF FoundIn, Exact
<1>3. ASSUME NEW y
      PROVE  y \in Before(Exact, ByOrder, s[i]) <=> \E j \in 1..(i - 1) : s[j] = y
  <2>1. y \in Before(Exact, ByOrder, s[i]) <=> y \in Exact /\ Finder!OrderBy(y, s[i])
    BY <1>2 DEF Before, ByOrder, Exact
  <2>2. ASSUME y \in Exact, Finder!OrderBy(y, s[i]) PROVE \E j \in 1..(i - 1) : s[j] = y
    <3>1. PICK j \in 1..K : s[j] = y
      BY <2>2 DEF FoundIn
    <3>2. j < i
      BY <2>2, <3>1 DEF FoundIn
    <3>3. QED
      BY <3>1, <3>2
  <2>3. ASSUME NEW j \in 1..(i - 1), s[j] = y PROVE y \in Exact /\ Finder!OrderBy(y, s[i])
    <3>1. j \in 1..K /\ j # i /\ ~(i < j)
      OBVIOUS
    <3>2. s[j] # s[i] /\ ~Finder!OrderBy(s[i], s[j])
      BY <3>1 DEF FoundIn
    <3>3. QED
      BY <1>1, <1>2, <2>3, <3>1, <3>2
  <2>4. QED
    BY <2>1, <2>2, <2>3
<1> DEFINE S == 1..(i - 1)
<1>4. IsFiniteSet(S) /\ Cardinality(S) = i - 1 /\ i - 1 \in Nat /\ S \subseteq 1..K
  BY UpTo
<1>5. \A x, y \in S : x # y => s[x] # s[y]
  BY <1>4 DEF FoundIn
<1>6. Before(Exact, ByOrder, s[i]) = {s[j] : j \in S}
  BY <1>3
<1> HIDE DEF S
<1>7. Cardinality({s[j] : j \in S}) = Cardinality(S)
  BY <1>4, <1>5, Distinct
<1>8. QED
  BY <1>4, <1>6, <1>7 DEF Placed

\* What the search shows next.
LEMMA PageIs ==
  ASSUME CatalogueAssumption, FinderTyped, NEW s, NEW K \in Nat, FoundIn(s, K), NEW n \in Nat,
         NEW p, p = Finder!Slice(s, n * PageTake, PageTake)
  PROVE  Candidates(p) /\ (Total => ShowsPlaces(p, n + 1))
<1>1. PICK from \in Nat, to \in Nat :
        from = n * PageTake /\ to = (n + 1) * PageTake /\ to = from + PageTake
  BY FinderSizes
<1>2. DOMAIN s = 1..K /\ \A i \in 1..K : s[i] \in Exact
  BY DEF FoundIn
<1>3. PageTake \in Nat
  BY FinderSizes
<1>4. PICK m \in Nat : Sliced(Finder!Slice(s, from, PageTake), s, K, from, PageTake, m)
  BY <1>2, <1>3, SliceIs
<1>5. /\ DOMAIN p = 1..m /\ p = [i \in 1..m |-> p[i]]
      /\ \A i \in 1..m : p[i] = s[from + i] /\ from + i \in 1..K /\ i <= PageTake
      /\ \A i \in Nat \ {0} : i <= m <=> i <= PageTake /\ from + i <= K
  BY <1>1, <1>4 DEF Sliced
<1>6. \A i \in 1..m : p[i] \in Exact
  BY <1>2, <1>5
<1>7. ASSUME NEW i \in 1..m, NEW j \in 1..m, i # j PROVE p[i] # p[j]
  <2>1. PICK x \in 1..K, y \in 1..K : x = from + i /\ y = from + j /\ x # y
    BY <1>5, <1>7
  <2>2. p[i] = s[x] /\ p[j] = s[y]
    BY <1>5, <2>1
  <2>3. QED
    BY <2>1, <2>2 DEF FoundIn
<1>8. Candidates(p)
  <2>1. p \in [1..m -> Numbered]
    BY <1>5, <1>6 DEF Exact
  <2>2. \A i \in 1..m : offers[p[i]].passes /\ offers[p[i]].match # "none"
    BY <1>6 DEF Exact
  <2>3. QED
    BY <1>5, <1>7, <2>1, <2>2 DEF Candidates
<1>9. ASSUME Total PROVE ShowsPlaces(p, n + 1)
  <2>1. (n + 1 - 1) * PageTake = from
    BY <1>1
  <2>2. ASSUME NEW x \in Numbered
        PROVE  (\E i \in DOMAIN p : p[i] = x) <=>
                 x \in Exact /\ from < Placed(x) /\ Placed(x) <= to
    <3>1. ASSUME NEW i \in 1..m, p[i] = x
          PROVE  x \in Exact /\ from < Placed(x) /\ Placed(x) <= to
      <4>1. PICK j \in 1..K, t \in Nat :
              j = from + i /\ x = s[j] /\ t = PageTake /\ i <= t /\ to = from + t
        BY <1>1, <1>3, <1>5, <3>1
      <4>2. Placed(x) = j
        BY <1>9, <4>1, FoundPlaced
      <4>3. from < j /\ j <= to
        BY <4>1
      <4>4. x \in Exact
        BY <1>6, <3>1
      <4>5. QED
        BY <4>2, <4>3, <4>4
    <3>2. ASSUME x \in Exact, from < Placed(x), Placed(x) <= to
          PROVE  \E i \in 1..m : p[i] = x
      <4>1. PICK j \in 1..K, t \in Nat : s[j] = x /\ t = PageTake /\ to = from + t
        BY <1>1, <1>3, <3>2 DEF FoundIn
      <4>2. Placed(x) = j
        BY <1>9, <4>1, FoundPlaced
      <4>3. from < j /\ j <= to
        BY <3>2, <4>2
      <4>4. PICK i \in Nat \ {0} : i <= t /\ from + i = j /\ from + i <= K
        <5>1. j - from \in Nat \ {0} /\ j - from <= t /\ from + (j - from) = j
          BY <4>1, <4>3
        <5>2. QED
          BY <5>1
      <4>5. i <= m
        BY <1>5, <4>1, <4>4
      <4>6. i \in 1..m
        BY <4>5
      <4>7. QED
        BY <1>5, <4>1, <4>4, <4>6
    <3>3. QED
      BY <1>5, <3>1, <3>2
  <2>3. QED
    BY <1>1, <2>1, <2>2 DEF ShowsPlaces
<1>10. QED
  BY <1>8, <1>9

LEMMA ShowsOn ==
  ASSUME NEW p, NEW q, NEW n, ShowsPlaces(p, n),
         \A x : (\E i \in DOMAIN p : p[i] = x) <=> \E i \in DOMAIN q : q[i] = x
  PROVE  ShowsPlaces(q, n)
  BY DEF ShowsPlaces

\* What is for sale and what was asked for stay.
LEMMA SameSearch ==
  ASSUME offers' = offers, sorting' = sorting, worded' = worded, NEW p, NEW n
  PROVE  /\ FinderTyped => FinderTyped'
         /\ Candidates(p) => Candidates(p)'
         /\ InOrder(p) => InOrder(p)'
         /\ Total' => Total
         /\ ShowsPlaces(p, n) => ShowsPlaces(p, n)'
  BY DEF FinderTyped, Candidates, InOrder, Total, Tied, ShowsPlaces, Placed, Before, Exact,
     ByOrder, ByBoost, Finder!OrderBy, Finder!IsPriceSort, offers, sorting, worded

LEMMA FinderInit == ASSUME CatalogueAssumption, Finder!Init PROVE FinderInv
<1>1. FinderTyped
  BY Zenon DEF Finder!Init, FinderTyped, offers, sorting, worded
<1>2. DOMAIN leafed = 1..0 /\ skipped = 0 * PageTake
  <2>1. leafed = <<>> /\ skipped = 0
    BY DEF Finder!Init, leafed, skipped
  <2>2. QED
    BY <2>1, FinderSizes
<1>3. \A m \in 1..0 : m # m
  OBVIOUS
<1>4. 0 \in Nat
  OBVIOUS
<1>5. QED
  BY <1>1, <1>2, <1>3, <1>4, Zenon DEF FinderInv

\* What was asked for the m-th page.
PageSound(p, m) ==
  /\ Candidates(p) /\ InOrder(p)
  /\ ~worded /\ Total => ShowsPlaces(p, m)

LEMMA FinderNext ==
  ASSUME CatalogueAssumption, FinderInv, Finder!Next
  PROVE  FinderInv'
<1>1. PICK s \in Finder!Found :
        \E page \in Finder!FilledUp(Finder!Slice(s, skipped, PageTake)) :
          /\ leafed' = Finder!Join(leafed, <<Finder!InOrder(page)>>)
          /\ skipped' = skipped + PageTake
          /\ UNCHANGED <<offers, sorting, worded>>
  BY Zenon DEF Finder!Next, Finder!search, skipped, leafed, offers, sorting, worded
<1>2. PICK page \in Finder!FilledUp(Finder!Slice(s, skipped, PageTake)) :
          /\ leafed' = Finder!Join(leafed, <<Finder!InOrder(page)>>)
          /\ skipped' = skipped + PageTake
          /\ UNCHANGED <<offers, sorting, worded>>
  BY <1>1
<1>3. PICK n \in Nat :
        /\ DOMAIN leafed = 1..n /\ skipped = n * PageTake
        /\ \A m \in 1..n : PageSound(leafed[m], m)
  BY DEF FinderInv, PageSound
<1>4. FinderTyped
  BY DEF FinderInv
<1>5. PICK K \in Nat : FoundIn(s, K)
  BY FoundIs
<1>6. PICK p : p = Finder!Slice(s, n * PageTake, PageTake)
  OBVIOUS
<1>7. Candidates(p) /\ (Total => ShowsPlaces(p, n + 1))
  BY <1>4, <1>5, <1>6, PageIs
<1>8. page \in Finder!FilledUp(p)
  BY <1>2, <1>3, <1>6
<1>9. Candidates(page) /\ (~worded => page = p)
  BY <1>4, <1>7, <1>8, FilledUpIs
<1>10. PICK t : t = Finder!InOrder(page)
  OBVIOUS
<1>11. /\ Candidates(t) /\ InOrder(t)
       /\ \A x : (\E i \in DOMAIN page : page[i] = x) <=> \E i \in DOMAIN t : t[i] = x
  BY <1>4, <1>9, <1>10, Arranged
<1>12. PageSound(t, n + 1)
  <2>1. ASSUME ~worded, Total PROVE ShowsPlaces(t, n + 1)
    <3>1. ShowsPlaces(page, n + 1)
      BY <1>7, <1>9, <2>1
    <3>2. QED
      BY <1>11, <3>1, ShowsOn
  <2>2. QED
    BY <1>11, <2>1 DEF PageSound
<1>13. PICK one, w : one = <<t>> /\ w = leafed'
  OBVIOUS
<1>14. /\ DOMAIN leafed' = 1..(n + 1)
       /\ \A m \in 1..n : leafed'[m] = leafed[m]
       /\ leafed'[n + 1] = t
  <2>1. w = Finder!Join(leafed, one)
    BY <1>2, <1>10, <1>13
  <2>2. PICK b \in Nat : b = 1
    OBVIOUS
  <2>3. /\ DOMAIN w = 1..(n + b)
        /\ \A i \in 1..n : w[i] = leafed[i] /\ i \in 1..(n + b)
        /\ \A i \in 1..(n + b) : i \notin 1..n =>
             i - n \in 1..b /\ w[i] = one[i - n]
    <3>1. DOMAIN leafed = 1..n /\ DOMAIN one = 1..b
      BY <1>3, <1>13, <2>2
    <3>2. Joined(w, leafed, n, one, b)
      BY <2>1, <3>1, JoinIs
    <3>3. QED
      BY <3>2 DEF Joined
  <2>4. n + 1 \in 1..(n + 1) /\ n + 1 \notin 1..n /\ (n + 1) - n = 1
    OBVIOUS
  <2>5. w[n + 1] = t
    BY <1>13, <2>2, <2>3, <2>4
  <2>6. QED
    BY <1>13, <2>2, <2>3, <2>5
<1>15. skipped' = (n + 1) * PageTake /\ n + 1 \in Nat
  BY <1>2, <1>3, FinderSizes
<1>16. \A m \in 1..(n + 1) : PageSound(leafed'[m], m)
  <2>1. \A m \in 1..(n + 1) : m \in 1..n \/ m = n + 1
    OBVIOUS
  <2>2. QED
    BY <1>3, <1>12, <1>14, <2>1
<1>17. \A q, m : PageSound(q, m) => PageSound(q, m)'
  <2>1. ASSUME NEW q, NEW m, PageSound(q, m) PROVE PageSound(q, m)'
    <3>1. offers' = offers /\ sorting' = sorting /\ worded' = worded
      BY <1>2
    <3>2. /\ Candidates(q) => Candidates(q)'
          /\ InOrder(q) => InOrder(q)'
          /\ Total' => Total
          /\ ShowsPlaces(q, m) => ShowsPlaces(q, m)'
      BY <3>1, SameSearch
    <3>3. QED
      BY <2>1, <3>1, <3>2 DEF PageSound
  <2>2. QED
    BY <2>1
<1>18. FinderTyped'
  BY <1>2, <1>4, SameSearch
<1>19. QED
  BY <1>14, <1>15, <1>16, <1>17, <1>18 DEF FinderInv, PageSound

LEMMA Multiples ==
  ASSUME NEW a \in Int, NEW b \in Int, a <= b, NEW t \in Nat
  PROVE  a * t <= b * t
<1>1. PICK d \in Nat : d = b - a
  OBVIOUS
<1>2. d * t >= 0 /\ b * t = a * t + d * t
  BY <1>1
<1>3. PICK x \in Int, y \in Int, z \in Int : x = a * t /\ y = b * t /\ z = d * t
  OBVIOUS
<1>4. QED
  BY <1>2, <1>3

\* The r-th of n full pages of t is on one of them.
LEMMA PageOf ==
  ASSUME NEW t \in Nat, NEW n \in Nat, NEW r \in Nat, 0 < r, r <= n * t
  PROVE  \E m \in 1..n : (m - 1) * t < r /\ r <= m * t
<1> DEFINE S == {m \in Nat : r <= m * t}
<1>1. n \in S /\ S \in SUBSET Nat
  OBVIOUS
<1>2. PICK m \in S : \A x \in S : m <= x
  BY <1>1, Least
<1>3. m # 0
  <2>1. 0 * t = 0
    OBVIOUS
  <2>2. QED
    BY <1>2, <2>1
<1>4. PICK k \in Nat : k = m - 1
  BY <1>2, <1>3
<1>5. k \notin S
  BY <1>2, <1>4
<1>6. k * t \in Int
  OBVIOUS
<1>7. k * t < r
  BY <1>5, <1>6
<1>8. m \in 1..n
  BY <1>1, <1>2, <1>3
<1>9. QED
  BY <1>2, <1>4, <1>7, <1>8

LEMMA PlacedIn ==
  ASSUME CatalogueAssumption, FinderTyped, NEW x \in Exact
  PROVE  /\ Placed(x) \in Nat /\ 0 < Placed(x)
         /\ Cardinality(Numbered) \in Nat /\ Placed(x) <= Cardinality(Numbered)
<1> DEFINE B == Before(Exact, ByOrder, x)
<1>1. IsFiniteSet(Numbered) /\ Exact \in SUBSET Numbered /\ B \in SUBSET Exact
  BY FinderSizes DEF Exact, Before
<1>2. x \notin B
  <2>1. x \in Numbered
    BY DEF Exact
  <2>2. ~Finder!OrderBy(x, x)
    BY <2>1, WeakOrders
  <2>3. QED
    BY <2>2 DEF Before, ByOrder
<1>3. B \in SUBSET Numbered /\ B # Numbered
  BY <1>1, <1>2 DEF Exact
<1> HIDE DEF B
<1>4. /\ Cardinality(Numbered) \in Nat /\ Cardinality(B) \in Nat
      /\ Cardinality(B) < Cardinality(Numbered)
  BY <1>1, <1>3, Counts
<1>5. QED
  BY <1>4 DEF Placed, B

LEMMA FinderIs ==
  ASSUME FinderInv
  PROVE  \E n \in Nat :
           /\ FinderTyped /\ DOMAIN leafed = 1..n /\ skipped = n * PageTake
           /\ \A m \in 1..n : PageSound(leafed[m], m)
  BY DEF FinderInv, PageSound

LEMMA FinderTypes == ASSUME CatalogueAssumption, FinderInv PROVE Finder!TypeOK
<1>1. PICK n \in Nat :
        /\ FinderTyped /\ DOMAIN leafed = 1..n /\ skipped = n * PageTake
        /\ \A m \in 1..n : PageSound(leafed[m], m)
  BY FinderIs
<1>2. skipped = PageTake * Finder!Cardinality(DOMAIN leafed)
  <2>1. Finder!Cardinality(DOMAIN leafed) = n
    BY <1>1, UpTo, SameCounts
  <2>2. QED
    BY <1>1, <2>1, FinderSizes
<1>3. ASSUME NEW m \in 1..n
      PROVE  \E S \in SUBSET Numbered : leafed[m] \in Finder!Orders(S)
  <2>1. PICK p : p = leafed[m]
    OBVIOUS
  <2>2. PICK k \in Nat : p \in [1..k -> Numbered] /\ \A i, j \in 1..k : i # j => p[i] # p[j]
    BY <1>1, <1>3, <2>1 DEF PageSound, Candidates
  <2> DEFINE D == 1..k
             S == {p[i] : i \in D}
  <2>3. S \in SUBSET Numbered /\ p \in [D -> S] /\ \A i, j \in D : i # j => p[i] # p[j]
    BY <2>2
  <2>4. IsFiniteSet(D) /\ Cardinality(D) = k
    BY UpTo
  <2>5. Cardinality(S) = k
    <3> HIDE DEF D
    <3>1. QED
      BY <2>3, <2>4, Distinct
  <2>6. Finder!Cardinality(S) = k
    BY <2>5, SameCounts
  <2>7. p \in [1..k -> S] /\ \A i, j \in DOMAIN p : i # j => p[i] # p[j]
    BY <2>3
  <2> HIDE DEF S, D
  <2>8. p \in Finder!Orders(S)
    BY <2>6, <2>7, Zenon DEF Finder!Orders
  <2>9. QED
    BY <2>1, <2>3, <2>8
<1>4. Finder!Members(leafed) \subseteq UNION {Finder!Orders(S) : S \in SUBSET Numbered}
  <2>1. ASSUME NEW p \in Finder!Members(leafed)
        PROVE  p \in UNION {Finder!Orders(S) : S \in SUBSET Numbered}
    <3>1. PICK m \in 1..n : p = leafed[m]
      BY <1>1 DEF Finder!Members
    <3>2. PICK S \in SUBSET Numbered : p \in Finder!Orders(S)
      BY <1>3, <3>1
    <3>3. QED
      BY <3>2
  <2>2. QED
    BY <2>1
<1>5. QED
  BY <1>1, <1>2, <1>4, Zenon DEF Finder!TypeOK, FinderTyped, offers, sorting, worded, leafed, skipped

LEMMA FinderPages == ASSUME CatalogueAssumption, FinderInv PROVE Finder!PagesSound
<1>1. PICK n \in Nat :
        /\ FinderTyped /\ DOMAIN leafed = 1..n /\ skipped = n * PageTake
        /\ \A m \in 1..n : PageSound(leafed[m], m)
  BY FinderIs
<1>2. ASSUME NEW m \in 1..n, NEW p, p = leafed[m]
      PROVE  /\ Finder!Cardinality(Finder!Members(p)) = Finder!Cardinality(DOMAIN p)
             /\ \A i \in DOMAIN p : offers[p[i]].passes /\ offers[p[i]].match # "none"
             /\ \A i, j \in DOMAIN p : Finder!OrderBy(p[i], p[j]) /\ Finder!IsPriceSort => i < j
  <2>1. Candidates(p) /\ InOrder(p)
    BY <1>1, <1>2 DEF PageSound
  <2>2. PICK k \in Nat : p \in [1..k -> Numbered] /\ \A i, j \in 1..k : i # j => p[i] # p[j]
    BY <2>1 DEF Candidates
  <2> DEFINE D == 1..k
  <2>3. Finder!Cardinality(Finder!Members(p)) = Finder!Cardinality(DOMAIN p)
    <3>1. IsFiniteSet(D) /\ Cardinality(D) = k /\ DOMAIN p = D
      BY <2>2, UpTo
    <3>2. \A i, j \in D : i # j => p[i] # p[j]
      BY <2>2
    <3>3. Finder!Members(p) = {p[i] : i \in D}
      BY <3>1 DEF Finder!Members
    <3> HIDE DEF D
    <3>4. Cardinality({p[i] : i \in D}) = Cardinality(D)
      BY <3>1, <3>2, Distinct
    <3>5. QED
      BY <3>1, <3>3, <3>4, SameCounts
  <2>4. ASSUME NEW i \in 1..k, NEW j \in 1..k, Finder!OrderBy(p[i], p[j]), Finder!IsPriceSort
        PROVE  i < j
    <3>1. p[i] \in Numbered /\ p[j] \in Numbered
      BY <2>2
    <3>2. i # j
      BY <1>1, <2>4, <3>1, WeakOrders
    <3>3. ~(j < i)
      BY <2>1, <2>2, <2>4, <3>1 DEF InOrder, ByOrder
    <3>4. QED
      BY <3>2, <3>3
  <2>5. DOMAIN p = 1..k
    BY <2>2
  <2>6. QED
    BY <2>1, <2>3, <2>4, <2>5 DEF Candidates
<1>3. QED
  BY <1>1, <1>2, Zenon DEF Finder!PagesSound, leafed, offers

LEMMA FinderBoosts == ASSUME CatalogueAssumption, FinderInv PROVE Finder!BoostedFirst
<1>1. PICK n \in Nat :
        /\ FinderTyped /\ DOMAIN leafed = 1..n /\ skipped = n * PageTake
        /\ \A m \in 1..n : PageSound(leafed[m], m)
  BY FinderIs
<1>2. ASSUME ~Finder!IsPriceSort, NEW m \in 1..n,
             NEW i \in DOMAIN leafed[m], NEW j \in DOMAIN leafed[m], i < j
      PROVE  /\ offers[leafed[m][j]].boosted => offers[leafed[m][i]].boosted
             /\ offers[leafed[m][i]].boosted = offers[leafed[m][j]].boosted =>
                  offers[leafed[m][i]].bump >= offers[leafed[m][j]].bump
  <2>1. PICK p : p = leafed[m]
    OBVIOUS
  <2>2. Candidates(p) /\ InOrder(p)
    BY <1>1, <1>2, <2>1 DEF PageSound
  <2>3. PICK a \in Numbered, b \in Numbered : a = p[i] /\ b = p[j]
    BY <1>2, <2>1, <2>2 DEF Candidates
  <2>4. <<b, a>> \notin ByBoost
    BY <1>2, <2>1, <2>2, <2>3 DEF InOrder
  <2>5. PICK x \in Int, y \in Int, u \in BOOLEAN, v \in BOOLEAN :
          x = offers[a].bump /\ y = offers[b].bump /\ u = offers[a].boosted /\ v = offers[b].boosted
    BY <1>1, OfferIs
  <2>6. ~((v /\ ~u) \/ (v = u /\ y > x))
    BY <2>4, <2>5 DEF ByBoost
  <2>7. (v => u) /\ (u = v => x >= y)
    BY <2>6
  <2>8. QED
    BY <2>1, <2>3, <2>5, <2>7
<1>3. QED
  BY <1>1, <1>2, Zenon DEF Finder!BoostedFirst, leafed, offers

LEMMA FinderOnce == ASSUME CatalogueAssumption, FinderInv PROVE Finder!EveryMatchOnce
<1>1. PICK n \in Nat :
        /\ FinderTyped /\ DOMAIN leafed = 1..n /\ skipped = n * PageTake
        /\ \A m \in 1..n : PageSound(leafed[m], m)
  BY FinderIs
<1> DEFINE showing(i) == {m \in DOMAIN leafed : i \in Finder!Members(leafed[m])}
<1>2. ASSUME ~worded, Total, NEW i \in Numbered
      PROVE  /\ Finder!Cardinality(showing(i)) <= 1
             /\ skipped >= Finder!Cardinality(Numbered) /\ offers[i].passes => showing(i) # {}
  <2>1. \A m \in showing(i) : m \in 1..n
    BY <1>1
  <2>2. ASSUME NEW m \in 1..n
        PROVE  m \in showing(i) <=>
                 i \in Exact /\ (m - 1) * PageTake < Placed(i) /\ Placed(i) <= m * PageTake
    <3>1. ShowsPlaces(leafed[m], m)
      BY <1>1, <1>2, <2>2 DEF PageSound
    <3>2. m \in showing(i) <=> \E x \in DOMAIN leafed[m] : leafed[m][x] = i
      BY <1>1, <2>2 DEF Finder!Members
    <3> HIDE DEF showing
    <3>3. QED
      BY <3>1, <3>2 DEF ShowsPlaces
  <2> HIDE DEF showing
  <2>3. ASSUME NEW a \in showing(i), NEW b \in showing(i) PROVE ~(a < b)
    <3>1. PICK t \in Nat : t = PageTake
      BY FinderSizes
    <3>2. a \in 1..n /\ b \in 1..n /\ i \in Exact
      BY <2>1, <2>2, <2>3
    <3>3. PICK r \in Nat : r = Placed(i)
      BY <1>1, <3>2, PlacedIn
    <3>4. r <= a * t /\ (b - 1) * t < r
      BY <2>2, <2>3, <3>1, <3>2, <3>3
    <3>5. SUFFICES ASSUME a < b PROVE FALSE
      OBVIOUS
    <3>6. PICK c \in Int : c = b - 1 /\ a <= c /\ a \in Int
      BY <3>2, <3>5
    <3>7. a * t <= c * t
      BY <3>6, Multiples
    <3>8. PICK x \in Int, y \in Int : x = a * t /\ y = c * t
      BY <3>6
    <3>9. QED
      BY <3>4, <3>6, <3>7, <3>8
  <2>4. \A a, b \in showing(i) : a = b
    BY <2>1, <2>3
  <2>5. Finder!Cardinality(showing(i)) <= 1
    <3>1. CASE showing(i) = {}
      <4>1. Cardinality(showing(i)) = 0
        BY <3>1, FS_EmptySet
      <4>2. QED
        BY <4>1, SameCounts
    <3>2. CASE showing(i) # {}
      <4>1. PICK a : a \in showing(i)
        BY <3>2
      <4>2. showing(i) = {a}
        BY <2>4, <4>1
      <4>3. Cardinality({a}) = 1
        BY FS_Singleton
      <4>4. QED
        BY <4>2, <4>3, SameCounts
    <3>3. QED
      BY <3>1, <3>2
  <2>6. ASSUME skipped >= Finder!Cardinality(Numbered), offers[i].passes
        PROVE  showing(i) # {}
    <3>1. i \in Exact
      BY <1>1, <1>2, <2>6 DEF Exact, FinderTyped
    <3>2. PICK t \in Nat, r \in Nat, c \in Nat :
            /\ t = PageTake /\ r = Placed(i) /\ c = Cardinality(Numbered)
            /\ 0 < r /\ r <= c
      BY <1>1, <3>1, FinderSizes, PlacedIn
    <3>3. n * t >= c /\ n * t \in Int
      BY <1>1, <2>6, <3>2, SameCounts
    <3>4. r <= n * t
      BY <3>2, <3>3
    <3>5. PICK m \in 1..n : (m - 1) * t < r /\ r <= m * t
      BY <3>2, <3>4, PageOf
    <3>6. m \in showing(i)
      BY <2>2, <3>1, <3>2, <3>5
    <3>7. QED
      BY <3>6
  <2>7. QED
    BY <2>5, <2>6
<1>3. Finder!IsPriceSort \/ ~(\E a, b \in Numbered :
          a # b /\ ~Finder!OrderBy(a, b) /\ ~Finder!OrderBy(b, a)) => Total
  BY DEF Total, Tied
<1>4. ASSUME ~worded,
             Finder!IsPriceSort \/ ~\E a, b \in Numbered :
               a # b /\ ~Finder!OrderBy(a, b) /\ ~Finder!OrderBy(b, a)
      PROVE  \A i \in Numbered :
               /\ Finder!Cardinality(showing(i)) <= 1
               /\ skipped >= Finder!Cardinality(Numbered) /\ offers[i].passes => showing(i) # {}
  BY <1>2, <1>3, <1>4, Zenon
<1>5. QED
  BY <1>4, Zenon DEF Finder!EveryMatchOnce, leafed, offers, skipped, worded

LEMMA FinderMeans ==
  ASSUME CatalogueAssumption, FinderInv
  PROVE  /\ Finder!TypeOK /\ Finder!PagesSound
         /\ Finder!BoostedFirst /\ Finder!EveryMatchOnce
  BY FinderTypes, FinderPages, FinderBoosts, FinderOnce
=============================================================================
