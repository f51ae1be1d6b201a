----------------------------- MODULE WalkProofs -----------------------------
(***************************************************************************)
(* For any list of task states: the walk to a state is a shortest one.     *)
(***************************************************************************)
EXTENDS BoardProofs, FunctionTheorems

Rounds == 0 .. Len(AllStatuses)

LEMMA EightRounds == Len(AllStatuses) = 8 /\ Rounds = 0 .. 8
BY DEF Rounds, AllStatuses
-----------------------------------------------------------------------------
(* Numbers and sequences *)

LEMMA LeastExists ==
  ASSUME NEW S, S \subseteq Nat, S # {}
  PROVE  \E n \in S : \A k \in S : n <= k
<1>1. PICK n \in S : \A k \in S : <<k, n>> \notin OpToRel(<, Nat)
  BY WFMin, NatLessThanWellFounded
<1>2. \A k \in S : ~(k < n)
  BY <1>1 DEF OpToRel
<1>3. \A k \in S : k \in Nat /\ n \in Nat
  OBVIOUS
<1> QED
  BY <1>2, <1>3

\* Induction, over the set of the numbers that have what is to be proved.
LEMMA Induction ==
  ASSUME NEW P, 0 \in P, \A n \in Nat : n \in P => n + 1 \in P
  PROVE  Nat \subseteq P
<1> SUFFICES ASSUME Nat \ P # {} PROVE FALSE
  OBVIOUS
<1>1. PICK n \in Nat \ P : \A k \in Nat \ P : n <= k
  BY LeastExists
<1>2. n # 0
  OBVIOUS
<1>3. n - 1 \in Nat /\ (n - 1) + 1 = n /\ ~(n <= n - 1)
  BY <1>2
<1>4. n - 1 \in P
  BY <1>1, <1>3
<1> QED
  BY <1>3, <1>4

LEMMA FirstIs ==
  ASSUME NEW S, S \subseteq Nat, S # {}
  PROVE  First(S) \in S /\ \A k \in S : First(S) <= k
BY LeastExists DEF First

LEMMA FirstOf ==
  ASSUME NEW n, NEW S, S \subseteq Nat, n \in S, \A k \in S : n <= k
  PROVE  First(S) = n
<1>1. First(S) \in S /\ First(S) <= n
  BY FirstIs
<1>2. First(S) \in Nat /\ n \in Nat /\ n <= First(S)
  BY <1>1
<1> QED
  BY <1>1, <1>2

LEMMA PositionIs ==
  ASSUME NEW x \in TaskStatus
  PROVE  Position(AllStatuses, x) \in 1 .. 8 /\ AllStatuses[Position(AllStatuses, x)] = x
<1> DEFINE S == {i \in 1 .. Len(AllStatuses) : AllStatuses[i] = x}
<1>1. Len(AllStatuses) = 8
  BY EightRounds
<1>2. S # {}
  <2>1. \E i \in 1 .. 8 : AllStatuses[i] = x
    BY DEF AllStatuses, TaskStatus
  <2> QED
    BY <1>1, <2>1
<1>3. First(S) \in S
  BY <1>1, <1>2, FirstIs
<1> QED
  BY <1>1, <1>3 DEF Position

\* A finite set in the order of keys that are all different has its members, all
\* of them and nothing else.
LEMMA SortedHas ==
  ASSUME NEW S, IsFiniteSet(S), NEW key \in [S -> Nat],
         \A x, y \in S : key[x] = key[y] => x = y
  PROVE  Sorted(S, key) \in Seq(S) /\ ToSet(Sorted(S, key)) = S
<1> DEFINE Below(x) == {y \in S : key[y] < key[x]}
           n == Cardinality(S)
           f == [x \in S |-> Cardinality(Below(x))]
           T == 0 .. n - 1
           sorted == [i \in 1 .. n |-> CHOOSE x \in S : Cardinality(Below(x)) = i - 1]
<1>1. n \in Nat
  BY FS_CardinalityType
<1>2. \A x \in S : Below(x) \in SUBSET S /\ Below(x) # S
  OBVIOUS
<1>3. \A x, y \in S : key[x] < key[y] => Below(x) \in SUBSET Below(y) /\ Below(x) # Below(y)
  OBVIOUS
<1>4. Sorted(S, key) = sorted
  BY DEF Sorted
<1> HIDE DEF Below
<1>5. ASSUME NEW x \in S
      PROVE  IsFiniteSet(Below(x)) /\ Cardinality(Below(x)) \in T
  <2>1. IsFiniteSet(Below(x)) /\ Cardinality(Below(x)) <= n /\ Cardinality(Below(x)) # n
    BY <1>2, FS_Subset
  <2>2. Cardinality(Below(x)) \in Nat
    BY <2>1, FS_CardinalityType
  <2> HIDE DEF n
  <2> QED
    BY <1>1, <2>1, <2>2
<1>6. ASSUME NEW x \in S, NEW y \in S, Cardinality(Below(x)) = Cardinality(Below(y))
      PROVE  x = y
  <2>1. ~(key[x] < key[y])
    <3>1. SUFFICES ASSUME key[x] < key[y] PROVE FALSE
      OBVIOUS
    <3>2. Below(x) \in SUBSET Below(y) /\ Below(x) # Below(y)
      BY <1>3, <3>1
    <3> QED
      BY <1>5, <1>6, <3>2, FS_Subset
  <2>2. ~(key[y] < key[x])
    <3>1. SUFFICES ASSUME key[y] < key[x] PROVE FALSE
      OBVIOUS
    <3>2. Below(y) \in SUBSET Below(x) /\ Below(y) # Below(x)
      BY <1>3, <3>1
    <3> QED
      BY <1>5, <1>6, <3>2, FS_Subset
  <2>3. key[x] \in Nat /\ key[y] \in Nat
    OBVIOUS
  <2> QED
    BY <2>1, <2>2, <2>3
<1>7. \A x \in S : f[x] = Cardinality(Below(x))
  OBVIOUS
<1>8. f \in Injection(S, T)
  <2>1. f \in [S -> T]
    BY <1>5
  <2>2. \A x, y \in S : f[x] = f[y] => x = y
    BY <1>6, <1>7
  <2> HIDE DEF f, T
  <2> QED
    BY <2>1, <2>2 DEF Injection, IsInjective
<1>9. IsFiniteSet(T) /\ Cardinality(T) = n
  BY <1>1, FS_Interval
<1> HIDE DEF f, T
<1>10. f \in Surjection(S, T)
  BY <1>8, <1>9, FS_Injection
<1>11. \A k \in T : \E x \in S : Cardinality(Below(x)) = k
  BY <1>7, <1>10 DEF Surjection
<1> HIDE DEF n
<1>12. ASSUME NEW i \in 1 .. n
       PROVE  sorted[i] \in S /\ Cardinality(Below(sorted[i])) = i - 1
  <2>1. i - 1 \in T
    BY <1>1 DEF T
  <2>2. \E x \in S : Cardinality(Below(x)) = i - 1
    BY <1>11, <2>1
  <2>3. sorted[i] = CHOOSE x \in S : Cardinality(Below(x)) = i - 1
    OBVIOUS
  <2> HIDE DEF sorted
  <2> QED
    BY <2>2, <2>3
<1>13. sorted \in Seq(S) /\ DOMAIN sorted = 1 .. n
  <2>1. sorted \in [1 .. n -> S]
    BY <1>12
  <2> HIDE DEF sorted
  <2> QED
    BY <1>1, <2>1
<1> HIDE DEF sorted
<1>14. ASSUME NEW x \in S
       PROVE  \E i \in 1 .. n : sorted[i] = x
  <2> DEFINE k == Cardinality(Below(x))
  <2>1. k + 1 \in 1 .. n /\ (k + 1) - 1 = k
    BY <1>1, <1>5 DEF T
  <2> HIDE DEF k
  <2>2. sorted[k + 1] \in S /\ Cardinality(Below(sorted[k + 1])) = k
    BY <1>12, <2>1
  <2>3. sorted[k + 1] = x
    BY <1>6, <2>2 DEF k
  <2> QED
    BY <2>1, <2>3
<1>15. {sorted[i] : i \in 1 .. n} = S
  BY <1>12, <1>14
<1> QED
  BY <1>4, <1>13, <1>15 DEF ToSet
-----------------------------------------------------------------------------
(* What is within so many transitions *)

LEMMA NextIsStatus == \A x \in TaskStatus : TaskNext[x] \subseteq TaskStatus
BY DEF TaskNext, TaskStatus

LEMMA NextsAre ==
  ASSUME NEW X
  PROVE  \A y : y \in Nexts(X) <=> \E x \in X : y \in TaskNext[x]
BY DEF Nexts

LEMMA WithinIs ==
  ASSUME NEW S
  PROVE  /\ Within(S)[0] = S
         /\ \A n \in 0 .. 7 : Within(S)[n + 1] = Within(S)[n] \cup Nexts(Within(S)[n])
<1> DEFINE After(X) == X \cup Nexts(X)
           Def(f, m) == f = [n \in 0 .. m |-> IF n = 0 THEN S ELSE After(f[n - 1])]
           P == {m \in Nat : \E f : Def(f, m)}
<1>1. Rounds = 0 .. 8 /\ Rounds = 0 .. Len(AllStatuses)
  BY EightRounds DEF Rounds
<1>2. Within(S) = CHOOSE f : f = [n \in Rounds |-> IF n = 0 THEN S ELSE After(f[n - 1])]
  BY <1>1 DEF Within
<1> HIDE DEF After
<1>3. 0 \in P
  <2>1. Def([n \in 0 .. 0 |-> S], 0)
    OBVIOUS
  <2> QED
    BY <2>1
<1>4. ASSUME NEW m \in Nat, m \in P
      PROVE  m + 1 \in P
  <2>1. PICK g : Def(g, m)
    BY <1>4
  <2> DEFINE h == [n \in 0 .. m + 1 |-> IF n = 0 THEN S ELSE After(g[n - 1])]
  <2>2. \A n \in 0 .. m : h[n] = g[n]
    BY <2>1
  <2>3. \A n \in 0 .. m + 1 : n # 0 => n - 1 \in 0 .. m
    OBVIOUS
  <2>4. Def(h, m + 1)
    BY <2>2, <2>3
  <2> HIDE DEF h
  <2> QED
    BY <2>4
<1>5. 8 \in P
  <2> HIDE DEF P
  <2> QED
    BY <1>3, <1>4, Induction
<1>6. \E f : Def(f, 8)
  BY <1>5
<1>7. Within(S) = [n \in Rounds |-> IF n = 0 THEN S ELSE After(Within(S)[n - 1])]
  BY <1>1, <1>2, <1>6
<1>8. Within(S)[0] = S
  BY <1>1, <1>7
<1>9. ASSUME NEW n \in 0 .. 7
      PROVE  Within(S)[n + 1] = After(Within(S)[n])
  <2>1. n + 1 \in Rounds /\ n + 1 # 0 /\ (n + 1) - 1 = n
    BY <1>1
  <2>2. Within(S)[n + 1] = IF n + 1 = 0 THEN S ELSE After(Within(S)[(n + 1) - 1])
    BY <1>7, <2>1
  <2> QED
    BY <2>1, <2>2
<1> QED
  BY <1>8, <1>9 DEF After

LEMMA WithinSteps ==
  ASSUME NEW from \in TaskStatus, NEW R, R = Within({from})
  PROVE  /\ R[0] = {from}
         /\ \A n \in 0 .. 7 : R[n + 1] = R[n] \cup Nexts(R[n])
         /\ \A n \in Rounds : R[n] \subseteq TaskStatus
<1>1. R[0] = {from}
  BY WithinIs
<1>2. \A n \in 0 .. 7 : R[n + 1] = R[n] \cup Nexts(R[n])
  BY WithinIs
<1> DEFINE P == {n \in Nat : n <= 8 => R[n] \subseteq TaskStatus}
<1>3. 0 \in P
  BY <1>1
<1>4. ASSUME NEW n \in Nat, n \in P
      PROVE  n + 1 \in P
  <2>1. CASE n \in 0 .. 7
    <3>1. R[n] \subseteq TaskStatus
      BY <1>4, <2>1
    <3>2. \A y \in R[n + 1] : y \in R[n] \/ \E x \in R[n] : y \in TaskNext[x]
      BY <1>2, <2>1, NextsAre
    <3>3. R[n + 1] \subseteq TaskStatus
      BY <3>1, <3>2, NextIsStatus
    <3> QED
      BY <3>3
  <2>2. CASE n \notin 0 .. 7
    BY <2>2
  <2> QED
    BY <2>1, <2>2
<1>5. Nat \subseteq P
  <2> HIDE DEF P
  <2> QED
    BY <1>3, <1>4, Induction
<1>6. \A n \in Rounds : R[n] \subseteq TaskStatus
  BY <1>5, EightRounds
<1> QED
  BY <1>1, <1>2, <1>6

\* What takes n transitions and no fewer.
Layer(R, n) == IF n = 0 THEN R[0] ELSE R[n] \ R[n - 1]

LEMMA Layers ==
  ASSUME NEW from \in TaskStatus, NEW R, R = Within({from}), NEW n \in 0 .. 7
  PROVE  /\ R[n + 1] = R[n] \cup Layer(R, n + 1)
         /\ Layer(R, n + 1) \cap R[n] = {}
         /\ Layer(R, n) \subseteq R[n]
         /\ Layer(R, n + 1) = Nexts(Layer(R, n)) \ R[n]
<1>1. R[n + 1] = R[n] \cup Nexts(R[n])
  BY WithinSteps
<1>2. Layer(R, n + 1) = R[n + 1] \ R[n]
  BY DEF Layer
<1>3. Layer(R, n) \subseteq R[n]
  BY DEF Layer
<1>4. ASSUME NEW x \in R[n], NEW y \in TaskNext[x], y \notin R[n]
      PROVE  x \in Layer(R, n)
  <2>1. CASE n = 0
    BY <2>1 DEF Layer
  <2>2. CASE n # 0
    <3>1. n - 1 \in 0 .. 7 /\ (n - 1) + 1 = n
      BY <2>2
    <3>2. R[n] = R[n - 1] \cup Nexts(R[n - 1])
      BY <3>1, WithinSteps
    <3> QED
      BY <1>4, <2>2, <3>2, NextsAre DEF Layer
  <2> QED
    BY <2>1, <2>2
<1>5. \A y : y \in Layer(R, n + 1) <=> y \notin R[n] /\ \E x \in Layer(R, n) : y \in TaskNext[x]
  BY <1>1, <1>2, <1>3, <1>4, NextsAre
<1>6. \A y : y \in R[n + 1] <=> y \in R[n] \/ y \in Layer(R, n + 1)
  BY <1>1, <1>2
<1> HIDE DEF Layer
<1>7. R[n + 1] = R[n] \cup Layer(R, n + 1)
  BY <1>6
<1>8. Layer(R, n + 1) = Nexts(Layer(R, n)) \ R[n]
  BY <1>5, NextsAre
<1> QED
  BY <1>2, <1>3, <1>7, <1>8

LEMMA WithinGrows ==
  ASSUME NEW from \in TaskStatus, NEW R, R = Within({from}),
         NEW n \in Rounds, NEW k \in Rounds, k <= n
  PROVE  R[k] \subseteq R[n]
<1> DEFINE P == {i \in Nat : k + i <= 8 => R[k] \subseteq R[k + i]}
<1>1. k \in 0 .. 8 /\ n \in 0 .. 8
  BY EightRounds
<1>2. 0 \in P
  BY <1>1
<1>3. ASSUME NEW i \in Nat, i \in P
      PROVE  i + 1 \in P
  <2>1. CASE k + i \in 0 .. 7
    <3>1. R[k] \subseteq R[k + i]
      BY <1>3, <2>1
    <3>2. R[k + i] \subseteq R[(k + i) + 1] /\ (k + i) + 1 = k + (i + 1)
      BY <1>1, <2>1, Layers
    <3> QED
      BY <3>1, <3>2
  <2>2. CASE k + i \notin 0 .. 7
    BY <1>1, <2>2
  <2> QED
    BY <2>1, <2>2
<1>4. n - k \in P
  <2> HIDE DEF P
  <2> QED
    BY <1>1, <1>2, <1>3, Induction
<1>5. k + (n - k) = n
  BY <1>1
<1> QED
  BY <1>1, <1>4, <1>5
-----------------------------------------------------------------------------
(* The rounds of the search *)

\* After n rounds that have not ended: the last found is what takes n transitions,
\* and each status was found from one that takes one fewer.
Searched(R, s, n) ==
  /\ DOMAIN s.previous = R[n]
  /\ s.last \in Seq(TaskStatus) /\ ToSet(s.last) = Layer(R, n)
  /\ \A k \in 1 .. n : \A x \in Layer(R, k) :
       s.previous[x] \in Layer(R, k - 1) /\ x \in TaskNext[s.previous[x]]

LEMMA ToSetIs ==
  ASSUME NEW S, NEW seq \in Seq(S)
  PROVE  /\ ToSet(seq) = {seq[i] : i \in 1 .. Len(seq)} /\ ToSet(seq) \subseteq S
         /\ \A x : x \in ToSet(seq) <=> \E i \in 1 .. Len(seq) : seq[i] = x
BY DEF ToSet

LEMMA StatusesFinite == IsFiniteSet(TaskStatus) /\ Cardinality(TaskStatus) <= 8
<1> DEFINE f == [x \in TaskStatus |-> Position(AllStatuses, x)]
<1>1. f \in [TaskStatus -> 1 .. 8] /\ \A x, y \in TaskStatus : f[x] = f[y] => x = y
  BY PositionIs
<1>2. f \in Injection(TaskStatus, 1 .. 8)
  BY <1>1 DEF Injection, IsInjective
<1>3. IsFiniteSet(1 .. 8) /\ Cardinality(1 .. 8) = 8
  <2>1. /\ IsFiniteSet(1 .. 8)
        /\ Cardinality(1 .. 8) = IF 1 > 8 THEN 0 ELSE 8 - 1 + 1
    BY FS_Interval, 1 \in Int, 8 \in Int, Zenon
  <2> QED
    BY <2>1
<1> HIDE DEF f
<1>4. IsFiniteSet(TaskStatus) /\ Cardinality(TaskStatus) <= Cardinality(1 .. 8)
  BY <1>2, <1>3, FS_Injection
<1> QED
  BY <1>3, <1>4

\* A layer that is not empty adds a status, and there are eight statuses.
LEMMA LastLayerEmpty ==
  ASSUME NEW from \in TaskStatus, NEW R, R = Within({from})
  PROVE  Layer(R, 8) = {}
<1> DEFINE Many(n) == Layer(R, n) = {} \/ n + 1 <= Cardinality(R[n])
           P == {n \in Nat : n <= 8 => Many(n)}
<1>1. \A n \in Rounds : IsFiniteSet(R[n]) /\ Cardinality(R[n]) \in Nat
  <2> SUFFICES ASSUME NEW n \in Rounds
               PROVE  IsFiniteSet(R[n]) /\ Cardinality(R[n]) \in Nat
    OBVIOUS
  <2>1. R[n] \subseteq TaskStatus
    BY WithinSteps
  <2> QED
    BY <2>1, StatusesFinite, FS_Subset, FS_CardinalityType
<1>2. 0 \in P
  <2>1. R[0] = {from}
    BY WithinSteps
  <2>2. Cardinality({from}) = 1
    BY FS_Singleton, Zenon
  <2> QED
    BY <2>1, <2>2
<1>3. ASSUME NEW n \in Nat, n \in P
      PROVE  n + 1 \in P
  <2> SUFFICES ASSUME n \in 0 .. 7 PROVE Many(n + 1)
    OBVIOUS
  <2>1. Many(n)
    BY <1>3
  <2>2. /\ R[n + 1] = R[n] \cup Layer(R, n + 1)
        /\ Layer(R, n + 1) \cap R[n] = {}
        /\ Layer(R, n + 1) = Nexts(Layer(R, n)) \ R[n]
    BY Layers
  <2>3. n \in Rounds /\ n + 1 \in Rounds
    BY EightRounds
  <2>4. CASE Layer(R, n) = {}
    BY <2>2, <2>4, NextsAre
  <2>5. CASE Layer(R, n + 1) # {} /\ n + 1 <= Cardinality(R[n])
    <3>1. R[n] \subseteq R[n + 1] /\ R[n] # R[n + 1]
      BY <2>2, <2>5
    <3>2. /\ Cardinality(R[n]) <= Cardinality(R[n + 1])
          /\ Cardinality(R[n]) # Cardinality(R[n + 1])
      BY <1>1, <2>3, <3>1, FS_Subset
    <3> QED
      BY <1>1, <2>3, <2>5, <3>2
  <2> QED
    BY <2>1, <2>4, <2>5
<1>4. Many(8)
  <2> HIDE DEF Many
  <2>1. Nat \subseteq P
    BY <1>2, <1>3, Induction
  <2> QED
    BY <2>1
<1>5. Cardinality(R[8]) <= 8 /\ Cardinality(R[8]) \in Nat
  <2>1. 8 \in Rounds
    BY EightRounds
  <2>2. R[8] \subseteq TaskStatus
    BY <2>1, WithinSteps
  <2>3. Cardinality(R[8]) <= Cardinality(TaskStatus) /\ Cardinality(TaskStatus) \in Nat
    BY <2>2, StatusesFinite, FS_Subset, FS_CardinalityType
  <2> QED
    BY <1>1, <2>1, <2>3, StatusesFinite
<1> QED
  BY <1>4, <1>5

LEMMA RoundSearched ==
  ASSUME NEW from \in TaskStatus, NEW R, R = Within({from}), NEW n \in 0 .. 7,
         NEW s, Searched(R, s, n)
  PROVE  Searched(R, Round(s), n + 1)
<1> DEFINE last == s.last
           new == Nexts(ToSet(last)) \ DOMAIN s.previous
           From(x) == {i \in 1 .. Len(last) : x \in TaskNext[last[i]]}
           parent == [x \in new |-> First(From(x))]
           when == [x \in new |-> parent[x] * Len(AllStatuses) + Position(AllStatuses, x)]
           previous == [x \in new \cup DOMAIN s.previous |->
                          IF x \in new THEN last[parent[x]] ELSE s.previous[x]]
<1>1. Round(s) = [previous |-> previous, last |-> Sorted(new, when)]
  BY DEF Round
<1>2. /\ DOMAIN s.previous = R[n] /\ last \in Seq(TaskStatus) /\ ToSet(last) = Layer(R, n)
      /\ \A k \in 1 .. n : \A x \in Layer(R, k) :
           s.previous[x] \in Layer(R, k - 1) /\ x \in TaskNext[s.previous[x]]
  BY DEF Searched
<1>3. new = Layer(R, n + 1) /\ new \cap R[n] = {} /\ new \cup R[n] = R[n + 1]
  BY <1>2, Layers
<1>4. new \subseteq TaskStatus /\ IsFiniteSet(new)
  <2>1. R[n + 1] \subseteq TaskStatus
    BY WithinSteps, EightRounds
  <2> QED
    BY <1>3, <2>1, StatusesFinite, FS_Subset
<1> HIDE DEF last
<1>5. ASSUME NEW x \in new
      PROVE  parent[x] \in 1 .. Len(last) /\ x \in TaskNext[last[parent[x]]]
  <2>1. PICK y \in ToSet(last) : x \in TaskNext[y]
    BY NextsAre
  <2>2. From(x) # {} /\ From(x) \subseteq Nat
    BY <1>2, <2>1, ToSetIs
  <2>3. First(From(x)) \in From(x)
    BY <2>2, FirstIs
  <2> QED
    BY <2>3
<1> HIDE DEF new, parent
<1>6. when \in [new -> Nat]
  <2>1. \A x \in new : parent[x] * Len(AllStatuses) + Position(AllStatuses, x) \in Nat
    BY <1>4, <1>5, PositionIs, EightRounds
  <2> QED
    BY <2>1
<1>7. ASSUME NEW x \in new, NEW y \in new, when[x] = when[y]
      PROVE  x = y
  <2> DEFINE a == parent[x]  b == parent[y]  i == Position(AllStatuses, x)  j == Position(AllStatuses, y)
  <2>1. a * Len(AllStatuses) + i = b * Len(AllStatuses) + j
    BY <1>7
  <2>2. a \in Nat /\ b \in Nat /\ Len(AllStatuses) = 8
    BY <1>2, <1>5, EightRounds
  <2>3. i \in 1 .. 8 /\ j \in 1 .. 8 /\ AllStatuses[i] = x /\ AllStatuses[j] = y
    BY <1>4, PositionIs
  <2> HIDE DEF a, b, i, j
  <2>4. a * 8 + i = b * 8 + j
    BY <2>1, <2>2
  <2>5. i = j
    BY <2>2, <2>3, <2>4
  <2> QED
    BY <2>3, <2>5
<1> HIDE DEF when
<1>8. Sorted(new, when) \in Seq(TaskStatus) /\ ToSet(Sorted(new, when)) = new
  <2>1. Sorted(new, when) \in Seq(new) /\ ToSet(Sorted(new, when)) = new
    BY <1>4, <1>6, <1>7, SortedHas
  <2> QED
    BY <1>4, <2>1
<1>9. DOMAIN previous = R[n + 1]
  BY <1>2, <1>3
<1>10. ASSUME NEW x \in Layer(R, n + 1)
       PROVE  previous[x] \in Layer(R, n) /\ x \in TaskNext[previous[x]]
  <2>1. previous[x] = last[parent[x]]
    BY <1>3, <1>10
  <2>2. last[parent[x]] \in ToSet(last) /\ x \in TaskNext[last[parent[x]]]
    BY <1>2, <1>3, <1>5, <1>10, ToSetIs
  <2> QED
    BY <1>2, <2>1, <2>2
<1>11. ASSUME NEW k \in 1 .. n, NEW x \in Layer(R, k)
       PROVE  previous[x] \in Layer(R, k - 1) /\ x \in TaskNext[previous[x]]
  <2>1. x \in R[n]
    <3>1. x \in R[k]
      BY DEF Layer
    <3>2. R[k] \subseteq R[n]
      BY EightRounds, WithinGrows
    <3> QED
      BY <3>1, <3>2
  <2>2. previous[x] = s.previous[x]
    BY <1>2, <1>3, <2>1
  <2> QED
    BY <1>2, <2>2
<1> HIDE DEF previous
<1>12. \A k \in 1 .. n + 1 : \A x \in Layer(R, k) :
         previous[x] \in Layer(R, k - 1) /\ x \in TaskNext[previous[x]]
  <2> SUFFICES ASSUME NEW k \in 1 .. n + 1, NEW x \in Layer(R, k)
               PROVE  previous[x] \in Layer(R, k - 1) /\ x \in TaskNext[previous[x]]
    OBVIOUS
  <2>1. CASE k = n + 1
    <3>1. k - 1 = n
      BY <2>1
    <3> QED
      BY <1>10, <2>1, <3>1
  <2>2. CASE k # n + 1
    <3>1. k \in 1 .. n
      BY <2>2
    <3> QED
      BY <1>11, <3>1
  <2> QED
    BY <2>1, <2>2
<1>13. Round(s).previous = previous /\ Round(s).last = Sorted(new, when)
  BY <1>1
<1>14. ToSet(Round(s).last) = Layer(R, n + 1) /\ Round(s).last \in Seq(TaskStatus)
  BY <1>3, <1>8, <1>13
<1> QED
  BY <1>9, <1>12, <1>13, <1>14 DEF Searched

LEMMA SearchIs ==
  ASSUME NEW from, NEW target
  PROVE  /\ Search(from, target)[0] = [previous |-> [x \in {from} |-> from], last |-> <<from>>]
         /\ \A n \in 0 .. 7 :
              Search(from, target)[n + 1] =
                LET s == Search(from, target)[n]
                IN  IF Arrived(s, target) \/ s.last = <<>> THEN s ELSE Round(s)
<1> DEFINE Start == [previous |-> [x \in {from} |-> from], last |-> <<from>>]
           After(s) == IF Arrived(s, target) \/ s.last = <<>> THEN s ELSE Round(s)
           Def(f, m) == f = [n \in 0 .. m |-> IF n = 0 THEN Start ELSE After(f[n - 1])]
           P == {m \in Nat : \E f : Def(f, m)}
<1>1. Rounds = 0 .. 8 /\ Rounds = 0 .. Len(AllStatuses)
  BY EightRounds DEF Rounds
<1>2. Search(from, target) = CHOOSE f : f = [n \in Rounds |-> IF n = 0 THEN Start ELSE After(f[n - 1])]
  BY <1>1 DEF Search
<1> HIDE DEF After, Start
<1>3. 0 \in P
  <2>1. Def([n \in 0 .. 0 |-> Start], 0)
    OBVIOUS
  <2> QED
    BY <2>1
<1>4. ASSUME NEW m \in Nat, m \in P
      PROVE  m + 1 \in P
  <2>1. PICK g : Def(g, m)
    BY <1>4
  <2> DEFINE h == [n \in 0 .. m + 1 |-> IF n = 0 THEN Start ELSE After(g[n - 1])]
  <2>2. \A n \in 0 .. m : h[n] = g[n]
    BY <2>1
  <2>3. \A n \in 0 .. m + 1 : n # 0 => n - 1 \in 0 .. m
    OBVIOUS
  <2>4. Def(h, m + 1)
    BY <2>2, <2>3
  <2> HIDE DEF h
  <2> QED
    BY <2>4
<1>5. 8 \in P
  <2> HIDE DEF P
  <2> QED
    BY <1>3, <1>4, Induction
<1>6. \E f : Def(f, 8)
  BY <1>5
<1> DEFINE search == Search(from, target)
<1>7. search = [n \in Rounds |-> IF n = 0 THEN Start ELSE After(search[n - 1])]
  BY <1>1, <1>2, <1>6
<1>8. search[0] = Start
  BY <1>1, <1>7
<1>9. ASSUME NEW n \in 0 .. 7
      PROVE  search[n + 1] = After(search[n])
  <2>1. n + 1 \in Rounds /\ n + 1 # 0 /\ (n + 1) - 1 = n
    BY <1>1
  <2> HIDE DEF search
  <2>2. search[n + 1] = IF n + 1 = 0 THEN Start ELSE After(search[(n + 1) - 1])
    BY <1>7, <2>1
  <2> QED
    BY <2>1, <2>2
<1> QED
  BY <1>8, <1>9 DEF After, Start

\* By round n the search has ended in round m, or is in its m-th.
Ends(R, s, target, n, m) ==
  /\ Searched(R, s, m)
  /\ \A k \in 0 .. m - 1 : R[k] \cap ToSet(target) = {}
  /\ m = n \/ R[m] \cap ToSet(target) # {}

\* How the search ends: after the first round that reaches the state, or after all
\* of them, which found all that can be reached.
LEMMA SearchEnds ==
  ASSUME NEW from \in TaskStatus, NEW R, R = Within({from}), NEW target, NEW n \in 0 .. 8
  PROVE  \E m \in 0 .. n : Ends(R, Search(from, target)[n], target, n, m)
<1> DEFINE search == Search(from, target)
           Ended(l) == \E m \in 0 .. l : Ends(R, search[l], target, l, m)
           P == {l \in Nat : l <= 8 => Ended(l)}
<1>1. 0 \in P
  <2>1. search[0] = [previous |-> [x \in {from} |-> from], last |-> <<from>>]
    BY SearchIs
  <2> HIDE DEF search
  <2>2. DOMAIN search[0].previous = {from} /\ search[0].last = <<from>>
    BY <2>1
  <2>3. <<from>> \in Seq(TaskStatus) /\ ToSet(<<from>>) = {from}
    BY DEF ToSet
  <2>4. R[0] = {from} /\ Layer(R, 0) = {from}
    BY WithinSteps DEF Layer
  <2>5. Searched(R, search[0], 0)
    BY <2>2, <2>3, <2>4 DEF Searched
  <2>6. Ends(R, search[0], target, 0, 0)
    BY <2>5 DEF Ends
  <2>7. Ended(0)
    BY <2>6
  <2> QED
    BY <2>7
<1>2. ASSUME NEW l \in Nat, l \in P
      PROVE  l + 1 \in P
  <2> SUFFICES ASSUME l \in 0 .. 7 PROVE Ended(l + 1)
    <3> HIDE DEF Ended
    <3> QED
      OBVIOUS
  <2>0. Ended(l)
    <3> HIDE DEF Ended
    <3> QED
      BY <1>2
  <2>1. PICK m \in 0 .. l : Ends(R, search[l], target, l, m)
    BY <2>0
  <2>2. search[l + 1] = IF Arrived(search[l], target) \/ search[l].last = <<>>
                          THEN search[l] ELSE Round(search[l])
    BY SearchIs
  <2> HIDE DEF search
  <2>3. Arrived(search[l], target) <=> R[m] \cap ToSet(target) # {}
    <3>1. ToSet(search[l].last) = Layer(R, m)
      BY <2>1 DEF Searched, Ends
    <3>2. CASE m = 0
      BY <3>1, <3>2 DEF Arrived, Layer
    <3>3. CASE m # 0
      <4>1. m - 1 \in 0 .. m - 1
        BY <3>3
      <4>2. R[m - 1] \cap ToSet(target) = {}
        BY <2>1, <4>1 DEF Ends
      <4>3. m - 1 \in 0 .. 7 /\ (m - 1) + 1 = m
        BY <3>3
      <4>4. R[m] = R[m - 1] \cup Layer(R, m)
        BY <4>3, Layers
      <4> QED
        BY <3>1, <4>2, <4>4 DEF Arrived
    <3> QED
      BY <3>2, <3>3
  <2>4. CASE Arrived(search[l], target)
    <3>1. Ends(R, search[l + 1], target, l + 1, m)
      BY <2>1, <2>2, <2>3, <2>4 DEF Ends
    <3> QED
      BY <3>1
  <2>5. CASE ~Arrived(search[l], target)
    <3>1. m = l /\ \A k \in 0 .. l : R[k] \cap ToSet(target) = {}
      <4>1. R[m] \cap ToSet(target) = {}
        BY <2>3, <2>5
      <4>2. m = l
        BY <2>1, <4>1 DEF Ends
      <4>3. \A k \in 0 .. l : k \in 0 .. m - 1 \/ k = m
        BY <4>2
      <4> QED
        BY <2>1, <4>1, <4>2, <4>3 DEF Ends
    <3>2. Searched(R, search[l], l)
      BY <2>1, <3>1 DEF Ends
    <3>3. Searched(R, search[l + 1], l + 1)
      <4>1. CASE search[l].last # <<>>
        BY <2>2, <2>5, <3>2, <4>1, RoundSearched
      <4>2. CASE search[l].last = <<>>
        <5>1. search[l + 1] = search[l]
          BY <2>2, <4>2
        <5>2. Layer(R, l) = {} /\ ToSet(<<>>) = {}
          <6>1. ToSet(<<>>) = {}
            BY DEF ToSet
          <6> QED
            BY <3>2, <4>2, <6>1 DEF Searched
        <5>3. Layer(R, l + 1) = {} /\ R[l + 1] = R[l]
          <6>1. Nexts({}) = {}
            BY NextsAre
          <6>2. Layer(R, l + 1) = {}
            BY <5>2, <6>1, Layers
          <6>3. R[l + 1] = R[l] \cup Layer(R, l + 1)
            BY Layers
          <6> QED
            BY <6>2, <6>3
        <5>4. \A k \in 1 .. l + 1 : k \in 1 .. l \/ k = l + 1
          OBVIOUS
        <5> QED
          BY <3>2, <5>1, <5>2, <5>3, <5>4 DEF Searched
      <4> QED
        BY <4>1, <4>2
    <3>4. \A k \in 0 .. (l + 1) - 1 : R[k] \cap ToSet(target) = {}
      BY <3>1
    <3>5. Ends(R, search[l + 1], target, l + 1, l + 1)
      BY <3>3, <3>4 DEF Ends
    <3> QED
      BY <3>5
  <2> QED
    BY <2>4, <2>5
<1>3. n \in P
  <2> HIDE DEF P
  <2> QED
    BY <1>1, <1>2, Induction
<1>4. Ended(n)
  <2> HIDE DEF Ended
  <2> QED
    BY <1>3
<1> QED
  BY <1>4

\* The loop of the search goes through no more rounds than there are statuses: after
\* that many it has reached the state or has nothing left to search from, for any
\* status and any target (StatusPathToState, its for over the frontier).
THEOREM SearchIsOver ==
  ASSUME NEW from \in TaskStatus, NEW target
  PROVE  LET s == Search(from, target)[Len(AllStatuses)]
         IN  Arrived(s, target) \/ s.last = <<>>
<1> DEFINE s == Search(from, target)[8]
           R == Within({from})
<1>1. PICK m \in 0 .. 8 : Ends(R, s, target, 8, m)
  BY SearchEnds
<1> HIDE DEF s, R
<1>2. /\ s.last \in Seq(TaskStatus) /\ ToSet(s.last) = Layer(R, m)
      /\ \A k \in 0 .. m - 1 : R[k] \cap ToSet(target) = {}
      /\ m = 8 \/ R[m] \cap ToSet(target) # {}
  BY <1>1 DEF Ends, Searched
<1>3. CASE Layer(R, m) = {}
  <2>1. ASSUME s.last # <<>> PROVE FALSE
    <3>1. s.last \in Seq(TaskStatus) /\ ToSet(s.last) = {}
      BY <1>2, <1>3
    <3>2. 1 \in 1 .. Len(s.last)
      BY <2>1, <3>1
    <3>3. s.last[1] \in ToSet(s.last)
      BY <3>2 DEF ToSet
    <3> QED
      BY <3>1, <3>3
  <2> QED
    BY <2>1, EightRounds, Zenon DEF s
<1>4. CASE m # 8
  <2>1. R[m] \cap ToSet(target) # {}
    BY <1>2, <1>4
  <2>2. Layer(R, m) \cap ToSet(target) = R[m] \cap ToSet(target)
    <3>1. CASE m = 0
      BY <3>1 DEF Layer
    <3>2. CASE m # 0
      <4>1. R[m - 1] \cap ToSet(target) = {}
        BY <1>2, <3>2
      <4> QED
        BY <3>2, <4>1 DEF Layer
    <3> QED
      BY <3>1, <3>2
  <2>3. Arrived(s, target)
    BY <1>2, <2>1, <2>2 DEF Arrived
  <2> QED
    BY <2>3, EightRounds DEF s
<1>5. CASE m = 8
  BY <1>3, <1>5, LastLayerEmpty DEF R
<1> QED
  BY <1>4, <1>5
-----------------------------------------------------------------------------
(* The way back *)

LEMMA InLayers ==
  ASSUME NEW from \in TaskStatus, NEW R, R = Within({from}), NEW n \in 0 .. 8, NEW x \in R[n]
  PROVE  \E k \in 0 .. n : x \in Layer(R, k)
<1> DEFINE In(m) == \A y \in R[m] : \E k \in 0 .. m : y \in Layer(R, k)
           P == {m \in Nat : m <= 8 => In(m)}
<1>1. In(0)
  BY DEF Layer
<1>2. ASSUME NEW m \in 0 .. 7, In(m)
      PROVE  In(m + 1)
  <2>1. R[m + 1] = R[m] \cup Layer(R, m + 1)
    BY Layers
  <2> SUFFICES ASSUME NEW y \in R[m + 1] PROVE \E k \in 0 .. m + 1 : y \in Layer(R, k)
    OBVIOUS
  <2>2. CASE y \in R[m]
    <3>1. PICK k \in 0 .. m : y \in Layer(R, k)
      BY <1>2, <2>2
    <3> QED
      BY <3>1
  <2>3. CASE y \in Layer(R, m + 1)
    BY <2>3
  <2> QED
    BY <2>1, <2>2, <2>3
<1> HIDE DEF In
<1>3. 0 \in P
  BY <1>1
<1>4. \A m \in Nat : m \in P => m + 1 \in P
  BY <1>2
<1>5. In(n)
  <2>1. n \in P
    <3> HIDE DEF P
    <3> QED
      BY <1>3, <1>4, Induction
  <2> QED
    BY <2>1
<1> QED
  BY <1>5 DEF In

LEMMA FromAlone ==
  ASSUME NEW from \in TaskStatus, NEW R, R = Within({from}), NEW k \in 1 .. 8
  PROVE  from \notin Layer(R, k)
<1>1. R[0] = {from} /\ R[0] \subseteq R[k - 1]
  BY WithinSteps, WithinGrows, EightRounds
<1> QED
  BY <1>1 DEF Layer

\* Each of X with the statuses on the way back from it.
IsBack(f, X, from, previous) ==
  /\ f = [x \in X |-> IF x = from THEN <<>> ELSE Append(f[previous[x]], x)]
  /\ \A to \in X : WalkBack(previous, from, to) = f[to]

\* The statuses on the way back to those found at the start, from wherever the
\* search has been.
LEMMA WalkBackIs ==
  ASSUME NEW from \in TaskStatus, NEW R, R = Within({from}), NEW n \in 0 .. 8,
         NEW s, Searched(R, s, n)
  PROVE  \E f : IsBack(f, R[n], from, s.previous)
<1> DEFINE previous == s.previous
           Def(f, X) == f = [x \in X |-> IF x = from THEN <<>> ELSE Append(f[previous[x]], x)]
           Back(m) == \E f : Def(f, R[m])
           P == {m \in Nat : m <= n => Back(m)}
<1>1. \A k \in 1 .. n : \A x \in Layer(R, k) : previous[x] \in Layer(R, k - 1)
  BY DEF Searched
<1>2. DOMAIN previous = R[n]
  BY DEF Searched
<1> HIDE DEF previous
<1>3. Back(0)
  <2>1. R[0] = {from}
    BY WithinSteps
  <2>2. Def([x \in {from} |-> <<>>], {from})
    OBVIOUS
  <2> HIDE DEF Def
  <2> QED
    BY <2>1, <2>2
<1>4. ASSUME NEW m \in 0 .. n - 1, Back(m)
      PROVE  Back(m + 1)
  <2>1. PICK g : Def(g, R[m])
    BY <1>4
  <2>2. ASSUME NEW x \in R[m + 1], x # from
        PROVE  previous[x] \in R[m]
    <3>1. PICK k \in 0 .. m + 1 : x \in Layer(R, k)
      BY InLayers
    <3>2. k # 0
      BY <2>2, <3>1, WithinSteps DEF Layer
    <3>3. previous[x] \in Layer(R, k - 1)
      <4>1. k \in 1 .. n
        BY <3>2
      <4> QED
        BY <1>1, <3>1, <4>1
    <3>4. k - 1 \in 0 .. 8 /\ m \in 0 .. 8 /\ k - 1 <= m
      BY <3>2
    <3>5. R[k - 1] \subseteq R[m]
      BY <3>4, WithinGrows, EightRounds
    <3> QED
      BY <3>3, <3>5 DEF Layer
  <2> DEFINE h == [x \in R[m + 1] |-> IF x = from THEN <<>> ELSE Append(g[previous[x]], x)]
  <2>3. \A x \in R[m] : h[x] = g[x]
    <3>1. R[m] \subseteq R[m + 1]
      BY WithinGrows, EightRounds
    <3> QED
      BY <2>1, <3>1
  <2>4. Def(h, R[m + 1])
    BY <2>2, <2>3
  <2> HIDE DEF h, Def
  <2> QED
    BY <2>4
<1>5. Back(n)
  <2> HIDE DEF Back
  <2>1. 0 \in P
    BY <1>3
  <2>2. \A m \in Nat : m \in P => m + 1 \in P
    BY <1>4
  <2>3. n \in P
    <3> HIDE DEF P
    <3> QED
      BY <2>1, <2>2, Induction
  <2> QED
    BY <2>3
<1> DEFINE back == CHOOSE f : Def(f, R[n])
<1>6. Def(back, R[n])
  BY <1>5
<1>7. \A to : WalkBack(previous, from, to) = back[to]
  BY <1>2 DEF WalkBack
<1> HIDE DEF back
<1> QED
  BY <1>6, <1>7 DEF previous, IsBack

LEMMA WalkExtends ==
  ASSUME NEW from \in TaskStatus, NEW path \in Seq(TaskStatus), IsWalk(from, path),
         NEW x \in TaskStatus,
         x \in TaskNext[IF path = <<>> THEN from ELSE path[Len(path)]]
  PROVE  IsWalk(from, Append(path, x))
<1> DEFINE walk == Append(path, x)  n == Len(path)
<1>1. n \in Nat /\ Len(walk) = n + 1 /\ (n = 0 <=> path = <<>>)
  OBVIOUS
<1>2. walk[n + 1] = x /\ \A i \in 1 .. n : walk[i] = path[i]
  OBVIOUS
<1> HIDE DEF walk, n
<1>3. ASSUME NEW i \in 1 .. n + 1
      PROVE  walk[i] \in TaskNext[IF i = 1 THEN from ELSE walk[i - 1]]
  <2>1. CASE i = n + 1
    <3>1. i = 1 <=> path = <<>>
      BY <1>1, <2>1
    <3>2. i # 1 => walk[i - 1] = path[n]
      BY <1>1, <1>2, <2>1
    <3> QED
      BY <1>2, <2>1, <3>1, <3>2 DEF n
  <2>2. CASE i # n + 1
    <3>1. i \in 1 .. n /\ (i # 1 => i - 1 \in 1 .. n)
      BY <1>1, <2>2
    <3>2. path[i] \in TaskNext[IF i = 1 THEN from ELSE path[i - 1]]
      BY <3>1 DEF IsWalk, n
    <3> QED
      BY <1>2, <3>1, <3>2
  <2> QED
    BY <2>1, <2>2
<1> QED
  BY <1>1, <1>3 DEF IsWalk, walk

\* A walk of n steps to a status.
IsWalkTo(path, from, to, n) ==
  /\ path \in Seq(TaskStatus) /\ Len(path) = n /\ IsWalk(from, path)
  /\ n > 0 => path[n] = to

\* From a status that takes n transitions, the way back is a walk of n.
LEMMA WalksBack ==
  ASSUME NEW from \in TaskStatus, NEW R, R = Within({from}), NEW n \in 0 .. 8,
         NEW s, Searched(R, s, n), NEW to \in Layer(R, n)
  PROVE  IsWalkTo(WalkBack(s.previous, from, to), from, to, n)
<1>1. PICK f : IsBack(f, R[n], from, s.previous)
  BY WalkBackIs
<1>2. \A k \in 1 .. n : \A x \in Layer(R, k) :
        s.previous[x] \in Layer(R, k - 1) /\ x \in TaskNext[s.previous[x]]
  BY DEF Searched
<1> DEFINE Walk(k, x) == /\ f[x] \in Seq(TaskStatus) /\ Len(f[x]) = k /\ IsWalk(from, f[x])
                         /\ k > 0 => f[x][k] = x
           Walks(k) == \A x \in Layer(R, k) : Walk(k, x)
           P == {k \in Nat : k <= n => Walks(k)}
<1>3. Walks(0)
  <2> SUFFICES ASSUME NEW x \in Layer(R, 0) PROVE Walk(0, x)
    OBVIOUS
  <2>1. x = from /\ from \in R[0] /\ R[0] \subseteq R[n]
    BY WithinSteps, WithinGrows, EightRounds DEF Layer
  <2>2. f[x] = <<>>
    BY <1>1, <2>1 DEF IsBack
  <2> QED
    BY <2>2 DEF IsWalk
<1>4. ASSUME NEW k \in 0 .. n - 1, Walks(k)
      PROVE  Walks(k + 1)
  <2> SUFFICES ASSUME NEW x \in Layer(R, k + 1) PROVE Walk(k + 1, x)
    OBVIOUS
  <2> DEFINE y == s.previous[x]
  <2>1. y \in Layer(R, k) /\ x \in TaskNext[y]
    <3>1. k + 1 \in 1 .. n /\ (k + 1) - 1 = k
      OBVIOUS
    <3> QED
      BY <1>2, <3>1
  <2>2. x \in R[n] /\ x # from
    <3>1. k + 1 \in 1 .. 8 /\ k + 1 <= n
      OBVIOUS
    <3>2. x \in R[k + 1] /\ R[k + 1] \subseteq R[n]
      BY <3>1, WithinGrows, EightRounds DEF Layer
    <3> QED
      BY <3>1, <3>2, FromAlone
  <2>3. x \in TaskStatus
    BY <2>2, WithinSteps, EightRounds
  <2>4. f[x] = Append(f[y], x)
    BY <1>1, <2>2 DEF IsBack
  <2> HIDE DEF y
  <2>5. Walk(k, y)
    BY <1>4, <2>1
  <2>6. f[y] # <<>> => y = f[y][Len(f[y])]
    BY <2>5
  <2>7. f[y] = <<>> => y = from
    <3> SUFFICES ASSUME f[y] = <<>> PROVE y = from
      OBVIOUS
    <3>1. k = 0
      BY <2>5
    <3> QED
      BY <2>1, <3>1, WithinSteps DEF Layer
  <2>8. IsWalk(from, f[x])
    BY <2>1, <2>3, <2>4, <2>5, <2>6, <2>7, WalkExtends
  <2> QED
    BY <2>3, <2>4, <2>5, <2>8
<1>5. Walks(n)
  <2> HIDE DEF Walks
  <2>1. 0 \in P
    BY <1>3
  <2>2. \A k \in Nat : k \in P => k + 1 \in P
    BY <1>4
  <2>3. n \in P
    <3> HIDE DEF P
    <3> QED
      BY <2>1, <2>2, Induction
  <2> QED
    BY <2>3
<1>6. Walk(n, to) /\ WalkBack(s.previous, from, to) = f[to]
  BY <1>1, <1>5 DEF Layer, IsBack
<1> QED
  BY <1>6 DEF IsWalkTo
-----------------------------------------------------------------------------
(* The walk *)

LEMMA BestIs ==
  ASSUME NEW target \in Seq(TaskStatus), NEW reached \in Seq(TaskStatus),
         ToSet(reached) \cap ToSet(target) # {}
  PROVE  /\ Best(reached, target) \in ToSet(reached)
         /\ Best(reached, target) =
              target[First({k \in 1 .. Len(target) : target[k] \in ToSet(reached)})]
<1> DEFINE K == {k \in 1 .. Len(target) : target[k] \in ToSet(reached)}
<1>1. \A x : Contains(reached, x) <=> x \in ToSet(reached)
  BY ToSetIs DEF Contains
<1>2. {i \in 1 .. Len(target) : Contains(reached, target[i])} = K
  BY <1>1
<1>3. Best(reached, target) = target[First(K)]
  BY <1>2 DEF Best
<1>4. K # {}
  BY ToSetIs
<1>5. K \subseteq Nat
  OBVIOUS
<1>6. First(K) \in K
  BY <1>4, <1>5, FirstIs
<1> QED
  BY <1>3, <1>6

\* From any status to any list of statuses, the search finds a shortest walk.
LEMMA WalkIsShortest ==
  ASSUME NEW from \in TaskStatus, NEW target \in Seq(TaskStatus)
  PROVE  ShortestWalk(from, target)
<1> DEFINE R == Within({from})
           T == ToSet(target)
           found == Search(from, target)[8]
           walk == StatusPathToState(from, target)
           near == {n \in 0 .. Len(AllStatuses) : R[n] \cap T # {}}
           last == {k \in 1 .. Len(target) : target[k] \in R[First(near)]}
<1>0. PICK m \in 0 .. 8 : Ends(R, found, target, 8, m)
  BY SearchEnds
<1>1. /\ Searched(R, found, m)
      /\ \A k \in 0 .. m - 1 : R[k] \cap T = {}
      /\ m = 8 \/ R[m] \cap T # {}
  BY <1>0 DEF Ends
<1>2. walk = IF Arrived(found, target)
               THEN [ok |-> TRUE, path |-> WalkBack(found.previous, from, Best(found.last, target))]
               ELSE [ok |-> FALSE, path |-> <<>>]
  BY EightRounds DEF StatusPathToState
<1>3. near = {n \in 0 .. 8 : R[n] \cap T # {}}
  BY EightRounds
<1> HIDE DEF R, T, found, walk
<1>4. found.last \in Seq(TaskStatus) /\ ToSet(found.last) = Layer(R, m)
  BY <1>1 DEF Searched
<1>5. Layer(R, m) \cap T = R[m] \cap T
  <2>1. CASE m = 0
    BY <2>1 DEF Layer
  <2>2. CASE m # 0
    <3>1. R[m - 1] \cap T = {}
      BY <1>1, <2>2
    <3>2. m - 1 \in 0 .. 7 /\ (m - 1) + 1 = m
      BY <2>2
    <3>3. R[m] = R[m - 1] \cup Layer(R, m)
      BY <3>2, Layers DEF R
    <3> QED
      BY <3>1, <3>3
  <2> QED
    BY <2>1, <2>2
<1>6. Arrived(found, target) <=> R[m] \cap T # {}
  BY <1>4, <1>5 DEF Arrived, T
<1>7. walk.ok <=> R[m] \cap T # {}
  BY <1>2, <1>6
<1>8. near # {} <=> R[m] \cap T # {}
  <2>1. R[m] \cap T # {} => m \in near
    BY <1>3
  <2>2. R[m] \cap T = {} => \A k \in 0 .. 8 : R[k] \cap T = {}
    BY <1>1
  <2> QED
    BY <1>3, <2>1, <2>2
<1>9. ASSUME walk.ok
      PROVE  /\ Len(walk.path) = First(near) /\ IsWalk(from, walk.path)
             /\ First(near) > 0 => walk.path[First(near)] = target[First(last)]
  <2> DEFINE to == Best(found.last, target)
  <2>1. R[m] \cap T # {} /\ Arrived(found, target)
    BY <1>6, <1>7, <1>9
  <2>2. First(near) = m
    <3>1. m \in near /\ near \subseteq Nat
      BY <1>3, <2>1
    <3>2. \A k \in near : m <= k
      <4> SUFFICES ASSUME NEW k \in near, ~(m <= k) PROVE FALSE
        OBVIOUS
      <4>1. k \in 0 .. m - 1 /\ R[k] \cap T # {}
        BY <1>3
      <4> QED
        BY <1>1, <4>1
    <3> HIDE DEF near
    <3> QED
      BY <3>1, <3>2, FirstOf
  <2>3. /\ to \in Layer(R, m)
        /\ to = target[First({k \in 1 .. Len(target) : target[k] \in Layer(R, m)})]
    <3> DEFINE K == {k \in 1 .. Len(target) : target[k] \in Layer(R, m)}
               L == {k \in 1 .. Len(target) : target[k] \in ToSet(found.last)}
    <3>1. ToSet(found.last) \cap ToSet(target) # {}
      BY <1>4, <1>5, <2>1 DEF T
    <3>2. to \in ToSet(found.last) /\ to = target[First(L)]
      BY <1>4, <3>1, BestIs
    <3>3. L = K
      BY <1>4
    <3> HIDE DEF K, L
    <3>4. to = target[First(K)]
      BY <3>2, <3>3
    <3> QED
      BY <1>4, <3>2, <3>4 DEF K
  <2>4. last = {k \in 1 .. Len(target) : target[k] \in Layer(R, m)}
    <3>1. \A k \in 1 .. Len(target) : target[k] \in T
      BY ToSetIs DEF T
    <3> HIDE DEF near
    <3> QED
      BY <1>5, <2>2, <3>1
  <2> HIDE DEF to, last, near
  <2>5. walk.path = WalkBack(found.previous, from, to)
    BY <1>2, <2>1 DEF to
  <2>6. /\ Len(walk.path) = m /\ IsWalk(from, walk.path)
        /\ m > 0 => walk.path[m] = to
    <3>1. PICK within : within = Within({from})
      OBVIOUS
    <3>2. Searched(within, found, m) /\ to \in Layer(within, m)
      BY <1>1, <2>3, <3>1 DEF R
    <3>3. IsWalkTo(WalkBack(found.previous, from, to), from, to, m)
      BY <3>1, <3>2, WalksBack
    <3> QED
      BY <2>5, <3>3 DEF IsWalkTo
  <2> QED
    BY <2>2, <2>3, <2>4, <2>6
<1> HIDE DEF near, last
<1> QED
  BY <1>7, <1>8, <1>9 DEF ShortestWalk, R, T, walk, near, last

\* The states in force are lists of statuses.
LEMMA StatesAreLists ==
  IInv => \A i \in 1 .. Len(TaskStates) : TaskStates[i].statuses \in Seq(TaskStatus)
<1> DEFINE AreLists(states) == \A i \in 1 .. Len(states) : states[i].statuses \in Seq(TaskStatus)
<1>1. AreLists(DefaultTaskStates)
  <2>1. Len(DefaultTaskStates) = 5
    BY DEF DefaultTaskStates
  <2>2. \A i \in 1 .. 5 : i = 1 \/ i = 2 \/ i = 3 \/ i = 4 \/ i = 5
    OBVIOUS
  <2>3. /\ <<"pending">> \in Seq(TaskStatus) /\ <<"in_progress", "split">> \in Seq(TaskStatus)
        /\ <<"blocked", "awaiting-direction", "failed">> \in Seq(TaskStatus)
        /\ <<"completed">> \in Seq(TaskStatus) /\ <<"cancelled">> \in Seq(TaskStatus)
    BY DEF TaskStatus
  <2>4. /\ DefaultTaskStates[1].statuses = <<"pending">>
        /\ DefaultTaskStates[2].statuses = <<"in_progress", "split">>
        /\ DefaultTaskStates[3].statuses = <<"blocked", "awaiting-direction", "failed">>
        /\ DefaultTaskStates[4].statuses = <<"completed">>
        /\ DefaultTaskStates[5].statuses = <<"cancelled">>
    BY DEF DefaultTaskStates
  <2>5. /\ DefaultTaskStates[1].statuses \in Seq(TaskStatus)
        /\ DefaultTaskStates[2].statuses \in Seq(TaskStatus)
        /\ DefaultTaskStates[3].statuses \in Seq(TaskStatus)
        /\ DefaultTaskStates[4].statuses \in Seq(TaskStatus)
        /\ DefaultTaskStates[5].statuses \in Seq(TaskStatus)
    BY <2>3, <2>4
  <2> QED
    BY <2>1, <2>2, <2>5
<1>2. ASSUME NEW v \in Values, Parses(v)
      PROVE  AreLists(v)
  <2> SUFFICES ASSUME NEW i \in 1 .. Len(v) PROVE v[i].statuses \in Seq(TaskStatus)
    OBVIOUS
  <2>1. v[i].statuses \in Seq(STRING)
    <3> DEFINE Row == [name : STRING, statuses : Seq(STRING)]
    <3>1. v \in Seq(Row)
      BY ValuesAreLists
    <3>2. v[i] \in Row
      <4> HIDE DEF Row
      <4> QED
        BY <3>1
    <3> QED
      BY <3>2
  <2>2. \A k \in 1 .. Len(v[i].statuses) : v[i].statuses[k] \in TaskStatus
    BY <1>2, <2>1, ToSetIs DEF Parses
  <2> QED
    BY <2>1, <2>2
<1> HIDE DEF AreLists
<1>3. IInv => AreLists(TaskStates)
  BY <1>1, <1>2 DEF IInv, SettingsParse, TaskStates
<1> QED
  BY <1>3 DEF AreLists

\* Whatever states are defined and wherever a card is, it goes to a state by a
\* shortest walk of legal steps that ends in the first of the nearest statuses, or
\* is refused because no transitions lead there (StatusPathToState, walkBack).
THEOREM ShortestWalks == Spec => []WalksAreShortest
<1>1. IInv => WalksAreShortest
  <2> SUFFICES ASSUME IInv, NEW c \in Live, NEW i \in 1 .. Len(TaskStates)
               PROVE  ShortestWalk(card[c].status, TaskStates[i].statuses)
    BY DEF WalksAreShortest
  <2>1. card[c].status \in TaskStatus
    BY DEF IInv, CardRow, Live
  <2>2. TaskStates[i].statuses \in Seq(TaskStatus)
    BY StatesAreLists
  <2> QED
    BY <2>1, <2>2, WalkIsShortest
<1> QED
  BY <1>1, Invariant, PTL
=============================================================================
