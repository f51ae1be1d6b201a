---------------------------- MODULE BoardProofs ----------------------------
(***************************************************************************)
(* For any cards, ranks and settings: the ranks keep the order that the    *)
(* callers ask for, and a card's own state is the one it is in.            *)
(***************************************************************************)
EXTENDS Board, FiniteSetTheorems, WellFoundedInduction, TLAPS

(* Linear orders *)

\* A member of a finite set that all others of it come before.
LEMMA LastExists ==
  ASSUME NEW order, NEW X, IsLinear(order, X),
         NEW S, S \subseteq X, S # {}, IsFiniteSet(S)
  PROVE  \E d \in S : \A e \in S \ {d} : <<e, d>> \in order
<1> DEFINE After(d) == {e \in S : <<d, e>> \in order}
           Counts == {Cardinality(After(d)) : d \in S}
<1>1. \A d \in S : IsFiniteSet(After(d)) /\ Cardinality(After(d)) \in Nat
  BY FS_Subset, FS_CardinalityType
<1>2. PICK n \in Counts : \A k \in Counts : ~(k < n)
  <2>1. Counts \subseteq Nat /\ Counts # {}
    BY <1>1
  <2>2. PICK n \in Counts : \A k \in Counts : <<k, n>> \notin OpToRel(<, Nat)
    BY <2>1, WFMin, NatLessThanWellFounded
  <2> QED
    BY <2>1, <2>2 DEF OpToRel
<1>3. PICK d \in S : n = Cardinality(After(d))
  BY <1>2
<1>4. \A e \in S : e \notin After(d)
  <2> SUFFICES ASSUME NEW e \in S, e \in After(d) PROVE FALSE
    OBVIOUS
  <2>1. After(e) \in SUBSET After(d) /\ After(e) # After(d)
    BY DEF IsLinear
  <2>2. Cardinality(After(e)) < Cardinality(After(d))
    <3> HIDE DEF After
    <3>1. /\ Cardinality(After(e)) <= Cardinality(After(d))
          /\ Cardinality(After(d)) # Cardinality(After(e))
      BY <1>1, <2>1, FS_Subset
    <3> QED
      BY <1>1, <3>1
  <2> QED
    BY <1>2, <1>3, <2>2
<1> QED
  BY <1>4 DEF IsLinear

LEMMA FirstExists ==
  ASSUME NEW order, NEW X, IsLinear(order, X),
         NEW S, S \subseteq X, S # {}, IsFiniteSet(S)
  PROVE  \E d \in S : \A e \in S \ {d} : <<d, e>> \in order
<1> DEFINE back == {e \in X \X X : <<e[2], e[1]>> \in order}
<1>1. \A x, y \in X : <<x, y>> \in back <=> <<y, x>> \in order
  OBVIOUS
<1>2. IsLinear(back, X)
  <2> HIDE DEF back
  <2>1. back \subseteq X \X X
    BY DEF back
  <2> QED
    BY <1>1, <2>1 DEF IsLinear
<1> HIDE DEF back
<1>3. PICK d \in S : \A e \in S \ {d} : <<e, d>> \in back
  BY <1>2, LastExists
<1> QED
  BY <1>1, <1>3

\* To put a new member in keeps the order linear.
LEMMA PutLinear ==
  ASSUME NEW order, NEW X, IsLinear(order, X), NEW x, x \notin X,
         NEW S, IsCut(order, X, S)
  PROVE  IsLinear(Put(order, X, x, S), X \cup {x})
<1> DEFINE new == Put(order, X, x, S)
<1>1. new \subseteq (X \cup {x}) \X (X \cup {x})
  BY DEF Put, IsCut, IsLinear
<1>2. \A y, z \in X : <<y, z>> \in new <=> <<y, z>> \in order
  BY DEF Put
<1>3. \A y \in X : (<<y, x>> \in new <=> y \in S) /\ (<<x, y>> \in new <=> y \notin S)
  BY DEF Put, IsLinear, IsCut
<1>4. <<x, x>> \notin new
  BY DEF Put, IsLinear, IsCut
<1> HIDE DEF new
<1>5. \A y, z \in X \cup {x} : <<y, z>> \in new <=> y # z /\ <<z, y>> \notin new
  BY <1>2, <1>3, <1>4 DEF IsLinear
<1>6. \A y, z \in X : y \in S /\ z \notin S => <<y, z>> \in order /\ <<z, y>> \notin order
  BY DEF IsCut, IsLinear
<1>7. ASSUME NEW y \in X \cup {x}, NEW z \in X \cup {x}, NEW w \in X \cup {x},
             <<y, z>> \in new, <<z, w>> \in new
      PROVE <<y, w>> \in new
  <2>1. CASE y = x
    BY <1>2, <1>3, <1>4, <1>6, <1>7, <2>1
  <2>2. CASE y # x /\ z = x
    BY <1>2, <1>3, <1>4, <1>6, <1>7, <2>2
  <2>3. CASE y # x /\ z # x /\ w = x
    BY <1>2, <1>3, <1>6, <1>7, <2>3
  <2>4. CASE y # x /\ z # x /\ w # x
    BY <1>2, <1>7, <2>4 DEF IsLinear
  <2> QED
    BY <2>1, <2>2, <2>3, <2>4
<1> QED
  BY <1>1, <1>5, <1>7 DEF IsLinear, new

LEMMA SamePairs ==
  ASSUME NEW X, NEW A, NEW B, A \subseteq X \X X, B \subseteq X \X X,
         \A y, z \in X : <<y, z>> \in A <=> <<y, z>> \in B
  PROVE  A = B
<1>1. \A e \in X \X X : e \in A <=> e \in B
  <2> SUFFICES ASSUME NEW y \in X, NEW z \in X PROVE <<y, z>> \in A <=> <<y, z>> \in B
    OBVIOUS
  <2> QED
    OBVIOUS
<1> QED
  BY <1>1

\* Two linear orders that agree but for one member differ in where it is put.
LEMMA PutInto ==
  ASSUME NEW order, NEW X, order \subseteq X \X X, NEW x, x \notin X,
         NEW new, IsLinear(new, X \cup {x}),
         \A y, z \in X : <<y, z>> \in new <=> <<y, z>> \in order,
         NEW S, S = {y \in X : <<y, x>> \in new}
  PROVE  IsCut(order, X, S) /\ new = Put(order, X, x, S)
<1>1. IsCut(order, X, S)
  BY DEF IsCut, IsLinear
<1>2. \A y \in X : (<<y, x>> \in new <=> y \in S) /\ (<<x, y>> \in new <=> y \notin S)
  BY DEF IsLinear
<1>3. <<x, x>> \notin new /\ new \subseteq (X \cup {x}) \X (X \cup {x})
  BY DEF IsLinear
<1>4. \A y, z \in X \cup {x} : <<y, z>> \in new <=> <<y, z>> \in Put(order, X, x, S)
  BY <1>2, <1>3 DEF Put
<1>5. Put(order, X, x, S) \subseteq (X \cup {x}) \X (X \cup {x})
  BY DEF Put
<1>6. new = Put(order, X, x, S)
  <2> DEFINE Y == X \cup {x}  put == Put(order, X, x, S)
  <2>1. new \subseteq Y \X Y /\ put \subseteq Y \X Y /\ \A y, z \in Y : <<y, z>> \in new <=> <<y, z>> \in put
    BY <1>3, <1>4, <1>5
  <2> HIDE DEF Y, put
  <2>2. new = put
    BY <2>1, SamePairs
  <2> QED
    BY <2>2 DEF put
<1> QED
  BY <1>1, <1>6
-----------------------------------------------------------------------------
(* The order of the cards *)

LEMMA LiveType ==
  ASSUME IInv
  PROVE  /\ Live \subseteq Born /\ Born \subseteq Cards /\ Live \subseteq Cards
         /\ \A c \in Cards : card[c].rank \in Int
         /\ \A S \in SUBSET Live : IsFiniteSet(S) /\ Cardinality(S) \in Nat
<1>1. Live \subseteq Born /\ Born \subseteq Cards
  BY DEF Live, Born
<1>2. \A c \in Cards : card[c].rank \in Int
  BY DEF IInv, CardRow
<1>3. \A S \in SUBSET Live : IsFiniteSet(S) /\ Cardinality(S) \in Nat
  BY <1>1, FS_Subset, FS_CardinalityType DEF IInv
<1> QED
  BY <1>1, <1>2, <1>3

LEMMA InOrder ==
  /\ Order \subseteq Live \X Live
  /\ \A c, d \in Live : <<c, d>> \in Order <=> Before(c, d)
BY DEF Order

\* By rank, then by age, the cards lie in a line (taskOrder).
LEMMA OrderLinear == IInv => IsLinear(Order, Live)
<1> SUFFICES ASSUME IInv PROVE IsLinear(Order, Live)
  OBVIOUS
<1>1. /\ \A c \in Live : card[c].rank \in Int
      /\ \A c, d, e \in Live : <<c, d>> \in older /\ <<d, e>> \in older => <<c, e>> \in older
      /\ \A c, d \in Live : <<c, d>> \in older <=> c # d /\ <<d, c>> \notin older
  BY LiveType DEF IsLinear, IInv
<1>2. \A c, d, e \in Live : Before(c, d) /\ Before(d, e) => Before(c, e)
  BY <1>1 DEF Before
<1>3. ASSUME NEW c \in Live, NEW d \in Live PROVE Before(c, d) <=> c # d /\ ~Before(d, c)
  <2>1. card[c].rank \in Int /\ card[d].rank \in Int
    BY <1>1
  <2>2. <<c, d>> \in older <=> c # d /\ <<d, c>> \notin older
    BY <1>1
  <2> QED
    BY <2>1, <2>2 DEF Before
<1>4. \A c, d, e \in Live : <<c, d>> \in Order /\ <<d, e>> \in Order => <<c, e>> \in Order
  BY <1>2, InOrder
<1>5. \A c, d \in Live : <<c, d>> \in Order <=> c # d /\ <<d, c>> \notin Order
  BY <1>3, InOrder
<1> QED
  BY <1>4, <1>5, InOrder DEF IsLinear

\* The cards below a place have ranks no lower than those above it.
LEMMA RanksAscend ==
  ASSUME IInv, NEW c \in Live, NEW d \in Live, Before(c, d)
  PROVE  card[c].rank <= card[d].rank
BY LiveType DEF Before

LEMMA TopIs ==
  ASSUME IInv, NEW T \in SUBSET Live, T # {}
  PROVE  Top(T) \in T /\ \A e \in T : card[Top(T)].rank <= card[e].rank
<1>1. \E d \in T : \A e \in T \ {d} : <<d, e>> \in Order
  <2>1. IsFiniteSet(T) /\ IsLinear(Order, Live) /\ T \subseteq Live
    BY LiveType, OrderLinear
  <2> QED
    BY <2>1, FirstExists
<1>2. \E d \in T : \A e \in T \ {d} : Before(d, e)
  BY <1>1, InOrder
<1>3. Top(T) \in T /\ \A e \in T \ {Top(T)} : Before(Top(T), e)
  BY <1>2 DEF Top
<1> QED
  BY <1>3, RanksAscend, LiveType

LEMMA BottomIs ==
  ASSUME IInv, NEW S \in SUBSET Live, S # {}
  PROVE  Bottom(S) \in S /\ \A e \in S : card[e].rank <= card[Bottom(S)].rank
<1>1. \E d \in S : \A e \in S \ {d} : <<e, d>> \in Order
  <2>1. IsFiniteSet(S) /\ IsLinear(Order, Live) /\ S \subseteq Live
    BY LiveType, OrderLinear
  <2> QED
    BY <2>1, LastExists
<1>2. \E d \in S : \A e \in S \ {d} : Before(e, d)
  BY <1>1, InOrder
<1>3. Bottom(S) \in S /\ \A e \in S \ {Bottom(S)} : Before(e, Bottom(S))
  BY <1>2 DEF Bottom
<1> QED
  BY <1>3, RanksAscend, LiveType

\* The rank of a place is between those of its neighbours, if there is room.
LEMMA RankBetween ==
  ASSUME IInv, NEW S \in SUBSET Live, NEW T \in SUBSET Live
  PROVE  /\ RankAt(S, T) \in Int
         /\ Room(S, T) => /\ \A d \in S : card[d].rank < RankAt(S, T)
                          /\ \A d \in T : RankAt(S, T) < card[d].rank
<1> DEFINE low == card[Bottom(S)].rank  high == card[Top(T)].rank
<1>1. S # {} => low \in Int /\ \A d \in S : card[d].rank \in Int /\ card[d].rank <= low
  BY BottomIs, LiveType
<1>2. T # {} => high \in Int /\ \A d \in T : card[d].rank \in Int /\ high <= card[d].rank
  BY TopIs, LiveType
<1>3. Gap \in Int /\ Gap > 0
  BY RanksAreNumbers
<1>4. RankAt(S, T) = IF S = {} /\ T = {} THEN Gap
                     ELSE IF S = {} THEN high - Gap
                     ELSE IF T = {} THEN low + Gap ELSE low + (high - low) \div 2
  BY DEF RankAt
<1>5. Room(S, T) <=> (S # {} /\ T # {} => high - low >= 2)
  BY DEF Room
<1> HIDE DEF low, high
<1>6. CASE S = {} \/ T = {}
  BY <1>1, <1>2, <1>3, <1>4, <1>6
<1>7. CASE S # {} /\ T # {}
  <2> DEFINE r == low + (high - low) \div 2
  <2>1. r \in Int /\ (high - low >= 2 => low < r /\ r < high)
    BY <1>1, <1>2, <1>7
  <2>2. RankAt(S, T) = r
    BY <1>4, <1>7
  <2> HIDE DEF r
  <2> QED
    BY <1>1, <1>2, <1>5, <1>7, <2>1, <2>2
<1> QED
  BY <1>6, <1>7

\* The places of a new order go up along it.
LEMMA AheadGrows ==
  ASSUME IInv, NEW X \in SUBSET Live, NEW d \in X
  PROVE  /\ Ahead(X, d) \in Nat /\ Ahead(X, d) < Cardinality(X)
         /\ \A e \in X : Before(d, e) => Ahead(X, d) < Ahead(X, e)
<1> DEFINE Set(e) == {x \in X : Before(x, e)}
<1>1. \A e \in X : Set(e) \in SUBSET X /\ IsFiniteSet(Set(e)) /\ Cardinality(Set(e)) \in Nat
  BY LiveType
<1>2. \A x, y, z \in X : /\ ~Before(x, x)
                         /\ Before(x, y) /\ Before(y, z) => Before(x, z)
  BY OrderLinear, InOrder DEF IsLinear
<1>3. IsFiniteSet(X) /\ Cardinality(X) \in Nat
  BY LiveType
<1>4. Cardinality(Set(d)) < Cardinality(X)
  <2>1. Set(d) # X
    BY <1>2
  <2> HIDE DEF Set
  <2>2. Cardinality(Set(d)) <= Cardinality(X) /\ Cardinality(X) # Cardinality(Set(d))
    BY <1>1, <1>3, <2>1, FS_Subset
  <2> QED
    BY <1>1, <1>3, <2>2
<1>5. ASSUME NEW e \in X, Before(d, e) PROVE Cardinality(Set(d)) < Cardinality(Set(e))
  <2>1. Set(d) \in SUBSET Set(e) /\ Set(d) # Set(e)
    BY <1>2, <1>5
  <2> HIDE DEF Set
  <2>2. /\ Cardinality(Set(d)) <= Cardinality(Set(e))
        /\ Cardinality(Set(e)) # Cardinality(Set(d))
    BY <1>1, <2>1, FS_Subset
  <2> QED
    BY <1>1, <2>2
<1>6. \A e \in X : Ahead(X, e) = Cardinality(Set(e))
  BY DEF Ahead
<1> HIDE DEF Set
<1> QED
  BY <1>1, <1>4, <1>5, <1>6
-----------------------------------------------------------------------------
(* A placement *)

\* The new order of the cards, with c between S and the others.
Moved(c, S) == Put(Without(Order, c), Live \ {c}, c, S)

LEMMA MovedIs ==
  ASSUME NEW c \in Live, NEW S \in SUBSET (Live \ {c})
  PROVE  /\ \A d, e \in Live \ {c} : <<d, e>> \in Moved(c, S) <=> Before(d, e)
         /\ \A d \in Live \ {c} : /\ <<d, c>> \in Moved(c, S) <=> d \in S
                                  /\ <<c, d>> \in Moved(c, S) <=> d \notin S
         /\ <<c, c>> \notin Moved(c, S)
         /\ Moved(c, S) \subseteq Live \X Live
<1>1. \A d, e \in Live : <<d, e>> \in Without(Order, c) <=> Before(d, e) /\ d # c /\ e # c
  BY InOrder DEF Without
<1>2. Without(Order, c) \subseteq Live \X Live
  BY InOrder DEF Without
<1> QED
  BY <1>1, <1>2 DEF Moved, Put

LEMMA MovedLinear ==
  ASSUME IInv, NEW c \in Live, NEW S, IsCut(Without(Order, c), Live \ {c}, S)
  PROVE  IsLinear(Moved(c, S), Live)
<1>1. IsLinear(Order, Live)
  BY OrderLinear
<1>2. \A d, e \in Live : <<d, e>> \in Without(Order, c) <=> <<d, e>> \in Order /\ d # c /\ e # c
  BY DEF Without
<1>3. Without(Order, c) \subseteq (Live \ {c}) \X (Live \ {c})
  BY InOrder DEF Without
<1>4. IsLinear(Without(Order, c), Live \ {c})
  BY <1>1, <1>2, <1>3 DEF IsLinear
<1>5. (Live \ {c}) \cup {c} = Live
  OBVIOUS
<1>6. IsLinear(Moved(c, S), (Live \ {c}) \cup {c})
  BY <1>4, PutLinear DEF Moved
<1> QED
  BY <1>5, <1>6

\* Those before the place that a caller asked for are before the others
\* (insertionIndex).
LEMMA PrecedingCut ==
  ASSUME IInv, NEW c \in Live, NEW a, NEW b,
         IF a # NoCard THEN a \in Live \ {c} ELSE b \in Live \ {c}
  PROVE  IsCut(Without(Order, c), Live \ {c}, Preceding(c, a, b))
<1>1. /\ \A x, y, z \in Live : Before(x, y) /\ Before(y, z) => Before(x, z)
      /\ \A x, y \in Live : Before(x, y) <=> x # y /\ ~Before(y, x)
  BY OrderLinear, InOrder DEF IsLinear
<1>2. ASSUME NEW x \in Preceding(c, a, b), NEW y \in (Live \ {c}) \ Preceding(c, a, b)
      PROVE Before(x, y)
  <2>1. CASE a # NoCard
    BY <1>1, <1>2, <2>1 DEF Preceding
  <2>2. CASE a = NoCard
    BY <1>1, <1>2, <2>2 DEF Preceding
  <2> QED
    BY <2>1, <2>2
<1>3. Preceding(c, a, b) \subseteq Live \ {c}
  BY DEF Preceding
<1>4. \A d, e \in Live \ {c} : Before(d, e) => <<d, e>> \in Without(Order, c)
  BY InOrder DEF Without
<1> QED
  BY <1>2, <1>3, <1>4 DEF IsCut

\* Renumbered in the new order, the cards' places go up along it (renumber).
LEMMA PlacesAscend ==
  ASSUME IInv, NEW c \in Live, NEW S \in SUBSET (Live \ {c}), NEW T, T = (Live \ {c}) \ S,
         IsCut(Without(Order, c), Live \ {c}, S)
  PROVE  /\ \A d \in Live : Place(S, T, c, d) \in Nat
         /\ \A d, e \in Live : <<d, e>> \in Moved(c, S) =>
              Place(S, T, c, d) < Place(S, T, c, e)
<1>1. Cardinality(S) \in Nat /\ Cardinality(T) \in Nat
  BY LiveType
<1>2. \A d \in S : Ahead(S, d) \in Nat /\ Ahead(S, d) < Cardinality(S)
  BY AheadGrows
<1>3. \A d \in T : Ahead(T, d) \in Nat
  BY AheadGrows
<1>4. \A d, e \in S : Before(d, e) => Ahead(S, d) < Ahead(S, e)
  BY AheadGrows
<1>5. \A d, e \in T : Before(d, e) => Ahead(T, d) < Ahead(T, e)
  BY AheadGrows
<1>6. /\ Place(S, T, c, c) = Cardinality(S) + 1
      /\ \A d \in S : Place(S, T, c, d) = Ahead(S, d) + 1
      /\ \A d \in T : Place(S, T, c, d) = Cardinality(S) + Ahead(T, d) + 2
  BY DEF Place
<1>7. \A d \in Live : Place(S, T, c, d) \in Nat
  BY <1>1, <1>2, <1>3, <1>6
<1>8. ASSUME NEW d \in Live, NEW e \in Live, <<d, e>> \in Moved(c, S)
      PROVE Place(S, T, c, d) < Place(S, T, c, e)
  <2>1. CASE d \in S /\ e \in S
    <3>1. Before(d, e)
      BY <1>8, <2>1, MovedIs
    <3> QED
      BY <1>2, <1>4, <1>6, <2>1, <3>1
  <2>2. CASE d \in T /\ e \in T
    <3>1. Ahead(T, d) < Ahead(T, e)
      BY <1>5, <1>8, <2>2, MovedIs
    <3>2. /\ Place(S, T, c, d) = Cardinality(S) + Ahead(T, d) + 2
          /\ Place(S, T, c, e) = Cardinality(S) + Ahead(T, e) + 2
          /\ Ahead(T, d) \in Nat /\ Ahead(T, e) \in Nat
      BY <1>3, <1>6, <2>2
    <3> QED
      BY <1>1, <3>1, <3>2
  <2>3. CASE d \in S /\ e \notin S
    <3>1. Place(S, T, c, d) \in Nat /\ Place(S, T, c, d) <= Cardinality(S)
      BY <1>1, <1>2, <1>6, <2>3
    <3>2. e = c \/ e \in T
      BY <2>3
    <3>3. Place(S, T, c, e) \in Nat /\ Place(S, T, c, e) > Cardinality(S)
      BY <1>1, <1>3, <1>6, <3>2
    <3> QED
      BY <1>1, <3>1, <3>3
  <2>4. CASE d = c
    <3>1. e \in T
      BY <1>8, <2>4, MovedIs
    <3> QED
      BY <1>1, <1>3, <1>6, <2>4, <3>1
  <2>5. CASE d \in T /\ e = c
    BY <1>8, <2>5, MovedIs
  <2>6. CASE d \in T /\ e \in S
    <3>1. <<e, d>> \in Order /\ <<d, e>> \in Order
      BY <1>8, <2>6, MovedIs, InOrder DEF IsCut, Without
    <3> QED
      BY <3>1, OrderLinear DEF IsLinear
  <2> QED
    BY <2>1, <2>2, <2>3, <2>4, <2>5, <2>6
<1> QED
  BY <1>7, <1>8

\* Whatever ranks the cards had, once the ranks are written the cards lie in the
\* order that was asked for.
LEMMA WriteRanksMoves ==
  ASSUME IInv, NEW p \in Procs, Current(p), WriteRanks(p),
         NEW c, c = call[p].card,
         NEW S, S = Preceding(c, call[p].beside[1], call[p].beside[2])
  PROVE  c \in Live /\ IsCut(Without(Order, c), Live \ {c}, S) /\ Live' = Live /\ Order' = Moved(c, S)
<1> DEFINE T == (Live \ {c}) \ S
           ranks == call[p].ranks
           a == call[p].beside[1]
           b == call[p].beside[2]
<1>1. /\ c \in Live /\ ranks = Ranks(S, T, c)
      /\ IF a # NoCard THEN a \in Live \ {c} ELSE b \in Live \ {c}
  BY DEF WriteRanks, At, Current
<1>2. IsCut(Without(Order, c), Live \ {c}, S) /\ S \in SUBSET (Live \ {c})
  BY <1>1, PrecedingCut DEF Preceding
<1>3. /\ \A d \in Cards : card'[d] = IF d \in DOMAIN ranks
                                      THEN [card[d] EXCEPT !.rank = ranks[d]] ELSE card[d]
      /\ older' = older
  BY DEF WriteRanks
<1>4. \A d \in Cards : /\ card'[d].is = card[d].is
                       /\ card'[d].rank = IF d \in DOMAIN ranks THEN ranks[d] ELSE card[d].rank
  BY <1>3 DEF IInv, CardRow
<1>5. Live' = Live
  BY <1>4 DEF Live
<1> HIDE DEF ranks, a, b
<1>6. IsLinear(Moved(c, S), Live)
  BY <1>1, <1>2, MovedLinear
<1>7. ASSUME Room(S, T)
      PROVE \A d, e \in Live : Before(d, e)' <=> <<d, e>> \in Moved(c, S)
  <2> DEFINE r == RankAt(S, T)
  <2>1. r \in Int /\ (\A d \in S : card[d].rank < r) /\ (\A d \in T : r < card[d].rank)
    BY <1>2, <1>7, RankBetween
  <2>2. ranks = [d \in {c} |-> r]
    BY <1>1, <1>7 DEF Ranks
  <2> HIDE DEF r
  <2>3. card'[c].rank = r /\ \A d \in Live \ {c} : card'[d].rank = card[d].rank
    BY <1>1, <1>4, <2>2, LiveType
  <2>4. \A d, e \in Live \ {c} : Before(d, e)' <=> Before(d, e)
    BY <1>3, <2>3 DEF Before
  <2>5. \A d \in Live \ {c} : (Before(d, c)' <=> d \in S) /\ (Before(c, d)' <=> d \notin S)
    BY <1>3, <2>1, <2>3, LiveType DEF Before
  <2>6. ~Before(c, c)'
    BY <1>1, <1>3, <2>1, <2>3, LiveType DEF Before, IInv, IsLinear
  <2>7. /\ \A d, e \in Live \ {c} : Before(d, e)' <=> <<d, e>> \in Moved(c, S)
        /\ \A d \in Live \ {c} : /\ Before(d, c)' <=> <<d, c>> \in Moved(c, S)
                                 /\ Before(c, d)' <=> <<c, d>> \in Moved(c, S)
        /\ Before(c, c)' <=> <<c, c>> \in Moved(c, S)
    BY <1>1, <1>2, <2>4, <2>5, <2>6, MovedIs
  <2> SUFFICES ASSUME NEW d \in Live, NEW e \in Live
               PROVE Before(d, e)' <=> <<d, e>> \in Moved(c, S)
    OBVIOUS
  <2>8. CASE d = c
    BY <2>7, <2>8
  <2>9. CASE d # c
    BY <2>7, <2>9
  <2> QED
    BY <2>8, <2>9
<1>8. ASSUME ~Room(S, T)
      PROVE \A d, e \in Live : Before(d, e)' <=> <<d, e>> \in Moved(c, S)
  <2> DEFINE P(d) == Place(S, T, c, d)
  <2>1. /\ \A d \in Live : P(d) \in Nat
        /\ \A d, e \in Live : <<d, e>> \in Moved(c, S) => P(d) < P(e)
    BY <1>1, <1>2, PlacesAscend
  <2>2. \A d \in Live : card'[d].rank = P(d) * Gap
    BY <1>1, <1>2, <1>4, <1>8, LiveType DEF Ranks, Renumbered
  <2> HIDE DEF P
  <2>3. \A i, j \in Nat : i < j => i * Gap < j * Gap
    BY RanksAreNumbers
  <2>4. \A d, e \in Live : <<d, e>> \in Moved(c, S) => card'[d].rank < card'[e].rank
    BY <2>1, <2>2, <2>3
  <2>5. \A d \in Live : card'[d].rank \in Int
    BY <2>1, <2>2, RanksAreNumbers
  <2> SUFFICES ASSUME NEW d \in Live, NEW e \in Live
               PROVE Before(d, e)' <=> <<d, e>> \in Moved(c, S)
    OBVIOUS
  <2>6. card'[d].rank \in Int /\ card'[e].rank \in Int
    BY <2>5
  <2>7. /\ <<d, e>> \in Moved(c, S) => card'[d].rank < card'[e].rank
        /\ <<e, d>> \in Moved(c, S) => card'[e].rank < card'[d].rank
    BY <2>4
  <2>8. <<d, e>> \in Moved(c, S) \/ <<e, d>> \in Moved(c, S) \/ d = e
    BY <1>6 DEF IsLinear
  <2>9. d = e => <<d, e>> \notin Moved(c, S) /\ <<d, e>> \notin older
    <3>1. d \in Born
      BY LiveType
    <3> QED
      BY <1>6, <3>1 DEF IsLinear, IInv
  <2> QED
    BY <1>3, <2>6, <2>7, <2>8, <2>9 DEF Before
<1>9. Order' = Moved(c, S)
  <2>1. /\ Order' \subseteq Live \X Live
        /\ \A d, e \in Live : <<d, e>> \in Order' <=> Before(d, e)'
    BY <1>5 DEF Order
  <2>2. \A d, e \in Live : <<d, e>> \in Order' <=> <<d, e>> \in Moved(c, S)
    <3>1. \A d, e \in Live : Before(d, e)' <=> <<d, e>> \in Moved(c, S)
      BY <1>7, <1>8, Zenon
    <3> QED
      BY <2>1, <3>1, Zenon
  <2>3. Moved(c, S) \subseteq Live \X Live
    BY <1>6 DEF IsLinear
  <2> DEFINE new == Order'  moved == Moved(c, S)
  <2>4. /\ new \subseteq Live \X Live /\ moved \subseteq Live \X Live
        /\ \A d, e \in Live : <<d, e>> \in new <=> <<d, e>> \in moved
    BY <2>1, <2>2, <2>3
  <2> HIDE DEF new, moved
  <2>5. new = moved
    BY <2>4, SamePairs
  <2> QED
    BY <2>5 DEF new, moved
<1> QED
  BY <1>1, <1>2, <1>5, <1>9
-----------------------------------------------------------------------------
(* The tables and the calls *)

LEMMA NoCallOK ==
  /\ CallOK(NoCall) /\ NoCall.at = "idle"
  /\ NoRow \in CardRow /\ NoRow.is = "none"
<1>1. NoRow \in CardRow /\ NoRow.is = "none"
  BY DEF NoRow, CardRow, TaskStatus
<1>2. NoCall.at = "idle"
  BY DEF NoCall
<1> QED
  BY <1>1, <1>2 DEF CallOK, NoCall

IsFrame(x) == x = [at |-> x.at, card |-> x.card, row |-> x.row, path |-> x.path,
                   beside |-> x.beside, ranks |-> x.ranks]

\* A step of p that leaves every other call alone, by what it makes of the tables.
LEMMA OneCallMoves ==
  ASSUME IInv, NEW p \in Procs, NEW x, Goes(p, x), CallOK(x),
         card' \in [Cards -> CardRow], \A c \in Cards : card'[c].is = card[c].is,
         UNCHANGED <<older, setting>>
  PROVE  IInv'
<1>1. /\ call' = [q \in Procs |-> call'[q]]
      /\ \A q \in Procs : call'[q] = IF q = p THEN x ELSE call[q]
  BY DEF Goes, IInv
<1>2. \A q \in Procs : CallOK(call'[q])
  BY <1>1 DEF IInv
<1>3. Born' = Born
  BY DEF Born
<1>4. SettingsParse'
  BY DEF setting, SettingsParse, IInv
<1> QED
  BY <1>1, <1>2, <1>3, <1>4 DEF IInv

LEMMA InitOK == Init => IInv /\ \A p \in Procs : Current(p)
<1> SUFFICES ASSUME Init PROVE IInv /\ \A p \in Procs : Current(p)
  OBVIOUS
<1>1. Born = {} /\ IsFiniteSet(Born) /\ IsLinear(older, Born)
  BY NoCallOK, FS_EmptySet DEF Init, Born, IsLinear
<1>2. \A p \in Procs : call[p] = NoCall
  BY DEF Init
<1>3. IInv
  BY <1>1, <1>2, NoCallOK DEF Init, IInv, SettingsParse
<1> QED
  BY <1>2, <1>3, NoCallOK DEF Current

LEMMA SettingsKeep ==
  ASSUME IInv, UNCHANGED <<card, older, call>>, SettingsParse'
  PROVE  IInv'
BY DEF IInv, Born, CallOK, NoCall, NoRow, CardRow

LEMMA CreateTaskKeeps ==
  ASSUME IInv, NEW p \in Procs, NEW c \in Cards, NEW r \in Given, CreateTask(p, c, r)
  PROVE  IInv'
<1>1. r \in Int
  BY RanksAreNumbers
<1>2. card' \in [Cards -> CardRow]
  BY <1>1 DEF CreateTask, IInv, CardRow, TaskStatus
<1>3. c \notin Born /\ Born' = Born \cup {c}
  BY DEF CreateTask, Born, IInv
<1>4. IsFiniteSet(Born')
  BY <1>3, FS_AddElement DEF IInv
<1>5. IsLinear(older', Born')
  <2>1. PICK S \in SUBSET Born : IsCut(older, Born, S) /\ older' = Put(older, Born, c, S)
    BY DEF CreateTask
  <2>2. IsLinear(Put(older, Born, c, S), Born \cup {c})
    BY <1>3, <2>1, PutLinear DEF IInv
  <2> QED
    BY <1>3, <2>1, <2>2
<1>6. SettingsParse' /\ call' = call
  BY DEF CreateTask, setting, SettingsParse, IInv
<1> QED
  BY <1>2, <1>4, <1>5, <1>6 DEF IInv

LEMMA DeleteTaskKeeps ==
  ASSUME IInv, NEW p \in Procs, NEW c \in Cards, DeleteTask(p, c)
  PROVE  IInv'
<1>1. card' \in [Cards -> CardRow]
  BY NoCallOK DEF DeleteTask, IInv, CardRow, NoRow
<1>2. Born' = Born
  BY DEF DeleteTask, Born, Live, IInv, NoRow
<1>3. SettingsParse' /\ call' = call /\ older' = older
  BY DEF DeleteTask, setting, SettingsParse, IInv
<1> QED
  BY <1>1, <1>2, <1>3 DEF IInv

\* What a placement has been asked, and that it is what it can be asked.
LEMMA PlaceTaskAsks ==
  ASSUME IInv, NEW p \in Procs, NEW c \in Cards, NEW a \in Cards \cup {NoCard},
         NEW b \in Cards \cup {NoCard}, PlaceTask(p, c, a, b)
  PROVE  /\ c \in Live /\ {a, b} \subseteq (Live \cup {NoCard}) \ {c}
         /\ IF a # NoCard THEN a \in Live \ {c} ELSE b \in Live \ {c}
         /\ Preceding(c, a, b) \in SUBSET (Live \ {c})
         /\ IsCut(Without(Order, c), Live \ {c}, Preceding(c, a, b))
<1>1. /\ c \in Live /\ {a, b} \subseteq (Live \cup {NoCard}) \ {c}
      /\ IF a # NoCard THEN a \in Live \ {c} ELSE b \in Live \ {c}
  BY LiveType, NoCardIsNone DEF PlaceTask
<1> QED
  BY <1>1, PrecedingCut DEF Preceding

LEMMA PlaceTaskKeeps ==
  ASSUME IInv, NEW p \in Procs, NEW c \in Cards, NEW a \in Cards \cup {NoCard},
         NEW b \in Cards \cup {NoCard}, PlaceTask(p, c, a, b)
  PROVE  IInv'
<1> DEFINE S == Preceding(c, a, b)
           T == (Live \ {c}) \ S
<1> PICK x : x = [NoCall EXCEPT !.at = "place", !.card = c, !.beside = <<a, b>>,
                                !.ranks = Ranks(S, T, c)]
  OBVIOUS
<1>1. c \in Live /\ S \in SUBSET (Live \ {c}) /\ IsCut(Without(Order, c), Live \ {c}, S)
  BY PlaceTaskAsks
<1>2. RankAt(S, T) \in Int /\ \A d \in Live : Place(S, T, c, d) * Gap \in Int
  <2> HIDE DEF S
  <2>1. \A d \in Live : Place(S, T, c, d) \in Nat
    BY <1>1, PlacesAscend
  <2> QED
    BY <1>1, <2>1, RankBetween, RanksAreNumbers
<1>3. /\ DOMAIN Ranks(S, T, c) \subseteq Live
      /\ Ranks(S, T, c) \in [DOMAIN Ranks(S, T, c) -> Int]
  <2>1. CASE Room(S, T)
    BY <1>1, <1>2, <2>1 DEF Ranks
  <2>2. CASE ~Room(S, T)
    BY <1>1, <1>2, <2>2 DEF Ranks, Renumbered
  <2> QED
    BY <2>1, <2>2
<1> HIDE DEF S, T
<1>4. CallOK(x)
  <2>1. IsFrame(x)
    BY DEF NoCall, IsFrame
  <2>2. x.at = "place" /\ x.ranks = Ranks(S, T, c)
    BY DEF NoCall
  <2> QED
    BY <1>3, <2>1, <2>2, LiveType DEF CallOK, IsFrame
<1>5. Goes(p, x) /\ card' = card /\ UNCHANGED <<older, setting>>
  BY DEF PlaceTask, S, T
<1> QED
  BY <1>4, <1>5, OneCallMoves DEF IInv

LEMMA WriteRanksKeeps ==
  ASSUME IInv, NEW p \in Procs, WriteRanks(p)
  PROVE  IInv'
<1>1. call[p].ranks \in [DOMAIN call[p].ranks -> Int]
  BY DEF IInv, CallOK, WriteRanks, At
<1>2. card' \in [Cards -> CardRow] /\ \A c \in Cards : card'[c].is = card[c].is
  BY <1>1 DEF WriteRanks, IInv, CardRow
<1> QED
  BY <1>2, NoCallOK, OneCallMoves DEF WriteRanks, Return

LEMMA UpdateTaskKeeps ==
  ASSUME IInv, NEW p \in Procs, NEW c \in Cards, NEW s \in TaskStatus,
         NEW r \in Sent \cup {card[c].rank}, UpdateTask(p, c, s, r)
  PROVE  IInv'
<1> DEFINE row == [is |-> "live", status |-> s, rank |-> r]
<1> PICK x : x = [NoCall EXCEPT !.at = "save", !.card = c, !.row = row]
  OBVIOUS
<1>1. r \in Int
  BY RanksAreNumbers, LiveType
<1>2. CallOK(x)
  <2>1. row \in CardRow /\ row.is = "live"
    BY <1>1 DEF CardRow
  <2> HIDE DEF row
  <2>2. IsFrame(x)
    BY DEF NoCall, IsFrame
  <2>3. x.at = "save" /\ x.card = c /\ x.row = row
    BY DEF NoCall
  <2> QED
    BY <2>1, <2>2, <2>3 DEF CallOK, IsFrame
<1> QED
  BY <1>2, OneCallMoves DEF UpdateTask, IInv

LEMMA MoveTaskKeeps ==
  ASSUME IInv, NEW p \in Procs, NEW c \in Cards, NEW name, MoveTaskToState(p, c, name)
  PROVE  IInv'
<1>1. PICK path : Goes(p, [NoCall EXCEPT !.at = "step", !.card = c, !.row = card[c], !.path = path])
  BY DEF MoveTaskToState
<1> PICK x : x = [NoCall EXCEPT !.at = "step", !.card = c, !.row = card[c], !.path = path]
  OBVIOUS
<1>2. card[c] \in CardRow /\ card[c].is = "live"
  BY DEF IInv, MoveTaskToState, Live
<1>3. CallOK(x)
  <2>1. IsFrame(x)
    BY DEF NoCall, IsFrame
  <2>2. x.at = "step" /\ x.card = c /\ x.row = card[c]
    BY DEF NoCall
  <2> QED
    BY <1>2, <2>1, <2>2 DEF CallOK, IsFrame
<1> QED
  BY <1>1, <1>3, OneCallMoves DEF MoveTaskToState, IInv

LEMMA StepKeeps ==
  ASSUME IInv, NEW p \in Procs, Step(p)
  PROVE  IInv'
<1> DEFINE c == call[p].card
           s == Head(call[p].path)
<1> PICK x : x = [call[p] EXCEPT !.at = "save", !.row.status = s, !.path = Tail(@)]
  OBVIOUS
<1>1. CallOK(call[p]) /\ call[p].at = "step"
  BY DEF IInv, Step, At
<1>2. CASE Allowed(c, s)
  <2>1. s \in TaskStatus
    BY <1>1, <1>2 DEF Allowed, IInv, CardRow, CallOK, TaskNext, TaskStatus
  <2>2. CallOK(x)
    <3>1. IsFrame(x)
      BY <1>1 DEF CallOK, IsFrame
    <3>2. x.at = "save" /\ x.card = c /\ x.row = [call[p].row EXCEPT !.status = s]
      BY <1>1 DEF CallOK
    <3>3. c \in Cards /\ x.row \in CardRow /\ x.row.is = "live"
      BY <1>1, <2>1, <3>2 DEF CallOK, CardRow
    <3> QED
      BY <3>1, <3>2, <3>3 DEF CallOK, IsFrame
  <2> QED
    BY <1>2, <2>2, OneCallMoves DEF Step, IInv
<1>3. CASE ~Allowed(c, s)
  BY <1>3, NoCallOK, OneCallMoves DEF Step, IInv
<1> QED
  BY <1>2, <1>3

LEMMA SaveKeeps ==
  ASSUME IInv, NEW p \in Procs, Save(p)
  PROVE  IInv'
<1>1. CallOK(call[p]) /\ call[p].at = "save"
  BY DEF IInv, Save, At
<1>2. card' \in [Cards -> CardRow] /\ \A c \in Cards : card'[c].is = card[c].is
  BY <1>1 DEF Save, IInv, CallOK, Live
<1>3. CallOK([call[p] EXCEPT !.at = "step"])
  BY <1>1 DEF CallOK
<1> QED
  BY <1>2, <1>3, NoCallOK, OneCallMoves DEF Save

LEMMA NextKeeps == IInv /\ [Next]_vars => IInv'
<1> SUFFICES ASSUME IInv, [Next]_vars PROVE IInv'
  OBVIOUS
<1>1. CASE UNCHANGED vars
  BY <1>1, SettingsKeep DEF vars, setting, SettingsParse, IInv
<1>2. ASSUME NEW p \in Procs, Begin(p) PROVE IInv'
  <2>1. ASSUME NEW v \in Values, DefineTaskStates(p, v) \/ OverrideTaskStates(p, v)
        PROVE IInv'
    BY <2>1, SettingsKeep DEF DefineTaskStates, OverrideTaskStates, SettingsParse, IInv
  <2>2. CASE ClearTaskStatesOverride(p)
    BY <2>2, SettingsKeep DEF ClearTaskStatesOverride, SettingsParse, IInv
  <2> QED
    BY <1>2, <2>1, <2>2, CreateTaskKeeps, DeleteTaskKeeps, PlaceTaskKeeps,
       UpdateTaskKeeps, MoveTaskKeeps DEF Begin
<1>3. ASSUME NEW p \in Procs, Run(p) PROVE IInv'
  BY <1>3, WriteRanksKeeps, StepKeeps, SaveKeeps DEF Run
<1> QED
  BY <1>1, <1>2, <1>3 DEF Next

\* The tables and the calls are right in every state: rows and ranks keep their
\* types, the ages are a linear order, and a setting that is stored is a list of
\* task states (ParseTaskStates).
THEOREM Invariant == Spec => []IInv
<1>1. Init => IInv
  BY InitOK
<1> QED
  BY <1>1, NextKeeps, PTL DEF Spec
-----------------------------------------------------------------------------
(* A card's own state *)

\* The place of a status in the default states: its state, then its place there.
Slot(s) == CASE s = "pending" -> 11
             [] s = "in_progress" -> 21 [] s = "split" -> 22
             [] s = "blocked" -> 31 [] s = "awaiting-direction" -> 32 [] s = "failed" -> 33
             [] s = "completed" -> 41
             [] s = "cancelled" -> 51
             [] OTHER -> 0

LEMMA DefaultParses == Parses(DefaultTaskStates)
<1> DEFINE states == DefaultTaskStates
<1>1. Len(states) = 5 /\ states # <<>>
  BY DEF DefaultTaskStates
<1>2. \A i \in 1 .. 5 : i = 1 \/ i = 2 \/ i = 3 \/ i = 4 \/ i = 5
  OBVIOUS
<1>3. /\ states[1].name = "To do" /\ states[2].name = "Doing" /\ states[3].name = "Waiting"
      /\ states[4].name = "Done" /\ states[5].name = "Cancelled"
  BY DEF DefaultTaskStates
<1>4. /\ states[1].statuses = <<"pending">> /\ states[2].statuses = <<"in_progress", "split">>
      /\ states[3].statuses = <<"blocked", "awaiting-direction", "failed">>
      /\ states[4].statuses = <<"completed">> /\ states[5].statuses = <<"cancelled">>
  BY DEF DefaultTaskStates
<1> HIDE DEF states
<1>5. \A i, j \in 1 .. Len(states) : states[i].name = states[j].name => i = j
  BY <1>1, <1>2, <1>3
<1>6. ASSUME NEW i \in 1 .. Len(states), NEW k \in 1 .. Len(states[i].statuses)
      PROVE  /\ Slot(states[i].statuses[k]) = 10 * i + k /\ k \in 1 .. 3
             /\ states[i].statuses[k] \in TaskStatus
  <2>1. CASE i = 1
    <3> k \in 1 .. 1
      BY <1>4, <1>6, <2>1
    <3>2. k = 1
      OBVIOUS
    <3>3. states[i].statuses[k] = "pending"
      BY <1>4, <2>1, <3>2
    <3> QED
      BY <2>1, <3>2, <3>3 DEF Slot, TaskStatus
  <2>2. CASE i = 2
    <3> k \in 1 .. 2
      BY <1>4, <1>6, <2>2
    <3>1. k = 1 \/ k = 2
      OBVIOUS
    <3> QED
      BY <1>4, <2>2, <3>1 DEF Slot, TaskStatus
  <2>3. CASE i = 3
    <3> k \in 1 .. 3
      BY <1>4, <1>6, <2>3
    <3>1. k = 1 \/ k = 2 \/ k = 3
      OBVIOUS
    <3> QED
      BY <1>4, <2>3, <3>1 DEF Slot, TaskStatus
  <2>4. CASE i = 4
    <3> k \in 1 .. 1
      BY <1>4, <1>6, <2>4
    <3>2. k = 1
      OBVIOUS
    <3>3. states[i].statuses[k] = "completed"
      BY <1>4, <2>4, <3>2
    <3> QED
      BY <2>4, <3>2, <3>3 DEF Slot, TaskStatus
  <2>5. CASE i = 5
    <3> k \in 1 .. 1
      BY <1>4, <1>6, <2>5
    <3>2. k = 1
      OBVIOUS
    <3>3. states[i].statuses[k] = "cancelled"
      BY <1>4, <2>5, <3>2
    <3> QED
      BY <2>5, <3>2, <3>3 DEF Slot, TaskStatus
  <2> QED
    BY <1>1, <1>2, <2>1, <2>2, <2>3, <2>4, <2>5
<1>7. OnceMapped(states)
  <2> SUFFICES ASSUME NEW i \in 1 .. Len(states), NEW j \in 1 .. Len(states),
                      NEW k \in 1 .. Len(states[i].statuses),
                      NEW l \in 1 .. Len(states[j].statuses),
                      states[i].statuses[k] = states[j].statuses[l]
               PROVE i = j /\ k = l
    BY DEF OnceMapped
  <2>1. 10 * i + k = 10 * j + l /\ k \in 1 .. 3 /\ l \in 1 .. 3
    BY <1>6
  <2> QED
    BY <1>1, <2>1
<1>8. \A i \in 1 .. Len(states) : ToSet(states[i].statuses) \subseteq TaskStatus
  <2>1. \A i \in 1 .. Len(states) : DOMAIN states[i].statuses = 1 .. Len(states[i].statuses)
    BY <1>1, <1>2, <1>4
  <2> QED
    BY <1>6, <2>1 DEF ToSet
<1> QED
  BY <1>1, <1>5, <1>7, <1>8 DEF Parses, states

\* Whatever was stored, the states in force are a list of task states.
LEMMA StatesParse == IInv => Parses(TaskStates)
BY DefaultParses DEF IInv, SettingsParse, TaskStates

\* To move a card to the state it reads as moves it nowhere: the states in force
\* name the state of a status once (ParseTaskStates, StateNameFor, findTaskState).
THEOREM OwnState == Spec => []OwnStateIsHere
<1>1. IInv => OwnStateIsHere
  <2> SUFFICES ASSUME IInv, NEW c \in Live, NEW M, M = Mapping(TaskStates, card[c].status), M # {}
               PROVE /\ Named(TaskStates, TaskStates[First(M)].name) = M
                     /\ Contains(TaskStates[First(Named(TaskStates, TaskStates[First(M)].name))].statuses,
                                 card[c].status)
    BY DEF OwnStateIsHere
  <2> DEFINE states == TaskStates  status == card[c].status
  <2>1. Parses(states)
    BY StatesParse
  <2> HIDE DEF states, status
  <2>2. PICK i \in 1 .. Len(states) : i \in M /\ Contains(states[i].statuses, status)
    BY DEF Mapping, states, status
  <2>3. \A j \in 1 .. Len(states) : Contains(states[j].statuses, status) => j = i
    BY <2>1, <2>2 DEF Parses, OnceMapped, Contains
  <2>4. M = {i} /\ i \in Int
    BY <2>2, <2>3 DEF Mapping, states, status
  <2>5. First({i}) = i
    BY <2>4 DEF First
  <2>6. Named(states, states[i].name) = {i}
    BY <2>1 DEF Parses, Named
  <2> QED
    BY <2>2, <2>4, <2>5, <2>6 DEF states, status
<1> QED
  BY <1>1, Invariant, PTL
-----------------------------------------------------------------------------
(* One caller's placements *)

\* What has been read of the cards is as it was while they are.
LEMMA SameCards ==
  ASSUME UNCHANGED <<card, older>>
  PROVE  /\ Live' = Live /\ Order' = Order
         /\ \A c, d : Before(c, d)' <=> Before(c, d)
         /\ \A c, a, b : Preceding(c, a, b)' = Preceding(c, a, b)
         /\ \A S, T, c : Ranks(S, T, c)' = Ranks(S, T, c)
<1>1. Live' = Live
  BY DEF Live
<1>2. \A c, d : Before(c, d)' <=> Before(c, d)
  BY DEF Before
<1>3. Order' = Order
  BY DEF Live, Order, Before
<1>4. \A c, a, b : Preceding(c, a, b)' = Preceding(c, a, b)
  BY <1>1, <1>2 DEF Preceding
<1>5. ASSUME NEW S, NEW T, NEW c PROVE Ranks(S, T, c)' = Ranks(S, T, c)
  BY DEF Before, Top, Bottom, Ahead, Room, RankAt, Renumbered, Ranks, Place
<1> QED
  BY <1>1, <1>2, <1>3, <1>4, <1>5

LEMMA IdleCurrent ==
  ASSUME NEW p \in Procs, call[p].at \notin {"place", "step", "save"}
  PROVE  Current(p)
BY DEF Current

LEMMA PlaceTaskCurrent ==
  ASSUME IInv, NEW p \in Procs, NEW c \in Cards, NEW a \in Cards \cup {NoCard},
         NEW b \in Cards \cup {NoCard}, PlaceTask(p, c, a, b)
  PROVE  Current(p)'
<1> DEFINE S == Preceding(c, a, b)
           T == (Live \ {c}) \ S
<1>1. /\ call'[p].at = "place" /\ call'[p].card = c /\ call'[p].beside = <<a, b>>
      /\ call'[p].ranks = Ranks(S, T, c)
  BY DEF PlaceTask, Goes, IInv, NoCall
<1>2. /\ c \in Live /\ {a, b} \subseteq (Live \cup {NoCard}) \ {c}
      /\ a # NoCard \/ b # NoCard
      /\ a # NoCard /\ b # NoCard => Before(a, b)
  BY PlaceTaskAsks DEF PlaceTask
<1>3. UNCHANGED <<card, older>>
  BY DEF PlaceTask
<1>4. call'[p].beside[1] = a /\ call'[p].beside[2] = b
  BY <1>1
<1> QED
  BY <1>1, <1>2, <1>3, <1>4, SameCards DEF Current

LEMMA CurrentKept ==
  ASSUME IInv, NEW p \in Procs, Current(p), Sent = {}, Begin(p) \/ Run(p)
  PROVE  Current(p)'
<1>1. ASSUME call' = call, At(p, "idle") PROVE Current(p)'
  BY <1>1 DEF Current, At
<1>2. \A v : DefineTaskStates(p, v) \/ OverrideTaskStates(p, v) \/ ClearTaskStatesOverride(p)
               => Current(p)'
  BY <1>1 DEF DefineTaskStates, OverrideTaskStates, ClearTaskStatesOverride
<1>3. \A c, r : CreateTask(p, c, r) \/ DeleteTask(p, c) => Current(p)'
  BY <1>1 DEF CreateTask, DeleteTask
<1>4. ASSUME NEW c \in Cards, NEW s \in TaskStatus, NEW r \in Sent \cup {card[c].rank},
             UpdateTask(p, c, s, r)
      PROVE Current(p)'
  <2>1. call'[p].at = "save" /\ call'[p].card = c /\ call'[p].row.rank = card[c].rank
    BY <1>4 DEF UpdateTask, Goes, IInv, NoCall
  <2>2. c \in Live /\ UNCHANGED <<card, older>>
    BY <1>4 DEF UpdateTask, Allowed
  <2> QED
    BY <2>1, <2>2, SameCards DEF Current
<1>5. ASSUME NEW c \in Cards, NEW name, MoveTaskToState(p, c, name)
      PROVE Current(p)'
  <2>1. call'[p].at = "step" /\ call'[p].card = c /\ call'[p].row = card[c]
    BY <1>5 DEF MoveTaskToState, Goes, IInv, NoCall
  <2>2. c \in Live /\ UNCHANGED <<card, older>>
    BY <1>5 DEF MoveTaskToState
  <2> QED
    BY <2>1, <2>2, SameCards DEF Current
<1>6. CASE WriteRanks(p)
  <2>1. call'[p].at = "idle"
    BY <1>6, NoCallOK DEF WriteRanks, Return, Goes, IInv
  <2> QED
    BY <2>1 DEF Current
<1>7. CASE Step(p)
  <2>1. /\ call[p].at = "step" /\ IsFrame(call[p]) /\ call[p].row \in CardRow
        /\ UNCHANGED <<card, older>>
    BY <1>7 DEF Step, At, IInv, CallOK, IsFrame
  <2>2. \/ call'[p].at = "idle"
        \/ /\ call'[p].at = "save" /\ call'[p].card = call[p].card
           /\ call'[p].row.rank = call[p].row.rank
    BY <1>7, <2>1, NoCallOK DEF Step, Goes, IInv, IsFrame, CardRow
  <2> QED
    BY <2>1, <2>2, SameCards DEF Current
<1>8. CASE Save(p)
  <2>1. /\ call[p].at = "save" /\ IsFrame(call[p]) /\ call[p].row \in CardRow
        /\ call[p].row.is = "live" /\ call[p].card \in Cards /\ call[p].card \in Live
    BY <1>8 DEF Save, At, IInv, CallOK, IsFrame, Current
  <2>2. \/ call'[p].at = "idle"
        \/ /\ call'[p].at = "step" /\ call'[p].card = call[p].card
           /\ call'[p].row = call[p].row
    BY <1>8, <2>1, NoCallOK DEF Save, Goes, IInv, IsFrame
  <2>3. card'[call[p].card] = call[p].row /\ call[p].card \in Live'
    BY <1>8, <2>1 DEF Save, IInv, Live
  <2> QED
    BY <2>2, <2>3 DEF Current
<1> QED
  BY <1>2, <1>3, <1>4, <1>5, <1>6, <1>7, <1>8, PlaceTaskCurrent DEF Begin, Run
-----------------------------------------------------------------------------
(* The list of cards *)

OneCaller == \A p, q \in Procs : p = q

LEMMA AskedIs ==
  ASSUME OneCaller, NEW p \in Procs
  PROVE  /\ Asked = IF At(p, "place")
                      THEN <<call[p].card, call[p].beside[1], call[p].beside[2]>>
                      ELSE <<NoCard, NoCard, NoCard>>
         /\ Asked' = IF At(p, "place")'
                       THEN <<call'[p].card, call'[p].beside[1], call'[p].beside[2]>>
                       ELSE <<NoCard, NoCard, NoCard>>
<1>1. \A P \in SUBSET Procs : p \in P => P = {p} /\ (CHOOSE q \in P : TRUE) = p
  BY DEF OneCaller
<1>2. \A P \in SUBSET Procs : p \notin P => P = {}
  BY DEF OneCaller
<1> DEFINE now == {q \in Procs : At(q, "place")}
           next == {q \in Procs : At(q, "place")'}
<1>3. Asked = IF At(p, "place")
                THEN <<call[p].card, call[p].beside[1], call[p].beside[2]>>
                ELSE <<NoCard, NoCard, NoCard>>
  <2>1. now \in SUBSET Procs /\ (p \in now <=> At(p, "place"))
    OBVIOUS
  <2>2. Asked = IF now = {} THEN <<NoCard, NoCard, NoCard>>
                ELSE <<call[CHOOSE q \in now : TRUE].card, call[CHOOSE q \in now : TRUE].beside[1],
                       call[CHOOSE q \in now : TRUE].beside[2]>>
    BY DEF Asked
  <2> HIDE DEF now
  <2> QED
    BY <1>1, <1>2, <2>1, <2>2
<1>4. Asked' = IF At(p, "place")'
                 THEN <<call'[p].card, call'[p].beside[1], call'[p].beside[2]>>
                 ELSE <<NoCard, NoCard, NoCard>>
  <2>1. next \in SUBSET Procs /\ (p \in next <=> At(p, "place")')
    OBVIOUS
  <2>2. Asked' = IF next = {} THEN <<NoCard, NoCard, NoCard>>
                 ELSE <<call'[CHOOSE q \in next : TRUE].card,
                        call'[CHOOSE q \in next : TRUE].beside[1],
                        call'[CHOOSE q \in next : TRUE].beside[2]>>
    BY DEF Asked
  <2> HIDE DEF next
  <2> QED
    BY <1>1, <1>2, <2>1, <2>2
<1> QED
  BY <1>3, <1>4

LEMMA NextLinear == IInv' => IsLinear(Order', Live')
<1>1. (IInv => IsLinear(Order, Live))'
  BY OrderLinear, PTL
<1> QED
  BY <1>1 DEF IsLinear

LEMMA ListOrders ==
  /\ \A order, X, S : List!IsCut(order, X, S) <=> IsCut(order, X, S)
  /\ \A order, X, x, S : List!Put(order, X, x, S) = Put(order, X, x, S)
  /\ \A order, x : List!Without(order, x) = Without(order, x)
BY DEF List!IsCut, IsCut, List!Put, Put, List!Without, Without

LEMMA CreateTaskAdds ==
  ASSUME IInv, IInv', NEW p \in Procs, NEW c \in Cards, NEW r \in Given, CreateTask(p, c, r)
  PROVE  List!Add(c)
<1>1. c \notin Born /\ c \notin Live /\ Live' = Live \cup {c}
  BY DEF CreateTask, Born, Live, IInv
<1>2. \A d \in Live : card'[d] = card[d]
  BY <1>1, LiveType DEF CreateTask, IInv
<1>3. \A d, e \in Live : <<d, e>> \in older' <=> <<d, e>> \in older
  <2>1. PICK S \in SUBSET Born : older' = Put(older, Born, c, S)
    BY DEF CreateTask
  <2> QED
    BY <1>1, <2>1 DEF Put
<1>4. \A d, e \in Live : <<d, e>> \in Order' <=> <<d, e>> \in Order
  BY <1>1, <1>2, <1>3 DEF Order, Before
<1> DEFINE S == {d \in Live : <<d, c>> \in Order'}
           new == Order'
<1>5. IsLinear(new, Live \cup {c})
  BY <1>1, NextLinear
<1>6. IsCut(Order, Live, S) /\ new = Put(Order, Live, c, S)
  <2>1. S = {d \in Live : <<d, c>> \in new} /\ Order \subseteq Live \X Live
    BY InOrder
  <2>2. \A d, e \in Live : <<d, e>> \in new <=> <<d, e>> \in Order
    BY <1>4
  <2> HIDE DEF new, S
  <2> QED
    BY <1>1, <1>5, <2>1, <2>2, PutInto
<1>7. Asked' = Asked
  BY DEF CreateTask, Asked, At
<1> HIDE DEF S
<1>8. S \in SUBSET Live
  BY DEF S
<1> QED
  BY <1>1, <1>6, <1>7, <1>8, ListOrders DEF List!Add, new

LEMMA DeleteTaskDrops ==
  ASSUME IInv, NEW p \in Procs, NEW c \in Cards, DeleteTask(p, c)
  PROVE  List!Drop(c)
<1>1. c \in Live /\ Live' = Live \ {c} /\ \A d \in Live' : card'[d] = card[d]
  BY NoCallOK DEF DeleteTask, Live, IInv, NoRow
<1>2. older' = older
  BY DEF DeleteTask
<1>3. \A d, e \in Live' : Before(d, e)' <=> Before(d, e)
  BY <1>1, <1>2 DEF Before
<1>4. \A d, e \in Live : <<d, e>> \in Order' <=> <<d, e>> \in Without(Order, c)
  BY <1>1, <1>3 DEF Order, Without
<1> DEFINE new == Order'  old == Without(Order, c)
<1>5. /\ new \subseteq Live \X Live /\ old \subseteq Live \X Live
      /\ \A d, e \in Live : <<d, e>> \in new <=> <<d, e>> \in old
  BY <1>1, <1>4, InOrder DEF Order, Without
<1>6. new = old
  <2> HIDE DEF new, old
  <2> QED
    BY <1>5, SamePairs
<1>7. Asked' = Asked
  BY DEF DeleteTask, Asked, At
<1> QED
  BY <1>1, <1>6, <1>7, ListOrders DEF List!Drop

LEMMA PlaceTaskAsked ==
  ASSUME OneCaller, IInv, NEW p \in Procs, NEW c \in Cards, NEW a \in Cards \cup {NoCard},
         NEW b \in Cards \cup {NoCard}, PlaceTask(p, c, a, b)
  PROVE  List!Ask(c, a, b)
<1>1. /\ call'[p].at = "place" /\ call'[p].card = c
      /\ call'[p].beside = <<a, b>> /\ call[p].at = "idle"
  BY DEF PlaceTask, Goes, IInv, NoCall, At
<1>2. Asked = <<NoCard, NoCard, NoCard>> /\ Asked' = <<c, a, b>>
  BY <1>1, AskedIs DEF At
<1>3. Live' = Live /\ Order' = Order
  BY SameCards DEF PlaceTask
<1>4. /\ c \in Live /\ {a, b} \subseteq (Live \cup {NoCard}) \ {c}
      /\ a # NoCard \/ b # NoCard
      /\ a # NoCard /\ b # NoCard => Before(a, b)
  BY PlaceTaskAsks DEF PlaceTask
<1>5. a # NoCard /\ b # NoCard => <<a, b>> \in Order
  BY <1>4, InOrder
<1> QED
  BY <1>2, <1>3, <1>4, <1>5 DEF List!Ask, List!NoAsk

LEMMA WriteRanksPlaces ==
  ASSUME OneCaller, IInv, NEW p \in Procs, Current(p), WriteRanks(p)
  PROVE  List!Place
<1> DEFINE c == call[p].card  a == call[p].beside[1]  b == call[p].beside[2]
           S == Preceding(c, a, b)
<1>1. Live' = Live /\ Order' = Moved(c, S)
  BY WriteRanksMoves
<1>2. /\ c \in Live /\ {a, b} \subseteq (Live \cup {NoCard}) \ {c}
      /\ a # NoCard \/ b # NoCard
  BY DEF WriteRanks, At, Current
<1>3. Asked = <<c, a, b>> /\ Asked' = <<NoCard, NoCard, NoCard>>
  <2>1. At(p, "place") /\ call'[p].at = "idle"
    BY NoCallOK DEF WriteRanks, Return, Goes, IInv
  <2> QED
    BY <2>1, AskedIs DEF At
<1>4. S = IF a # NoCard THEN {d \in Live \ {c} : d = a \/ <<d, a>> \in Order}
                        ELSE {d \in Live \ {c} : <<d, b>> \in Order}
  BY <1>2, InOrder DEF Preceding
<1>5. Asked # List!NoAsk
  BY <1>2, <1>3, LiveType, NoCardIsNone DEF List!NoAsk
<1>6. Asked[1] = c /\ Asked[2] = a /\ Asked[3] = b
  BY <1>3
<1> HIDE DEF c, a, b, S
<1> QED
  BY <1>1, <1>3, <1>4, <1>5, <1>6, ListOrders DEF List!Place, List!NoAsk, Moved

\* The rest changes no rank and asks for no placement.
LEMMA OthersStutter ==
  ASSUME OneCaller, NEW p \in Procs,
         call' = call \/ (~At(p, "place") /\ ~At(p, "place")'),
         older' = older, Live' = Live, \A c \in Live : card'[c].rank = card[c].rank
  PROVE  UNCHANGED <<Live, Order, Asked>>
<1>1. \A c, d \in Live : Before(c, d)' <=> Before(c, d)
  BY DEF Before
<1>2. Order' = Order
  BY <1>1 DEF Order
<1>3. Asked' = Asked
  BY AskedIs DEF At
<1> QED
  BY <1>2, <1>3

LEMMA InitList == Init => List!Init
<1> SUFFICES ASSUME Init PROVE List!Init
  OBVIOUS
<1>1. Live = {} /\ Order = {}
  BY NoCallOK DEF Init, Live, Order
<1>2. Asked = <<NoCard, NoCard, NoCard>>
  BY NoCallOK DEF Init, Asked, At
<1> QED
  BY <1>1, <1>2 DEF List!Init, List!NoAsk

LEMMA StepsOfList ==
  ASSUME OneCaller, Sent = {}, IInv, IInv', NEW p \in Procs, Current(p), Begin(p) \/ Run(p)
  PROVE  List!Next \/ UNCHANGED <<Live, Order, Asked>>
<1>1. ASSUME NEW v, \/ DefineTaskStates(p, v) \/ OverrideTaskStates(p, v)
                    \/ ClearTaskStatesOverride(p)
      PROVE UNCHANGED <<Live, Order, Asked>>
  <2>1. UNCHANGED <<card, older, call>>
    BY <1>1 DEF DefineTaskStates, OverrideTaskStates, ClearTaskStatesOverride
  <2> QED
    BY <2>1, SameCards, OthersStutter DEF At
<1>2. ASSUME NEW c \in Cards, NEW s \in TaskStatus, NEW r \in Sent \cup {card[c].rank},
             UpdateTask(p, c, s, r)
      PROVE UNCHANGED <<Live, Order, Asked>>
  <2>1. ~At(p, "place") /\ ~At(p, "place")' /\ UNCHANGED <<card, older>>
    BY <1>2 DEF UpdateTask, Goes, IInv, NoCall, At
  <2> QED
    BY <2>1, SameCards, OthersStutter
<1>3. ASSUME NEW c \in Cards, NEW name, MoveTaskToState(p, c, name)
      PROVE UNCHANGED <<Live, Order, Asked>>
  <2>1. ~At(p, "place") /\ ~At(p, "place")' /\ UNCHANGED <<card, older>>
    BY <1>3 DEF MoveTaskToState, Goes, IInv, NoCall, At
  <2> QED
    BY <2>1, SameCards, OthersStutter
<1>4. CASE Step(p)
  <2>1. call[p].at = "step" /\ IsFrame(call[p]) /\ UNCHANGED <<card, older>>
    BY <1>4 DEF Step, At, IInv, CallOK, IsFrame
  <2>2. ~At(p, "place") /\ ~At(p, "place")'
    BY <1>4, <2>1, NoCallOK DEF Step, Goes, IInv, IsFrame, At
  <2> QED
    BY <2>1, <2>2, SameCards, OthersStutter
<1>5. CASE Save(p)
  <2>1. /\ call[p].at = "save" /\ IsFrame(call[p]) /\ call[p].row.is = "live"
        /\ call[p].card \in Live /\ call[p].row.rank = card[call[p].card].rank
    BY <1>5 DEF Save, At, IInv, CallOK, IsFrame, Current
  <2>2. ~At(p, "place") /\ ~At(p, "place")'
    BY <1>5, <2>1, NoCallOK DEF Save, Goes, IInv, IsFrame, At
  <2>3. older' = older /\ card' = [card EXCEPT ![call[p].card] = call[p].row]
    BY <1>5, <2>1 DEF Save
  <2>4. Live' = Live /\ \A c \in Live : card'[c].rank = card[c].rank
    BY <2>1, <2>3 DEF Live, IInv
  <2> QED
    BY <2>2, <2>3, <2>4, OthersStutter
<1>6. \A c \in Cards : (\E r \in Given : CreateTask(p, c, r)) \/ DeleteTask(p, c) => List!Next
  BY CreateTaskAdds, DeleteTaskDrops DEF List!Next
<1>7. \A c \in Cards, a, b \in Cards \cup {NoCard} : PlaceTask(p, c, a, b) => List!Next
  BY PlaceTaskAsked DEF List!Next
<1>8. WriteRanks(p) => List!Next
  BY WriteRanksPlaces DEF List!Next
<1> QED
  BY <1>1, <1>2, <1>3, <1>4, <1>5, <1>6, <1>7, <1>8 DEF Begin, Run

\* One caller's placements keep the order of the list: a card goes directly beside
\* the card that was named and the others stay as they were, whatever ranks there
\* were, however little room is between them, and whatever is created, deleted,
\* moved and updated in between by rows that carry the rank they were read with
\* (PlaceTask, insertionIndex, rankAt, renumber).
THEOREM ListKept ==
  ASSUME OneCaller, Sent = {}
  PROVE  Spec => KeepsCardList
<1> DEFINE AllCurrent == \A p \in Procs : Current(p)
<1>1. Init => IInv /\ AllCurrent /\ List!Init
  BY InitOK, InitList
<1>2. IInv /\ AllCurrent /\ [Next]_vars => AllCurrent'
  <2> SUFFICES ASSUME IInv, AllCurrent, [Next]_vars, NEW p \in Procs PROVE Current(p)'
    OBVIOUS
  <2>1. CASE UNCHANGED vars
    BY <2>1, SameCards DEF vars, Current
  <2>2. ASSUME NEW q \in Procs, Begin(q) \/ Run(q) PROVE Current(p)'
    BY <2>2, CurrentKept DEF OneCaller
  <2> QED
    BY <2>1, <2>2 DEF Next
<1>3. IInv /\ IInv' /\ AllCurrent /\ [Next]_vars => [List!Next]_<<Live, Order, Asked>>
  <2> SUFFICES ASSUME IInv, IInv', AllCurrent, [Next]_vars
               PROVE List!Next \/ UNCHANGED <<Live, Order, Asked>>
    OBVIOUS
  <2>1. CASE UNCHANGED vars
    <3>1. Live' = Live /\ Order' = Order
      BY <2>1, SameCards DEF vars
    <3>2. Asked' = Asked
      BY <2>1 DEF vars, Asked, At
    <3> QED
      BY <3>1, <3>2
  <2>2. ASSUME NEW p \in Procs, Begin(p) \/ Run(p)
        PROVE List!Next \/ UNCHANGED <<Live, Order, Asked>>
    BY <2>2, StepsOfList
  <2> QED
    BY <2>1, <2>2 DEF Next
<1> QED
  BY <1>1, <1>2, <1>3, Invariant, PTL DEF Spec, KeepsCardList, List!Spec
=============================================================================
