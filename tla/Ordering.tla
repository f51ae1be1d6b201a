------------------------------ MODULE Ordering ------------------------------
(***************************************************************************)
(* Linear orders of a set, as sets of pairs: what comes before what.       *)
(***************************************************************************)

IsLinear(order, X) ==
  /\ order \subseteq X \X X
  /\ \A x, y, z \in X : <<x, y>> \in order /\ <<y, z>> \in order => <<x, z>> \in order
  /\ \A x, y \in X : <<x, y>> \in order <=> x # y /\ <<y, x>> \notin order

\* S is the members of X before some place in the order.
IsCut(order, X, S) ==
  S \subseteq X /\ \A x \in S, y \in X \ S : <<x, y>> \in order

\* The order with x put in between S and the others.
Put(order, X, x, S) == order \cup (S \X {x}) \cup ({x} \X (X \ S))

\* The order of the others.
Without(order, x) == {e \in order : x \notin {e[1], e[2]}}
=============================================================================
