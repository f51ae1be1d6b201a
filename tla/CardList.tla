------------------------------ MODULE CardList ------------------------------
(***************************************************************************)
(* What a board promises of the order of its cards: a card comes in        *)
(* somewhere, leaves, or goes directly beside the card that was named; all *)
(* others stay in their order.                                             *)
(***************************************************************************)
EXTENDS Ordering

CONSTANTS Cards, NoCard

VARIABLES
  cards,  \* the cards on the board
  order,  \* which comes before which
  asked   \* the placement under way: the card, and those it goes after and before

NoAsk == <<NoCard, NoCard, NoCard>>

Init == cards = {} /\ order = {} /\ asked = NoAsk

Add(c) ==
  /\ c \notin cards /\ cards' = cards \cup {c}
  /\ \E S \in SUBSET cards : IsCut(order, cards, S) /\ order' = Put(order, cards, c, S)
  /\ UNCHANGED asked

Drop(c) ==
  /\ c \in cards /\ cards' = cards \ {c}
  /\ order' = Without(order, c)
  /\ UNCHANGED asked

\* The card goes after one and before another, or beside one of them.
Ask(c, after, before) ==
  /\ asked = NoAsk /\ asked' = <<c, after, before>>
  /\ c \in cards /\ {after, before} \subseteq (cards \cup {NoCard}) \ {c}
  /\ after # NoCard \/ before # NoCard
  /\ after # NoCard /\ before # NoCard => <<after, before>> \in order
  /\ UNCHANGED <<cards, order>>

\* Directly after the one, or else directly before the other.
Place ==
  /\ asked # NoAsk /\ asked' = NoAsk
  /\ LET c == asked[1]
         others == cards \ {c}
         first == IF asked[2] # NoCard
                    THEN {d \in others : d = asked[2] \/ <<d, asked[2]>> \in order}
                    ELSE {d \in others : <<d, asked[3]>> \in order}
     IN  order' = Put(Without(order, c), others, c, first)
  /\ UNCHANGED cards

Next == \/ \E c \in Cards : Add(c) \/ Drop(c)
        \/ \E c \in Cards, a, b \in Cards \cup {NoCard} : Ask(c, a, b)
        \/ Place

Spec == Init /\ [][Next]_<<cards, order, asked>>
=============================================================================
