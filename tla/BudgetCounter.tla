---------------------------- MODULE BudgetCounter ----------------------------
(***************************************************************************)
(* What a failure budget promises: each child is charged to a root run at  *)
(* most once, in one indivisible step, and no charge is ever taken back.   *)
(***************************************************************************)
EXTENDS Naturals

CONSTANTS Runs, Children

VARIABLES
  used,    \* the charges of each run
  counted  \* the children already charged to it

Init ==
  /\ used    = [r \in Runs |-> 0]
  /\ counted = [r \in Runs |-> {}]

Charge(r, c) ==
  /\ c \notin counted[r]
  /\ used'    = [used EXCEPT ![r] = @ + 1]
  /\ counted' = [counted EXCEPT ![r] = @ \cup {c}]

Next == \E r \in Runs, c \in Children : Charge(r, c)

Spec == Init /\ [][Next]_<<used, counted>>
=============================================================================
