------------------------------ MODULE MCBoard ------------------------------
(***************************************************************************)
(* Small boards.  In the scenario "order" one caller places three cards,   *)
(* in "states" one moves one card and changes the task states; in "two"    *)
(* two callers move and place two cards.                                   *)
(***************************************************************************)
EXTENDS Board

CONSTANTS p1, p2, c1, c2, c3,
  MaxRank,   \* bound of the ranks
  Scenarios  \* the scenarios of a run

VARIABLE scenario

\* A list that maps a status twice, which is refused; one that leaves statuses out,
\* and one whose state has several on different ways.
MCValues == {
  << [name |-> "Open", statuses |-> <<"pending", "failed">>],
     [name |-> "Shut", statuses |-> <<"failed", "completed">>] >>,
  << [name |-> "Open", statuses |-> <<"split", "pending">>],
     [name |-> "Shut", statuses |-> <<"cancelled", "failed", "completed">>] >>,
  << [name |-> "Late", statuses |-> <<"completed", "split", "failed">>],
     [name |-> "Free", statuses |-> <<"awaiting-direction", "blocked">>] >>}

MCInit == Init /\ scenario \in Scenarios

\* One caller creates, deletes and places cards.  Their names are in the order of
\* created_at and id, so that no two states differ in the names alone.
Placing ==
  /\ Begin(p1) \/ Run(p1)
  /\ older' \subseteq {<<c1, c2>>, <<c1, c3>>, <<c2, c3>>}
  /\ call'[p1].at \in {"idle", "place"}
  /\ setting' = setting

\* One caller moves one card and changes the states.
Moving ==
  /\ Begin(p1) \/ Run(p1)
  /\ Cardinality(Born') <= 1 /\ \A c \in Cards : card'[c].rank = 0
  /\ call'[p1].row.rank = 0

\* Several callers move, update and place two cards.
Mixing ==
  /\ \E p \in Procs : Begin(p) \/ Run(p)
  /\ card'[c3] = NoRow
  /\ setting' = setting

MCNext ==
  /\ CASE scenario = "order"  -> Placing
       [] scenario = "states" -> Moving
       [] scenario = "two"    -> Mixing
  /\ \A c \in Cards : card'[c].rank \in -MaxRank .. MaxRank
  /\ UNCHANGED scenario

MCSpec == MCInit /\ [][MCNext]_<<vars, scenario>>
=============================================================================
