-------------------------- MODULE MCFailureBudget --------------------------
(***************************************************************************)
(* Three scenarios of FailureBudget, chosen at the start: three callers    *)
(* that race for one root run's budget, one caller that builds a lineage   *)
(* of three runs with every operation, and two callers that set different  *)
(* budgets on two runs while one may become the other's child.             *)
(***************************************************************************)
EXTENDS FailureBudget

CONSTANTS p1, p2, p3, r1, r2, r3, c1, c2, c3

VARIABLE scenario

Race ==
  /\ \A r \in Runs \ {r1} : ~run[r].opened
  /\ \A p \in Procs : /\ id[p] \in {r1, NoRun}
                      /\ pc[p] \notin {"mint", "save"}
                      /\ arg[p].budget \in {0, 1}

Lineage ==
  /\ \A p \in Procs \ {p1} : Idle(p)
  /\ arg[p1].child \in {c1, NoRun}

\* No charges: a save would lose them.
Budgeting ==
  /\ Idle(p3) /\ ~run[r3].opened
  /\ \A p \in Procs : arg[p].child = NoRun

MCInit == Init /\ scenario \in {"race", "lineage", "budgets"}

MCNext ==
  /\ Next
  /\ scenario = "race"    => Race'
  /\ scenario = "lineage" => Lineage'
  /\ scenario = "budgets" => Budgeting'
  /\ UNCHANGED scenario

MCSpec == MCInit /\ [][MCNext]_<<vars, scenario>> /\ \A p \in Procs : WF_vars(Step(p))
-----------------------------------------------------------------------------
\* With one caller budgets and charges are on root runs alone, and every run's root
\* is one: two may set a budget on a child before CreateRecoveryWorkflowRun stamps it.
OneCallerRootsAlone == scenario = "lineage" => RootsAlone
=============================================================================
