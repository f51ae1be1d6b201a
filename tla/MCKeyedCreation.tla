-------------------------- MODULE MCKeyedCreation --------------------------
(***************************************************************************)
(* Scenarios of KeyedCreation, chosen at the start: the kinds of things    *)
(* that are made, and whether the process may die and a commit's reply be  *)
(* lost.                                                                   *)
(***************************************************************************)
EXTENDS KeyedCreation, TLC

CONSTANTS p1, p2, p3, due1, due2, it1, it2, it3, sub1, tag1, tag2, todo1, todo2, ag1, rt

VARIABLE scenario

MCKeys == {due1, due2, it1, it2, it3, sub1, tag1, tag2, todo1, todo2, ag1}
MCKindOf == [k \in MCKeys |-> CASE k \in {due1, due2} -> "period"
                                [] k \in {it1, it2, it3} -> "item"
                                [] k = sub1 -> "subject"
                                [] k \in {tag1, tag2} -> "tag"
                                [] k \in {todo1, todo2} -> "todo"
                                [] k = ag1 -> "agent"]
\* Two calls that wait for each other, and three in a circle.
MCLists == {<<it1, it2>>, <<it2, it1>>, <<it2, it3>>, <<it3, it1>>, <<sub1>>}
MCTemplate == [k \in {due1, due2} |-> rt]

Scenarios ==
  [kinds : {{"item"}, {"period"}, {"tag"}, {"todo"}, {"subject", "agent"}},
   dies : {FALSE, TRUE}]

\* Three callers where one kind is at stake and nothing dies, each with items
\* of its own to begin with; otherwise two with any.
Three == scenario.kinds \in {{"item"}, {"tag"}} /\ ~scenario.dies
Callers == IF Three THEN Procs ELSE Procs \ {p3}
First == p1 :> it1 @@ p2 :> it2 @@ p3 :> it3

MCInit == Init /\ scenario \in Scenarios

MCNext ==
  /\ \/ \E p \in Callers : Starts(p) \/ Runs(p) \/ Victim(p) \/ Fail(p)
     \/ \E p \in Callers : CommitUnheard(p) /\ scenario.dies
     \/ Crash /\ scenario.dies
  /\ \A p \in Procs : \A k \in Asked(call'[p]) : KindOf[k] \in scenario.kinds
  /\ Three => \A p \in Procs : call'[p].list \in Lists => call'[p].list[1] = First[p]
  /\ template = template' \/ "period" \in scenario.kinds
  /\ UNCHANGED scenario

\* Every call runs, the database wakes those that wait for a lock in the order
\* they came, and it finds the calls that wait in a circle.
Fairness == /\ \A p \in Procs : SF_vars(Runs(p))
            /\ WF_vars(\E p \in Procs : Victim(p))

MCSpec == MCInit /\ [][MCNext]_<<vars, scenario>> /\ Fairness
=============================================================================
