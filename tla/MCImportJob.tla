---------------------------- MODULE MCImportJob ----------------------------
(***************************************************************************)
(* One import of three tasks, in two scenarios chosen at the start: no     *)
(* write of a status is lost, or they are lost and the process dies.       *)
(***************************************************************************)
EXTENDS ImportJob

VARIABLE lossy

\* The second and the third task wait for the first.
MCDeps == << <<2, 1>>, <<3, 1>> >>

MCInit == Init /\ lossy \in BOOLEAN

MCNext ==
  /\ \/ \E p \in Procs : Begins(p) \/ Runs(p) \/ GiveUp(p)
     \/ \E j \in Jobs : Works(j) \/ Refused(j)
     \/ lossy /\ \E j \in Jobs : StatusLost(j)
     \/ lossy /\ Crash
  /\ UNCHANGED lossy

\* Goroutines and callers are scheduled.
MCSpec == /\ MCInit /\ [][MCNext]_<<vars, lossy>>
          /\ \A p \in Procs : WF_vars(Runs(p))
          /\ \A j \in Jobs : WF_vars(Works(j))

ImportsEnd == ~lossy => EveryImportEnds
=============================================================================
