--------------------------- MODULE MCAssignments ---------------------------
(***************************************************************************)
(* Four scenarios of Assignments, chosen at the start: one caller and the  *)
(* tasks that wait for others, one caller handing tasks over with crashes  *)
(* anywhere, two callers racing over both, and one caller with every       *)
(* operation.                                                              *)
(***************************************************************************)
EXTENDS Assignments

CONSTANTS p1, p2, t1, t2, a1, h1

VARIABLE scenario

\* t1 may be made to wait for t2, and t2 blocks t1.
MCEdges == {<<t1, t2>>}

Acts(p) == Begin(p) \/ Step(p)

\* Updates send the kind they read, tasks are created without a holder, no call
\* but a hand-over writes the holder, and no cascade runs.
Careful ==
  /\ \A t \in Tasks : ~Exists(t) => task'[t].holder = NoOne /\ ~task'[t].held
  /\ \A t \in Tasks : task'[t].holder # task[t].holder /\ Exists(t)
                        => \E p \in Procs : call'[p] # call[p] /\ call[p].at \in {"column", "save"}
  /\ \A p \in Procs : call'[p].at = "save" /\ Idle(p)
                        => call'[p].row.kind = task[call'[p].task].kind
  /\ \A p \in Procs : call'[p].at # "cancel"

\* Nobody blocks a task by hand, takes it from its holder or drops an edge.
Waiting ==
  /\ \A p \in Procs : /\ call'[p].at = "save" => call'[p].row.status # "blocked"
                      /\ call'[p].at = "close" => call'[p].row.holder \in Agents
  /\ deps \subseteq deps'

\* A dependency that has finished stays so, and no edge is added to a task that
\* is already assigned; UnblockTask is left to one caller.
Settled ==
  /\ \A t \in Tasks : Finished(t) => Finished(t)'
  /\ \A p \in Procs : call'[p].at # "again"
  /\ deps' \subseteq deps \/ \A p \in Procs : Idle(p)

\* Only the agent holds t1, and t2 is only waited for: it is assigned to nobody,
\* never blocked and never deleted.
OnlyAwaited ==
  /\ task'[t1].holder # h1 /\ task'[t1].kind # "other" /\ ~task'[t2].deleted
  /\ task'[t2].holder = NoOne /\ task'[t2].kind = "" /\ ~task'[t2].held
  /\ task'[t2].status # "blocked"
  /\ \A p \in Procs : /\ call'[p].at = "close" => call'[p].task = t1 /\ call'[p].row.holder # h1
                      /\ call'[p].row.kind # "other"
                      /\ call'[p].at = "save" /\ call'[p].task = t2
                           => call'[p].row.status # "blocked" /\ call'[p].row.kind = ""

\* There is no t2.
Alone == task'[t2] = NoRow

MCInit == Init /\ scenario \in {"wait", "hands", "race", "any"}

MCNext ==
  /\ \/ scenario = "wait"  /\ Acts(p1) /\ Careful /\ Waiting
     \/ scenario = "hands" /\ ((Acts(p1) /\ Careful /\ Alone) \/ Crash)
     \/ scenario = "race"  /\ (\E p \in Procs : Acts(p)) /\ Careful /\ Settled /\ OnlyAwaited
     \/ scenario = "any"   /\ Acts(p1) /\ OnlyAwaited
  /\ UNCHANGED scenario

MCSpec == MCInit /\ [][MCNext]_<<vars, scenario>>

\* The history never lies, crashes included.
OneCallerHistory == scenario = "hands" => HistoryNeverLies

\* Nobody waits for what has finished.
NobodyWaits == scenario = "wait" => WaitersReleased

\* Nobody is told too early, also when two callers race.
NobodyTooEarly == scenario \in {"wait", "race"} => NothingEarly

\* Who holds a task is in its history.
HolderInHistory == scenario \in {"wait", "race"} => HolderRecorded

\* held_by lives while a task is blocked.
HeldWhileBlocked == scenario \in {"wait", "hands", "race"} => HeldOnlyWhileBlocked

\* Statuses move along the lifecycle.
OneCallerLegal ==
  [][scenario # "race" =>
       \A t \in Tasks : Exists(t) /\ task'[t].status # task[t].status
         => task'[t].status \in TaskNext[task[t].status]]_<<task, scenario>>
=============================================================================
