----------------------------- MODULE Lifecycle -----------------------------
(***************************************************************************)
(* The two status machines of the task manager: the lifecycle of a         *)
(* workflow run (models/workflowrun.go) and of a task (models/task.go).    *)
(* Each CanTransitionTo of the code is the membership test in the set of   *)
(* next statuses below; statuses keep the names the database stores.       *)
(***************************************************************************)

\* WorkflowRunStatus: the constants of models/workflowrun.go.
RunStatus ==
  {"pending", "in_progress", "paused", "cancelling", "rolling_back",
   "completed", "failed", "cancelled", "closed",
   "rolled_back", "rollback_failed"}

\* WorkflowRunStatus.IsTerminal.
EndStatus ==
  {"completed", "failed", "rolled_back", "rollback_failed", "cancelled", "closed"}

\* The statuses WorkflowRunStatus.CanTransitionTo accepts from s.
RunNext ==
  [s \in RunStatus |->
     CASE s = "pending"         -> {"in_progress", "closed"}
       [] s = "in_progress"     -> {"completed", "failed", "paused", "cancelling", "closed"}
       [] s = "paused"          -> {"in_progress", "failed", "cancelling", "closed"}
       [] s = "cancelling"      -> {"cancelled"}
       [] s \in {"failed", "completed", "cancelled"} -> {"rolling_back"}
       [] s = "rolling_back"    -> {"rolled_back", "rollback_failed"}
       [] s = "rollback_failed" -> {"rolling_back"}
       [] OTHER                 -> {}]

\* rollbackOwned: the statuses only the rollback coordinator may ask for.
RollbackOwned == {"rolling_back", "rolled_back", "rollback_failed"}

\* TaskStatus: the constants of models/task.go.
TaskStatus ==
  {"pending", "blocked", "in_progress", "awaiting-direction", "split",
   "completed", "failed", "cancelled"}

\* isTerminalStatus: what the rest of the code calls a finished task.
TaskEnd == {"completed", "failed", "cancelled"}

\* The statuses TaskStatus.CanTransitionTo accepts from s. A failed task is
\* finished and can still be picked up again.
TaskNext ==
  [s \in TaskStatus |->
     CASE s = "pending"            -> {"in_progress", "cancelled", "blocked"}
       [] s = "blocked"            -> {"pending", "cancelled", "awaiting-direction"}
       [] s = "in_progress"        -> {"completed", "failed", "cancelled",
                                       "awaiting-direction", "split"}
       [] s = "awaiting-direction" -> {"in_progress", "blocked", "cancelled"}
       [] s = "failed"             -> {"in_progress", "blocked", "cancelled"}
       [] s = "split"              -> {"completed", "failed", "cancelled"}
       [] OTHER                    -> {}]
=============================================================================
