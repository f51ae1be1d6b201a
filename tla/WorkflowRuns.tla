---------------------------- MODULE WorkflowRuns ----------------------------
(***************************************************************************)
(* Workflow runs and the tasks they hold, at the grain at which the code   *)
(* meets the database: every call is a sequence of statements, another     *)
(* caller's statements may fall between any two of them, and the process   *)
(* that runs the call may die there.                                       *)
(*                                                                         *)
(* A call reads the run row, decides on what it read, and writes the WHOLE *)
(* row back (saveRun).  The row a call is about to write is row[p], the    *)
(* task rows it listed are seen[p]; both may be stale when they are used.  *)
(*                                                                         *)
(* A run is named by its unique name, so Runs is a set of names.  Instants *)
(* are abstracted to whether a step has a limit (due): the sweep's instant *)
(* is its caller's, so a limit that is set may always have passed.         *)
(***************************************************************************)
EXTENDS Lifecycle, Naturals, FiniteSets

CONSTANTS
  Procs,       \* concurrent callers; one caller is the program without races
  Runs,        \* run names
  Tasks,       \* task ids
  Workflows,   \* workflow codes
  Versions,    \* published versions of a workflow
  NoRun,       \* the empty run id
  NoWorkflow,  \* the empty workflow code
  CancelName,  \* the "-closed" name of the runs whose closing is modelled
  DependsOn,   \* <<t, u>>: task t depends on task u
  PageSize,    \* maxListPage: the most rows a list call returns
  OpenNames,   \* the names callers open runs under (a bound)
  TaskMoves,   \* the statuses callers ask UpdateTask for (a bound)
  Ops          \* the operations callers issue (a bound)

AllOps ==
  {"open", "status", "cancel", "finalize", "stop", "begin", "answer", "sweep",
   "rollback", "purge", "timeout", "createTask", "updateTask", "deleteTask",
   "linkTask", "createTodo", "crash"}

ASSUME EmptyIds == NoRun \notin Runs /\ NoWorkflow \notin Workflows
ASSUME VersionsPositive == Versions \subseteq Nat \ {0}
ASSUME CancelNames ==
  /\ DOMAIN CancelName \subseteq Runs
  /\ \A r \in DOMAIN CancelName : CancelName[r] \in Runs \ {r}
ASSUME Pages == PageSize \in Nat \ {0}
ASSUME Bounds ==
  /\ OpenNames \subseteq Runs
  /\ DependsOn \subseteq Tasks \X Tasks
  /\ TaskMoves \subseteq TaskStatus
  /\ Ops \subseteq AllOps

VARIABLES
  run,    \* the workflow_run table
  task,   \* the task table
  todos,  \* the runs that hold a todo that is not deleted
  op,     \* per caller: the call it is in
  pc,     \* per caller: the statement it is about to run
  id,     \* per caller: the run the call is about
  row,    \* per caller: the run row it is about to write
  seen    \* per caller: the task rows it listed and has yet to treat

tables == <<run, task, todos>>
frame  == <<op, pc, id, row, seen>>
vars   == <<run, task, todos, op, pc, id, row, seen>>
-----------------------------------------------------------------------------
(* Rows *)

RunId    == Runs \cup {NoRun}
Workflow == Workflows \cup {NoWorkflow}

\* WorkflowRun, without its timestamps, free text and budget columns (those
\* are FailureBudget's). due: step_due_at is not empty.
RunRow == [status: RunStatus \cup {"absent"}, underWay: BOOLEAN,
           workflow: Workflow, version: Versions \cup {0},
           due: BOOLEAN, stepCancel: Workflow, cancelRun: RunId]

AbsentRun == [status |-> "absent", underWay |-> FALSE,
              workflow |-> NoWorkflow, version |-> 0,
              due |-> FALSE, stepCancel |-> NoWorkflow, cancelRun |-> NoRun]

TaskRow == [status: TaskStatus \cup {"absent"}, run: RunId, deleted: BOOLEAN]

NoTask      == [status |-> "absent", run |-> NoRun, deleted |-> FALSE]
NothingSeen == [t \in Tasks |-> NoTask]

Exists(r) == run[r].status # "absent"

\* The row openWorkflowRun inserts.
NewRun(w, v) == [AbsentRun EXCEPT !.status = "pending", !.underWay = TRUE,
                                  !.workflow = w, !.version = v]

\* saveRun derives under_way from the status it is about to write.
Stored_KeepsFlag(x) == x
Stored(x) == [x EXCEPT !.underWay = x.status \notin EndStatus]

\* GetTask and ListTasks see no deleted row.
Live(t) == task[t].status # "absent" /\ ~task[t].deleted

\* ListTasks with the run as its filter.
Held(r) == {t \in Tasks : Live(t) /\ task[t].run = r}

Unfinished(r) == {t \in Held(r) : task[t].status \notin TaskEnd}

\* What a list call returns of the rows S: maxListPage of them, in whatever
\* order the database has.
Page(S) ==
  {P \in SUBSET S : \/ Cardinality(P) = PageSize
                    \/ P = S /\ Cardinality(S) < PageSize}

Snapshot(S) == [t \in Tasks |-> IF t \in S THEN task[t] ELSE NoTask]
Left(p)     == {t \in Tasks : seen[p][t] # NoTask}
-----------------------------------------------------------------------------
(* Calls *)

Calls == {"none", "open", "status", "cancel", "finalize", "stop", "begin",
          "answer", "close", "rollback", "purge", "settle", "timeout", "task"}

Statements == {"idle", "insert", "save", "name", "insertCancel", "list",
               "tasks", "write", "link", "acquire", "artifacts", "check", "commit",
               "finish", "fail", "expire"}

Idle(p) == pc[p] = "idle"

\* The call of p goes on at statement c, about run r, with x to write.
GoOn(p, o, c, r, x) ==
  /\ op'  = [op  EXCEPT ![p] = o]
  /\ pc'  = [pc  EXCEPT ![p] = c]
  /\ id'  = [id  EXCEPT ![p] = r]
  /\ row' = [row EXCEPT ![p] = x]

\* The call of p returns; an early return is one too.
Return(p) ==
  /\ GoOn(p, "none", "idle", NoRun, AbsentRun)
  /\ seen' = [seen EXCEPT ![p] = NothingSeen]

\* A call of p that found nothing to refuse goes on from its first read.
Start(p, o, c, r, x) ==
  /\ Idle(p)
  /\ GoOn(p, o, c, r, x)
  /\ UNCHANGED <<tables, seen>>

Init ==
  /\ run   = [r \in Runs |-> AbsentRun]
  /\ task  = [t \in Tasks |-> NoTask]
  /\ todos = {}
  /\ op    = [p \in Procs |-> "none"]
  /\ pc    = [p \in Procs |-> "idle"]
  /\ id    = [p \in Procs |-> NoRun]
  /\ row   = [p \in Procs |-> AbsentRun]
  /\ seen  = [p \in Procs |-> NothingSeen]
-----------------------------------------------------------------------------
(* Opening a run *)

\* StartWorkflowRun refuses a run with a workflow and no version, or the other
\* way round; CreateWorkflowRun names neither.
Startable(w, v) == w = NoWorkflow <=> v = 0

\* CreateWorkflowRun and StartWorkflowRun, up to
\* openWorkflowRun's check that the name is free.
OpenRun(p, r, w, v) ==
  /\ "open" \in Ops
  /\ r \in OpenNames
  /\ ~Exists(r)
  /\ Startable(w, v)
  /\ Start(p, "open", "insert", r, NewRun(w, v))

\* The insert of openWorkflowRun: the unique index refuses a name that was
\* taken since the check.
InsertRun_Upsert(p) ==
  /\ pc[p] = "insert"
  /\ run' = [run EXCEPT ![id[p]] = row[p]]
  /\ Return(p)
  /\ UNCHANGED <<task, todos>>
InsertRun(p) ==
  /\ pc[p] = "insert"
  /\ run' = IF Exists(id[p]) THEN run ELSE [run EXCEPT ![id[p]] = row[p]]
  /\ Return(p)
  /\ UNCHANGED <<task, todos>>
-----------------------------------------------------------------------------
(* Moving a run: read, decide, save the whole row *)

\* UpdateWorkflowRunStatus and the read of setRunStatus.
SetStatus_NotRefused(p, r, s) ==
  /\ "status" \in Ops
  /\ s \notin RollbackOwned
  /\ Exists(r)
  /\ s \in RunNext[run[r].status]
  /\ Start(p, "status", "save", r, [run[r] EXCEPT !.status = s])
SetStatus(p, r, s) ==
  /\ "status" \in Ops
  /\ s \notin {"closed"} \cup RollbackOwned
  /\ Exists(r)
  /\ s \in RunNext[run[r].status]
  /\ Start(p, "status", "save", r, [run[r] EXCEPT !.status = s])

\* CancelWorkflowRun; on a cancelling run it returns the run and writes nothing.
CancelRun(p, r) ==
  /\ "cancel" \in Ops
  /\ run[r].status = "in_progress"
  /\ Start(p, "cancel", "save", r, [run[r] EXCEPT !.status = "cancelling"])

\* FinalizeWorkflowRunCancellation.
FinalizeCancel(p, r) ==
  /\ "finalize" \in Ops
  /\ run[r].status = "cancelling"
  /\ Start(p, "finalize", "save", r, [run[r] EXCEPT !.status = "cancelled"])

\* StopWorkflowRun.
StopRun_Unguarded(p, r) ==
  /\ "stop" \in Ops
  /\ Exists(r)
  /\ Start(p, "stop", "save", r, [run[r] EXCEPT !.status = "cancelled", !.underWay = FALSE])
StopRun(p, r) ==
  /\ "stop" \in Ops
  /\ Exists(r)
  /\ run[r].status \notin EndStatus \cup {"rolling_back"}
  /\ Start(p, "stop", "save", r, [run[r] EXCEPT !.status = "cancelled", !.underWay = FALSE])

\* BeginWorkflowRunStep: a limit and its cancel workflow come together.
BeginStep(p, r, w) ==
  /\ "begin" \in Ops
  /\ Exists(r)
  /\ run[r].status \notin EndStatus \cup {"rolling_back"}
  /\ Start(p, "begin", "save", r,
           [run[r] EXCEPT !.due = w # NoWorkflow, !.stepCancel = w])

\* AnswerWorkflowRunStep; without a limit, or on an ended run, a no-op.
AnswerStep(p, r) ==
  /\ "answer" \in Ops
  /\ Exists(r)
  /\ run[r].due
  /\ run[r].status \notin EndStatus
  /\ Start(p, "answer", "save", r,
           [run[r] EXCEPT !.due = FALSE, !.stepCancel = NoWorkflow])

\* Where a call goes once its row is saved.
AfterSave(o) ==
  CASE o \in {"cancel", "stop", "close", "timeout"} -> "list"
    [] o = "rollback"                               -> "artifacts"
    [] OTHER                                        -> "idle"

\* saveRun: Updates(row) WHERE id = ?, whatever the row has become since.
SaveRun(p) ==
  /\ pc[p] = "save"
  /\ run' = [run EXCEPT ![id[p]] = Stored(row[p])]
  /\ IF AfterSave(op[p]) = "idle"
       THEN Return(p)
       ELSE GoOn(p, op[p], AfterSave(op[p]), id[p], row[p]) /\ UNCHANGED seen
  /\ UNCHANGED <<task, todos>>
-----------------------------------------------------------------------------
(* The cascade over the run's tasks *)

\* cascadeTaskCancellation and HandleRunTimeout list the run's tasks, one
\* page of them whatever their status, and skip the finished ones.
ListTasks(p) ==
  /\ pc[p] = "list"
  /\ \E P \in Page(Held(id[p])) :
       seen' = [seen EXCEPT ![p] = Snapshot(P \cap Unfinished(id[p]))]
  /\ GoOn(p, op[p], "tasks", id[p], row[p])
  /\ UNCHANGED tables

\* cancelTask: the listed row is written back whole, WHERE id = ?, as
\* cancelled and not deleted.
CancelTask_NoSplit(p, t) ==
  /\ pc[p] = "tasks" /\ op[p] \in {"cancel", "stop", "close"}
  /\ t \in Left(p)
  /\ task' = IF "cancelled" \in TaskNext[seen[p][t].status] /\ seen[p][t].status # "split"
               THEN [task EXCEPT ![t] = [seen[p][t] EXCEPT !.status = "cancelled"]]
               ELSE task
  /\ seen' = [seen EXCEPT ![p][t] = NoTask]
  /\ UNCHANGED <<run, todos, op, pc, id, row>>
CancelTask(p, t) ==
  /\ pc[p] = "tasks" /\ op[p] \in {"cancel", "stop", "close"}
  /\ t \in Left(p)
  /\ task' = IF "cancelled" \in TaskNext[seen[p][t].status]
               THEN [task EXCEPT ![t] = [seen[p][t] EXCEPT !.status = "cancelled"]]
               ELSE task
  /\ seen' = [seen EXCEPT ![p][t] = NoTask]
  /\ UNCHANGED <<run, todos, op, pc, id, row>>

\* The loop is over; StopWorkflowRun without a restart returns here too.
CascadeDone(p) ==
  /\ pc[p] = "tasks"
  /\ Left(p) = {}
  /\ Return(p)
  /\ UNCHANGED tables

\* StopWorkflowRun with restart_on_version = v: the same workflow again,
\* under a generated name. A run that names no workflow is never restarted.
Restart(p, r, v) ==
  /\ pc[p] = "tasks" /\ op[p] = "stop"
  /\ Left(p) = {}
  /\ row[p].workflow # NoWorkflow
  /\ r \in OpenNames
  /\ ~Exists(r)
  /\ \A q \in DOMAIN CancelName : r # CancelName[q]
  /\ GoOn(p, "open", "insert", r, NewRun(row[p].workflow, v))
  /\ UNCHANGED <<tables, seen>>
-----------------------------------------------------------------------------
(* The sweep over steps past their limit *)

\* CloseWorkflowRunsPastLimit, for one run of its list, and the early
\* returns of closePastLimit. The rows of the list are independent: a sweep
\* over several runs is several of these calls, each from a row read earlier.
Sweep(p, r) ==
  /\ "sweep" \in Ops
  /\ r \in DOMAIN CancelName /\ Exists(r)
  /\ run[r].underWay /\ run[r].due
  /\ run[r].status \notin EndStatus \cup {"rolling_back", "cancelling"}
  /\ run[r].stepCancel # NoWorkflow
  /\ Start(p, "close", "name", r, run[r])

Closed(x, c) == [x EXCEPT !.status = "closed", !.cancelRun = c]

\* openCancelRun: the name is looked up first; a run that has it is reused.
FindCancelRun(p) ==
  /\ pc[p] = "name"
  /\ LET c == CancelName[id[p]] IN
       IF Exists(c) THEN GoOn(p, op[p], "save", id[p], Closed(row[p], c))
                    ELSE GoOn(p, op[p], "insertCancel", id[p], row[p])
  /\ UNCHANGED <<tables, seen>>

\* ... and otherwise opened on the closing run's version. When the unique
\* index refuses the insert the run stays as it is until the next sweep.
InsertCancelRun(p) ==
  /\ pc[p] = "insertCancel"
  /\ LET c == CancelName[id[p]] IN
       IF Exists(c)
         THEN Return(p) /\ UNCHANGED run
         ELSE /\ run' = [run EXCEPT ![c] = NewRun(row[p].stepCancel, row[p].version)]
              /\ GoOn(p, op[p], "save", id[p], Closed(row[p], c))
              /\ UNCHANGED seen
  /\ UNCHANGED <<task, todos>>
-----------------------------------------------------------------------------
(* Rolling a run back *)

\* RollbackWorkflowRun's own read: a rolling_back run is a conflict.
RollbackRun(p, r) ==
  /\ "rollback" \in Ops
  /\ Exists(r)
  /\ "rolling_back" \in RunNext[run[r].status]
  /\ Start(p, "rollback", "acquire", r, AbsentRun)

\* setRunStatus reads the run again, and gives up when the move is illegal.
ReadAndMove(p, o, s) ==
  /\ IF s \in RunNext[run[id[p]].status]
       THEN /\ GoOn(p, o, "save", id[p], [run[id[p]] EXCEPT !.status = s])
            /\ UNCHANGED seen
       ELSE Return(p)
  /\ UNCHANGED tables

AcquireRollback(p) == pc[p] = "acquire" /\ ReadAndMove(p, "rollback", "rolling_back")

\* DeleteWorkflowRunArtifacts called on its own.
PurgeArtifacts(p, r) ==
  /\ "purge" \in Ops
  /\ run[r].status = "rolling_back"
  /\ Start(p, "purge", "check", r, AbsentRun)

\* DeleteWorkflowRunArtifacts called by the rollback reads the run once more.
EnterArtifacts(p) ==
  /\ pc[p] = "artifacts"
  /\ GoOn(p, op[p], IF run[id[p]].status = "rolling_back" THEN "check" ELSE "fail",
          id[p], AbsentRun)
  /\ UNCHANGED <<tables, seen>>

\* The tasks of r that a task of another run depends on. The dependent is
\* looked up by id alone, so a deleted one still counts.
ForeignDependents_SameRun(r) ==
  {d \in DependsOn : d[2] \in Held(r) /\ task[d[1]].run = r}
ForeignDependents(r) ==
  {d \in DependsOn : /\ d[2] \in Held(r)
                     /\ task[d[1]].status # "absent"
                     /\ task[d[1]].run \notin {NoRun, r}}

\* The first reads of the transaction: the run's tasks and the guard.
CheckArtifacts_NotFailed(p) ==
  /\ pc[p] = "check"
  /\ IF ForeignDependents(id[p]) = {}
       THEN /\ GoOn(p, op[p], "commit", id[p], AbsentRun)
            /\ seen' = [seen EXCEPT ![p] = Snapshot(Held(id[p]))]
       ELSE Return(p)
  /\ UNCHANGED tables
CheckArtifacts(p) ==
  /\ pc[p] = "check"
  /\ IF ForeignDependents(id[p]) = {}
       THEN /\ GoOn(p, op[p], "commit", id[p], AbsentRun)
            /\ seen' = [seen EXCEPT ![p] = Snapshot(Held(id[p]))]
       ELSE IF op[p] = "rollback"
              THEN GoOn(p, op[p], "fail", id[p], AbsentRun) /\ UNCHANGED seen
              ELSE Return(p)
  /\ UNCHANGED tables

\* Its writes, visible together at commit: listed tasks go back to pending
\* and leave the run (three columns only), the run's todos are deleted.
CommitArtifacts_KeepsTodos(p) ==
  /\ pc[p] = "commit"
  /\ task' = [t \in Tasks |-> IF t \in Left(p)
                                THEN [task[t] EXCEPT !.status = "pending", !.run = NoRun]
                                ELSE task[t]]
  /\ IF op[p] = "rollback"
       THEN /\ GoOn(p, op[p], "finish", id[p], AbsentRun)
            /\ seen' = [seen EXCEPT ![p] = NothingSeen]
       ELSE Return(p)
  /\ UNCHANGED <<run, todos>>
CommitArtifacts(p) ==
  /\ pc[p] = "commit"
  /\ task' = [t \in Tasks |-> IF t \in Left(p)
                                THEN [task[t] EXCEPT !.status = "pending", !.run = NoRun]
                                ELSE task[t]]
  /\ todos' = todos \ {id[p]}
  /\ IF op[p] = "rollback"
       THEN /\ GoOn(p, op[p], "finish", id[p], AbsentRun)
            /\ seen' = [seen EXCEPT ![p] = NothingSeen]
       ELSE Return(p)
  /\ UNCHANGED run

\* The last setRunStatus of the rollback.
FinishRollback(p) == pc[p] = "finish" /\ ReadAndMove(p, "settle", "rolled_back")
FailRollback(p)   == pc[p] = "fail"   /\ ReadAndMove(p, "settle", "rollback_failed")
-----------------------------------------------------------------------------
(* A run that timed out *)

\* HandleRunTimeout.
RunTimeout(p, r) ==
  /\ "timeout" \in Ops
  /\ Exists(r)
  /\ run[r].status \notin EndStatus
  /\ Start(p, "timeout", "expire", r, AbsentRun)

\* UpdateWorkflowRunStatus(failed): an error ends the call, tasks untouched.
ExpireRun(p) == pc[p] = "expire" /\ ReadAndMove(p, "timeout", "failed")

\* UpdateTask on a listed task, up to its check of the transition; a task
\* that is gone or may not fail is skipped.
FailTask(p, t) ==
  /\ pc[p] = "tasks" /\ op[p] = "timeout"
  /\ t \in Left(p)
  /\ IF Live(t) /\ "failed" \in {task[t].status} \cup TaskNext[task[t].status]
       THEN /\ seen' = [seen EXCEPT ![p][t].status = "failed"]
            /\ pc' = [pc EXCEPT ![p] = "write"]
       ELSE /\ seen' = [seen EXCEPT ![p][t] = NoTask]
            /\ UNCHANGED pc
  /\ UNCHANGED <<tables, op, id, row>>
-----------------------------------------------------------------------------
(* Tasks *)

\* CreateTask and UpdateTask end with LinkTaskToRun when they gave the task
\* its run: a second write of the run column.
GoLink(p, t, x) ==
  /\ op'   = [op EXCEPT ![p] = "task"]
  /\ pc'   = [pc EXCEPT ![p] = "link"]
  /\ seen' = [seen EXCEPT ![p][t] = x]
  /\ UNCHANGED <<id, row>>

LinkAgain(p, t) ==
  /\ pc[p] = "link"
  /\ t \in Left(p)
  /\ task' = IF Live(t) THEN [task EXCEPT ![t].run = seen[p][t].run] ELSE task
  /\ Return(p)
  /\ UNCHANGED <<run, todos>>

\* CreateTask. Callers name a run that exists, or none (a bound: the code would
\* keep an id that names no run); the run's status is not read.
CreateTask(p, t, r) ==
  /\ "createTask" \in Ops
  /\ Idle(p)
  /\ task[t].status = "absent"
  /\ r # NoRun => Exists(r)
  /\ LET new == [status |-> "pending", run |-> r, deleted |-> FALSE] IN
       /\ task' = [task EXCEPT ![t] = new]
       /\ IF r = NoRun THEN UNCHANGED frame ELSE GoLink(p, t, new)
  /\ UNCHANGED <<run, todos>>

\* UpdateTask, up to its checks: an empty run id keeps the stored one, any
\* other replaces it. (What gates pending -> in_progress is not here: a
\* refused call changes nothing.)
UpdateTask(p, t, s, r) ==
  /\ Idle(p)
  /\ Live(t)
  /\ s = task[t].status \/ s \in TaskNext[task[t].status]
  /\ r # NoRun => Exists(r)
  /\ GoOn(p, "task", "write", IF task[t].run = NoRun THEN r ELSE NoRun, AbsentRun)
  /\ seen' = [seen EXCEPT ![p][t] =
                [status |-> s, deleted |-> FALSE,
                 run |-> IF r = NoRun THEN task[t].run ELSE r]]
  /\ UNCHANGED tables

\* HandleTaskTimeout is an UpdateTask of the row it read.
TaskTimeout(p, t) ==
  /\ "timeout" \in Ops
  /\ task[t].status \notin TaskEnd
  /\ UpdateTask(p, t, "failed", task[t].run)

\* UpdateTask's write: the whole row WHERE id = ? AND deleted = false. (A task that
\* had no run is linked again; for a task of the cascade that write adds
\* nothing to the one just made.)
WriteTask(p, t) ==
  /\ pc[p] = "write"
  /\ t \in Left(p)
  /\ op[p] = "timeout" => seen[p][t].status = "failed"
  /\ task' = IF task[t].deleted THEN task ELSE [task EXCEPT ![t] = seen[p][t]]
  /\ CASE op[p] = "timeout" -> /\ GoOn(p, op[p], "tasks", id[p], row[p])
                               /\ seen' = [seen EXCEPT ![p][t] = NoTask]
       [] op[p] = "task" /\ id[p] # NoRun /\ ~task[t].deleted
                            -> GoLink(p, t, seen[p][t])
       [] OTHER             -> Return(p)
  /\ UNCHANGED <<run, todos>>

DeleteTask(p, t) ==
  /\ "deleteTask" \in Ops
  /\ Idle(p) /\ Live(t)
  /\ task' = [task EXCEPT ![t].deleted = TRUE]
  /\ UNCHANGED <<run, todos, frame>>

\* CreateRelationship's write of the run column, which looks at no deleted flag, and
\* LinkTaskToRun's and AssignTask's, which a live task alone gets to.
LinkTask(p, t, r) ==
  /\ "linkTask" \in Ops
  /\ Idle(p) /\ task[t].status # "absent" /\ Exists(r)
  /\ task' = [task EXCEPT ![t].run = r]
  /\ UNCHANGED <<run, todos, frame>>

\* A todo created in, or linked to, a run (LinkTodoToRun).
LinkTodo(p, r) ==
  /\ "createTodo" \in Ops
  /\ Idle(p) /\ Exists(r)
  /\ todos' = todos \cup {r}
  /\ UNCHANGED <<run, task, frame>>
-----------------------------------------------------------------------------
\* The process dies in the middle of a call: what it wrote stays, an open
\* transaction is undone, and nothing takes the call up again.
Crash(p) ==
  /\ "crash" \in Ops
  /\ ~Idle(p)
  /\ Return(p)
  /\ UNCHANGED tables

\* The calls.
Call(p) ==
  \/ \E r \in Runs, w \in Workflow, v \in Versions \cup {0} : OpenRun(p, r, w, v)
  \/ \E r \in Runs, s \in RunStatus : SetStatus(p, r, s)
  \/ \E r \in Runs : CancelRun(p, r)
  \/ \E r \in Runs : FinalizeCancel(p, r)
  \/ \E r \in Runs : StopRun(p, r)
  \/ \E r \in Runs, w \in Workflow : BeginStep(p, r, w)
  \/ \E r \in Runs : AnswerStep(p, r)
  \/ \E r \in Runs : Sweep(p, r)
  \/ \E r \in Runs : RollbackRun(p, r)
  \/ \E r \in Runs : PurgeArtifacts(p, r)
  \/ \E r \in Runs : RunTimeout(p, r)
  \/ \E t \in Tasks, r \in RunId : CreateTask(p, t, r)
  \/ \E t \in Tasks, s \in TaskMoves, r \in RunId :
        "updateTask" \in Ops /\ UpdateTask(p, t, s, r)
  \/ \E t \in Tasks : TaskTimeout(p, t)
  \/ \E t \in Tasks : DeleteTask(p, t)
  \/ \E t \in Tasks, r \in Runs : LinkTask(p, t, r)
  \/ \E r \in Runs : LinkTodo(p, r)

\* The statements a call under way goes on with.
Step(p) ==
  \/ InsertRun(p)
  \/ SaveRun(p)
  \/ ListTasks(p)
  \/ \E t \in Tasks : CancelTask(p, t)
  \/ CascadeDone(p)
  \/ \E r \in Runs, v \in Versions : Restart(p, r, v)
  \/ FindCancelRun(p)
  \/ InsertCancelRun(p)
  \/ AcquireRollback(p)
  \/ EnterArtifacts(p)
  \/ CheckArtifacts(p)
  \/ CommitArtifacts(p)
  \/ FinishRollback(p)
  \/ FailRollback(p)
  \/ ExpireRun(p)
  \/ \E t \in Tasks : FailTask(p, t)
  \/ \E t \in Tasks : WriteTask(p, t)
  \/ \E t \in Tasks : LinkAgain(p, t)

Next == \E p \in Procs : Call(p) \/ Step(p) \/ Crash(p)

Spec == Init /\ [][Next]_vars

\* A call that started goes on: the Go scheduler and the database serve every
\* statement. Nothing obliges a caller to make a call.
FairSpec == Spec /\ \A p \in Procs : WF_vars(Step(p))
-----------------------------------------------------------------------------
(* Properties *)

\* Every table and every call frame holds values of its type.
TypeOK ==
  /\ run   \in [Runs -> RunRow]
  /\ task  \in [Tasks -> TaskRow]
  /\ todos \subseteq Runs
  /\ op    \in [Procs -> Calls]
  /\ pc    \in [Procs -> Statements]
  /\ id    \in [Procs -> RunId]
  /\ row   \in [Procs -> RunRow]
  /\ seen  \in [Procs -> [Tasks -> TaskRow]]

Coherent(x) ==
  /\ x.underWay <=> x.status \notin EndStatus
  /\ x.due <=> x.stepCancel # NoWorkflow
  /\ x.status = "closed" <=> x.cancelRun # NoRun
  /\ x.status = "closed" => x.due
  /\ x.version # 0 => x.workflow # NoWorkflow

\* What the partial indexes and the screens rely on, whichever calls race:
\* under_way agrees with the status (saveRun), a limit and its cancel workflow
\* come together (BeginWorkflowRunStep, AnswerWorkflowRunStep), and a run is
\* closed exactly when it names its cancel run, with its limit still on it
\* (closePastLimit).
RowsCoherent == \A r \in Runs : Exists(r) => Coherent(run[r])

\* A closed run's cancel run was opened before the run was closed, under the
\* run's "-closed" name, whatever crashed in between (openCancelRun is called
\* before the save in closePastLimit).
CancelRunExists ==
  \A r \in Runs : run[r].cancelRun # NoRun =>
    /\ r \in DOMAIN CancelName
    /\ run[r].cancelRun = CancelName[r]
    /\ Exists(CancelName[r])

\* "A run keeps its version": no call, however stale the row it saves,
\* rewrites the workflow or the version a run was opened on.
VersionKept ==
  [][\A r \in Runs : Exists(r) => /\ run'[r].workflow = run[r].workflow
                                  /\ run'[r].version = run[r].version]_run

\* closed is reached by the sweep and by nothing else: no other call saves a
\* row that was closed when it was read (the early returns of the step calls,
\* the refusal in UpdateWorkflowRunStatus).
ClosedOnlyBySweep ==
  [][\A r \in Runs : run[r].status # "closed" /\ run'[r].status = "closed"
       => \E p \in Procs : op[p] = "close" /\ id[p] = r]_run

\* With one caller, every change of a run's status is one CanTransitionTo
\* allows or a Stop of a run that is still going. Cancel, Finalize, Stop, the
\* sweep and the rollback never consult CanTransitionTo for the save itself.
LegalRunSteps ==
  [][\A r \in Runs : Exists(r) /\ run'[r].status # run[r].status
       => \/ run'[r].status \in RunNext[run[r].status]
          \/ /\ run'[r].status = "cancelled"
             /\ run[r].status \notin EndStatus \cup {"rolling_back"}]_run

\* With one caller, when the cascade of a cancel, a stop or a closing has gone
\* through its list, it has worked off a whole page: no task of the run is left
\* unfinished, or only tasks beyond one full page of those the run holds. It "flips
\* every non-terminal Task whose workflow_run_id matches", of a list of at most
\* maxListPage in which the finished ones count (cascadeTaskCancellation).
BeyondPage(r, S) == S # {} => Cardinality(S) + PageSize <= Cardinality(Held(r))

CascadeComplete ==
  \A p \in Procs :
    /\ pc[p] = "tasks" /\ op[p] \in {"cancel", "stop", "close"}
    /\ Left(p) = {}
    => BeyondPage(id[p], Unfinished(id[p]))

\* With one caller, a run that becomes rolled_back holds no task and no todo
\* any more (RollbackWorkflowRun settles only after DeleteWorkflowRunArtifacts
\* succeeded, and a crash in between never yields rolled_back).
RolledBackIsClean ==
  [][\A r \in Runs : run[r].status # "rolled_back" /\ run'[r].status = "rolled_back"
       => Held(r) = {} /\ r \notin todos]_run

\* With one caller, compensation never takes a task out of a run while a task
\* of another run depends on it (the ErrForeignRunDependency guard).
ForeignDependencyKept ==
  [][\A t \in Tasks : task[t].run # NoRun /\ task'[t].run = NoRun
       => \A d \in DependsOn : d[2] = t => task[d[1]].run \in {NoRun, task[t].run}]_task

\* closed "is a run status and an end status": a closed run stays closed.
ClosedIsFinal ==
  [][\A r \in Runs : run[r].status = "closed" => run'[r].status = "closed"]_run

\* rolling_back is transient: "the caller should wait for the current rollback
\* to complete or reach rollback_failed before re-triggering".
RollbackSettles ==
  \A r \in Runs : run[r].status = "rolling_back" ~> run[r].status # "rolling_back"
-----------------------------------------------------------------------------
(* Why the rows stay coherent: what holds of a call between its statements *)

\* Coherent, but for the flag saveRun is about to derive.
Sound(x) ==
  /\ x.due <=> x.stepCancel # NoWorkflow
  /\ x.status = "closed" <=> x.cancelRun # NoRun
  /\ x.status = "closed" => x.due
  /\ x.version # 0 => x.workflow # NoWorkflow

Fresh(x) ==
  /\ x.status = "pending" /\ x.underWay /\ Sound(x)

\* x was read from row r of the table: the columns no call changes agree.
ReadFrom(table, r, x) ==
  /\ x.workflow = table[r].workflow
  /\ x.version = table[r].version

OpenedFor(table, r, x) ==
  x.cancelRun # NoRun =>
    /\ r \in DOMAIN CancelName
    /\ x.cancelRun = CancelName[r]
    /\ table[CancelName[r]].status # "absent"

\* A call o that is about to run statement c, about run r, with x to write.
FrameOK(table, o, c, r, x) ==
  /\ o = "task" => c \in {"write", "link"}
  /\ c # "idle" /\ o # "task" => r \in Runs
  /\ c \notin {"idle", "insert"} /\ o # "task" => table[r].status # "absent"
  /\ c = "insert" => Fresh(x)
  /\ c \in {"name", "insertCancel"} =>
       /\ o = "close" /\ r \in DOMAIN CancelName
       /\ x.due /\ x.stepCancel # NoWorkflow
       /\ x.version # 0 => x.workflow # NoWorkflow
       /\ ReadFrom(table, r, x)
  /\ c = "save" =>
       /\ x.status # "absent" /\ Sound(x)
       /\ ReadFrom(table, r, x) /\ OpenedFor(table, r, x)
       /\ x.status = "closed" => o = "close"

\* The inductive invariant: the tables, and every call under way, whatever it
\* read and whatever happened since, will leave them coherent.
FramesOK == \A p \in Procs : FrameOK(run, op[p], pc[p], id[p], row[p])

IInv == TypeOK /\ RowsCoherent /\ CancelRunExists /\ FramesOK
-----------------------------------------------------------------------------
(* What one caller relies on: nothing it read has changed when it uses it *)

\* The changes of status that LegalRunSteps allows, and none.
LegalMove(s, n) ==
  \/ n = s
  \/ n \in RunNext[s]
  \/ n = "cancelled" /\ s \notin EndStatus \cup {"rolling_back"}

Empty(r) == Held(r) = {} /\ r \notin todos

\* The row about to be saved is a legal move of the run, and to rolled_back only
\* of a run that is empty.
SavesLegally(p) ==
  /\ pc[p] = "save" => /\ LegalMove(run[id[p]].status, row[p].status)
                       /\ row[p].status = "rolled_back" => Empty(id[p])
  /\ pc[p] \in {"name", "insertCancel"} =>
       row[p].status = run[id[p]].status /\ "closed" \in RunNext[row[p].status]
  /\ pc[p] = "finish" => Empty(id[p])

\* The task rows a call holds are rows it read: of tasks that exist, and with a
\* run where the task has one.
SeesRows(p) ==
  /\ pc[p] = "idle" => Left(p) = {}
  /\ pc[p] \in {"tasks", "write", "link"} => \A t \in Left(p) :
       seen[p][t].status # "absent" /\ (task[t].run # NoRun => seen[p][t].run # NoRun)

\* The cascade has the unfinished tasks of its run as they are: those it
\* listed, and every one but those beyond the page.
SeesUnfinished(p) ==
  pc[p] = "tasks" /\ op[p] \in {"cancel", "stop", "close"} =>
    /\ \A t \in Left(p) : seen[p][t] = task[t] /\ "cancelled" \in TaskNext[task[t].status]
    /\ IsFiniteSet(Tasks) => BeyondPage(id[p], Unfinished(id[p]) \ Left(p))

\* The guard of the compensation still holds when it commits.
GuardHolds(p) ==
  pc[p] = "commit" => /\ seen[p] = Snapshot(Held(id[p]))
                      /\ ForeignDependents(id[p]) = {}

AbsentHaveNoRun == \A t \in Tasks : task[t].status = "absent" => task[t].run = NoRun

Steady(p) == SavesLegally(p) /\ SeesRows(p) /\ SeesUnfinished(p) /\ GuardHolds(p)

Undisturbed == AbsentHaveNoRun /\ \A p \in Procs : Steady(p)
=============================================================================
