------------------------- MODULE WorkflowRunsProofs -------------------------
(***************************************************************************)
(* Proofs about WorkflowRuns, for any number of callers, runs and tasks.   *)
(*                                                                         *)
(* IInv is inductive: the rows are coherent, and so is every row a call is *)
(* about to write, however long ago it was read.  A row that goes stale    *)
(* stays harmless to IInv because no call changes the workflow or version  *)
(* of a run, or removes a run.                                             *)
(***************************************************************************)
EXTENDS WorkflowRuns, FiniteSetTheorems, TLAPS

\* No step removes a run or rewrites its workflow or version.
Grows ==
  \A r \in Runs : run[r].status # "absent" =>
    /\ run'[r].status # "absent"
    /\ run'[r].workflow = run[r].workflow
    /\ run'[r].version = run[r].version
-----------------------------------------------------------------------------
\* The empty rows have their types.
LEMMA EmptyRows ==
  /\ NoRun \in RunId
  /\ AbsentRun \in RunRow
  /\ NoTask \in TaskRow
  /\ NothingSeen \in [Tasks -> TaskRow]
BY DEF RunId, AbsentRun, RunRow, Workflow, NoTask, TaskRow, NothingSeen

\* An idle frame asks nothing of the tables.
LEMMA IdleFrame ==
  ASSUME NEW table
  PROVE FrameOK(table, "none", "idle", NoRun, AbsentRun)
BY DEF FrameOK

\* A call's frame stays right while the table only grows.
LEMMA FrameStable ==
  ASSUME IInv, Grows, NEW q \in Procs
  PROVE FrameOK(run', op[q], pc[q], id[q], row[q])
<1>1. FrameOK(run, op[q], pc[q], id[q], row[q])
  BY DEF IInv, FramesOK
<1>2. ASSUME NEW r \in DOMAIN CancelName
      PROVE r \in Runs /\ CancelName[r] \in Runs
  BY <1>2, CancelNames
<1> QED
  BY <1>1, <1>2 DEF FrameOK, ReadFrom, OpenedFor, Grows

\* The call of p moves on, the others stay where they are.
LEMMA GoOnKeeps ==
  ASSUME IInv, Grows,
         NEW p \in Procs, NEW o \in Calls, NEW c \in Statements,
         NEW r \in RunId, NEW x \in RunRow,
         GoOn(p, o, c, r, x), FrameOK(run', o, c, r, x),
         run' \in [Runs -> RunRow], task' \in [Tasks -> TaskRow],
         todos' \subseteq Runs, seen' \in [Procs -> [Tasks -> TaskRow]],
         RowsCoherent', CancelRunExists'
  PROVE IInv'
<1>1. TypeOK'
  BY DEF IInv, TypeOK, GoOn
<1>2. ASSUME NEW q \in Procs
      PROVE FrameOK(run', op'[q], pc'[q], id'[q], row'[q])
  <2>1. CASE q = p
    BY <2>1 DEF GoOn, IInv, TypeOK
  <2>2. CASE q # p
    BY <2>2, FrameStable DEF GoOn, IInv, TypeOK
  <2> QED BY <2>1, <2>2
<1> QED
  BY <1>1, <1>2 DEF IInv, FramesOK

\* ... in particular when it writes no run.
LEMMA GoOnReads ==
  ASSUME IInv, UNCHANGED run,
         NEW p \in Procs, NEW o \in Calls, NEW c \in Statements,
         NEW r \in RunId, NEW x \in RunRow,
         GoOn(p, o, c, r, x), FrameOK(run, o, c, r, x),
         task' \in [Tasks -> TaskRow], todos' \subseteq Runs,
         seen' \in [Procs -> [Tasks -> TaskRow]]
  PROVE IInv'
<1>1. Grows /\ run' \in [Runs -> RunRow] /\ FrameOK(run', o, c, r, x)
  BY DEF Grows, IInv, TypeOK
<1>2. RowsCoherent' /\ CancelRunExists'
  BY DEF IInv, RowsCoherent, CancelRunExists, Exists
<1> QED
  BY <1>1, <1>2, GoOnKeeps

\* A call that returns without writing a run.
LEMMA ReturnKeeps ==
  ASSUME IInv, UNCHANGED run, NEW p \in Procs, Return(p),
         task' \in [Tasks -> TaskRow], todos' \subseteq Runs
  PROVE IInv'
<1>1. seen' \in [Procs -> [Tasks -> TaskRow]]
  BY EmptyRows DEF Return, IInv, TypeOK
<1>2. GoOn(p, "none", "idle", NoRun, AbsentRun)
  BY DEF Return
<1>3. "none" \in Calls /\ "idle" \in Statements
  BY DEF Calls, Statements
<1> QED
  BY <1>1, <1>2, <1>3, EmptyRows, IdleFrame, GoOnReads

\* A call that starts.
LEMMA StartKeeps ==
  ASSUME IInv, NEW p \in Procs, NEW o \in Calls, NEW c \in Statements,
         NEW r \in Runs, NEW x \in RunRow,
         Start(p, o, c, r, x), FrameOK(run, o, c, r, x)
  PROVE IInv'
<1>1. GoOn(p, o, c, r, x) /\ UNCHANGED <<run, task, todos, seen>>
  BY DEF Start, tables
<1>2. r \in RunId
  BY DEF RunId
<1> QED
  BY <1>1, <1>2, GoOnReads DEF IInv, TypeOK
-----------------------------------------------------------------------------
\* What IInv says of one call.
LEMMA FrameOf ==
  ASSUME IInv, NEW p \in Procs
  PROVE /\ op[p] \in Calls /\ pc[p] \in Statements
        /\ id[p] \in RunId /\ row[p] \in RunRow
        /\ seen[p] \in [Tasks -> TaskRow]
        /\ FrameOK(run, op[p], pc[p], id[p], row[p])
BY DEF IInv, TypeOK, FramesOK

\* What IInv says of one run: its row can be saved again as it is.
LEMMA RowOf ==
  ASSUME IInv, NEW r \in Runs, run[r].status # "absent"
  PROVE /\ run[r] \in RunRow
        /\ run[r].status \in RunStatus
        /\ Sound(run[r]) /\ ReadFrom(run, r, run[r]) /\ OpenedFor(run, r, run[r])
<1>1. run[r] \in RunRow /\ Coherent(run[r])
  BY DEF IInv, TypeOK, RowsCoherent, Exists
<1>2. OpenedFor(run, r, run[r])
  BY DEF IInv, CancelRunExists, OpenedFor, Exists
<1> QED
  BY <1>1, <1>2 DEF RunRow, Coherent, Sound, ReadFrom

\* The statuses CanTransitionTo leads to, and that a closed run leads nowhere.
LEMMA NextStatuses ==
  /\ RunNext["closed"] = {}
  /\ "closed" \in EndStatus
<1>1. "closed" \in RunStatus /\ "closed" \in EndStatus
  BY DEF RunStatus, EndStatus
<1>2. ASSUME NEW s \in RunStatus, s = "closed"
      PROVE RunNext[s] = {}
  BY <1>2, SMT DEF RunNext
<1> QED
  BY <1>1, <1>2

\* A run that is not closed may be saved with another status, if that is not
\* closed either.
LEMMA Restatus ==
  ASSUME IInv, NEW r \in Runs, run[r].status \notin {"absent", "closed"},
         NEW s \in RunStatus, s # "closed"
  PROVE LET x == [run[r] EXCEPT !.status = s] IN
          /\ x \in RunRow /\ x.status = s /\ s # "absent"
          /\ Sound(x) /\ ReadFrom(run, r, x) /\ OpenedFor(run, r, x)
<1>1. s # "absent"
  BY DEF RunStatus
<1> QED
  BY <1>1, RowOf DEF Sound, ReadFrom, OpenedFor, RunRow

\* What openWorkflowRun inserts.
LEMMA NewRunRow ==
  ASSUME NEW w \in Workflow, NEW v \in Versions \cup {0},
         v # 0 => w # NoWorkflow
  PROVE /\ NewRun(w, v) \in RunRow
        /\ Fresh(NewRun(w, v))
        /\ NewRun(w, v).status = "pending"
BY DEF NewRun, AbsentRun, RunRow, RunStatus, RunId, Workflow, Fresh, Sound
-----------------------------------------------------------------------------
(* The calls *)

LEMMA OpenRunKeeps ==
  ASSUME IInv, NEW p \in Procs, NEW r \in Runs, NEW w \in Workflow,
         NEW v \in Versions \cup {0}, OpenRun(p, r, w, v)
  PROVE IInv'
<1>1. /\ NewRun(w, v) \in RunRow
      /\ FrameOK(run, "open", "insert", r, NewRun(w, v))
  BY NewRunRow DEF OpenRun, Startable, FrameOK
<1>2. Start(p, "open", "insert", r, NewRun(w, v))
  BY DEF OpenRun
<1> QED
  BY <1>1, <1>2, StartKeeps DEF Calls, Statements

\* The calls that read a run, change columns and save it.
LEMMA SavingCallKeeps ==
  ASSUME IInv, NEW p \in Procs, NEW r \in Runs, NEW o \in Calls,
         o # "task", NEW s \in RunStatus, s # "closed",
         run[r].status \notin {"absent", "closed"},
         Start(p, o, "save", r, [run[r] EXCEPT !.status = s])
  PROVE IInv'
<1> DEFINE x == [run[r] EXCEPT !.status = s]
<1>1. x \in RunRow /\ FrameOK(run, o, "save", r, x)
  BY Restatus DEF FrameOK
<1>2. "save" \in Statements
  BY DEF Statements
<1> QED
  BY <1>1, <1>2, StartKeeps

LEMMA SetStatusKeeps ==
  ASSUME IInv, NEW p \in Procs, NEW r \in Runs, NEW s \in RunStatus,
         SetStatus(p, r, s)
  PROVE IInv'
<1>1. run[r].status \notin {"absent", "closed"} /\ s # "closed"
  BY NextStatuses DEF SetStatus, Exists
<1>2. Start(p, "status", "save", r, [run[r] EXCEPT !.status = s])
  BY DEF SetStatus
<1> QED
  BY <1>1, <1>2, SavingCallKeeps DEF Calls

LEMMA CancelRunKeeps ==
  ASSUME IInv, NEW p \in Procs, NEW r \in Runs, CancelRun(p, r)
  PROVE IInv'
BY SavingCallKeeps DEF CancelRun, Calls, RunStatus

LEMMA FinalizeCancelKeeps ==
  ASSUME IInv, NEW p \in Procs, NEW r \in Runs, FinalizeCancel(p, r)
  PROVE IInv'
BY SavingCallKeeps DEF FinalizeCancel, Calls, RunStatus

LEMMA StopRunKeeps ==
  ASSUME IInv, NEW p \in Procs, NEW r \in Runs, StopRun(p, r)
  PROVE IInv'
<1> DEFINE x == [run[r] EXCEPT !.status = "cancelled", !.underWay = FALSE]
<1>1. run[r].status \notin {"absent", "closed"}
  BY NextStatuses DEF StopRun, Exists
<1>2. x \in RunRow /\ FrameOK(run, "stop", "save", r, x)
  BY <1>1, RowOf DEF FrameOK, Sound, ReadFrom, OpenedFor, RunRow, RunStatus
<1>3. Start(p, "stop", "save", r, x)
  BY DEF StopRun
<1> QED
  BY <1>2, <1>3, StartKeeps DEF Calls, Statements

LEMMA BeginStepKeeps ==
  ASSUME IInv, NEW p \in Procs, NEW r \in Runs, NEW w \in Workflow,
         BeginStep(p, r, w)
  PROVE IInv'
<1> DEFINE x == [run[r] EXCEPT !.due = w # NoWorkflow, !.stepCancel = w]
<1>1. run[r].status \notin {"absent", "closed"}
  BY NextStatuses DEF BeginStep, Exists
<1>2. x \in RunRow /\ FrameOK(run, "begin", "save", r, x)
  BY <1>1, RowOf DEF FrameOK, Sound, ReadFrom, OpenedFor, RunRow
<1>3. Start(p, "begin", "save", r, x)
  BY DEF BeginStep
<1> QED
  BY <1>2, <1>3, StartKeeps DEF Calls, Statements

LEMMA AnswerStepKeeps ==
  ASSUME IInv, NEW p \in Procs, NEW r \in Runs, AnswerStep(p, r)
  PROVE IInv'
<1> DEFINE x == [run[r] EXCEPT !.due = FALSE, !.stepCancel = NoWorkflow]
<1>1. run[r].status \notin {"absent", "closed"}
  BY NextStatuses DEF AnswerStep, Exists
<1>2. x \in RunRow /\ FrameOK(run, "answer", "save", r, x)
  BY <1>1, RowOf DEF FrameOK, Sound, ReadFrom, OpenedFor, RunRow, Workflow
<1>3. Start(p, "answer", "save", r, x)
  BY DEF AnswerStep
<1> QED
  BY <1>2, <1>3, StartKeeps DEF Calls, Statements

LEMMA SweepKeeps ==
  ASSUME IInv, NEW p \in Procs, NEW r \in Runs, Sweep(p, r)
  PROVE IInv'
<1>1. FrameOK(run, "close", "name", r, run[r]) /\ run[r] \in RunRow
  BY RowOf DEF Sweep, Exists, FrameOK, Sound
<1>2. Start(p, "close", "name", r, run[r])
  BY DEF Sweep
<1> QED
  BY <1>1, <1>2, StartKeeps DEF Calls, Statements

\* The calls that only read the run before they start.
LEMMA PlainCallKeeps ==
  ASSUME IInv, NEW p \in Procs, NEW r \in Runs,
         RollbackRun(p, r) \/ PurgeArtifacts(p, r) \/ RunTimeout(p, r)
  PROVE IInv'
<1>1. run[r].status # "absent"
  BY DEF RollbackRun, PurgeArtifacts, RunTimeout, Exists
<1>2. ASSUME NEW o \in {"rollback", "purge", "timeout"},
             NEW c \in {"acquire", "check", "expire"},
             Start(p, o, c, r, AbsentRun)
      PROVE IInv'
  <2>1. FrameOK(run, o, c, r, AbsentRun)
    BY <1>1 DEF FrameOK
  <2> QED
    BY <1>2, <2>1, EmptyRows, StartKeeps DEF Calls, Statements
<1> QED
  BY <1>2 DEF RollbackRun, PurgeArtifacts, RunTimeout
-----------------------------------------------------------------------------
(* The calls about tasks *)

\* A step that changes neither the runs nor any call's frame but its list.
LEMMA TaskWriteKeeps ==
  ASSUME IInv, UNCHANGED <<run, op, pc, id, row>>,
         task' \in [Tasks -> TaskRow], todos' \subseteq Runs,
         seen' \in [Procs -> [Tasks -> TaskRow]]
  PROVE IInv'
BY DEF IInv, TypeOK, RowsCoherent, CancelRunExists, FramesOK, Exists

\* GoLink leaves a right frame behind.
LEMMA GoLinkKeeps ==
  ASSUME IInv, UNCHANGED run, NEW p \in Procs, NEW t \in Tasks, NEW x \in TaskRow,
         GoLink(p, t, x), task' \in [Tasks -> TaskRow], todos' \subseteq Runs
  PROVE IInv'
<1>1. GoOn(p, "task", "link", id[p], row[p])
  BY DEF GoLink, GoOn, IInv, TypeOK
<1>2. seen' \in [Procs -> [Tasks -> TaskRow]]
  BY DEF GoLink, IInv, TypeOK
<1>3. FrameOK(run, "task", "link", id[p], row[p])
  BY DEF FrameOK
<1>4. id[p] \in RunId /\ row[p] \in RunRow /\ "task" \in Calls /\ "link" \in Statements
  BY DEF IInv, TypeOK, Calls, Statements
<1> QED
  BY <1>1, <1>2, <1>3, <1>4, GoOnReads

LEMMA CreateTaskKeeps ==
  ASSUME IInv, NEW p \in Procs, NEW t \in Tasks, NEW r \in RunId, CreateTask(p, t, r)
  PROVE IInv'
<1> DEFINE new == [status |-> "pending", run |-> r, deleted |-> FALSE]
<1>1. new \in TaskRow
  BY DEF TaskRow, TaskStatus
<1>2. task' \in [Tasks -> TaskRow] /\ UNCHANGED <<run, todos>> /\ todos' \subseteq Runs
  BY <1>1 DEF CreateTask, IInv, TypeOK
<1>3. CASE UNCHANGED frame
  BY <1>2, <1>3, TaskWriteKeeps DEF frame, IInv, TypeOK
<1>4. CASE GoLink(p, t, new)
  BY <1>1, <1>2, <1>4, GoLinkKeeps
<1> QED
  BY <1>3, <1>4 DEF CreateTask

LEMMA UpdateTaskKeeps ==
  ASSUME IInv, NEW p \in Procs, NEW t \in Tasks, NEW s \in TaskStatus,
         NEW r \in RunId, UpdateTask(p, t, s, r)
  PROVE IInv'
<1> DEFINE i == IF task[t].run = NoRun THEN r ELSE NoRun
           x == [status |-> s, deleted |-> FALSE,
                 run |-> IF r = NoRun THEN task[t].run ELSE r]
<1>1. x \in TaskRow /\ i \in RunId
  BY EmptyRows DEF IInv, TypeOK, TaskRow
<1>2. seen' \in [Procs -> [Tasks -> TaskRow]]
  <2>1. seen' = [seen EXCEPT ![p][t] = x]
    BY DEF UpdateTask
  <2> HIDE DEF x
  <2> QED
    BY <1>1, <2>1 DEF IInv, TypeOK
<1>3. GoOn(p, "task", "write", i, AbsentRun) /\ UNCHANGED <<run, task, todos>>
  BY DEF UpdateTask, tables
<1>4. FrameOK(run, "task", "write", i, AbsentRun)
  BY DEF FrameOK
<1>5. "task" \in Calls /\ "write" \in Statements
  BY DEF Calls, Statements
<1> HIDE DEF i
<1> QED
  BY <1>1, <1>2, <1>3, <1>4, <1>5, EmptyRows, GoOnReads DEF IInv, TypeOK

LEMMA TaskTimeoutKeeps ==
  ASSUME IInv, NEW p \in Procs, NEW t \in Tasks, TaskTimeout(p, t)
  PROVE IInv'
<1>1. task[t].run \in RunId /\ "failed" \in TaskStatus
  BY DEF IInv, TypeOK, TaskRow, TaskStatus
<1> QED
  BY <1>1, UpdateTaskKeeps DEF TaskTimeout

\* DeleteTask, LinkTask and LinkTodo write one column.
LEMMA DeleteTaskKeeps ==
  ASSUME IInv, NEW p \in Procs, NEW t \in Tasks, DeleteTask(p, t)
  PROVE IInv'
<1>1. task' \in [Tasks -> TaskRow]
  BY DEF DeleteTask, IInv, TypeOK, TaskRow
<1> QED
  BY <1>1, TaskWriteKeeps DEF DeleteTask, frame, IInv, TypeOK

LEMMA LinkKeeps ==
  ASSUME IInv, NEW p \in Procs, NEW r \in Runs,
         (\E t \in Tasks : LinkTask(p, t, r)) \/ LinkTodo(p, r)
  PROVE IInv'
<1>1. UNCHANGED <<run, op, pc, id, row, seen>>
  BY DEF LinkTask, LinkTodo, frame
<1>2. task' \in [Tasks -> TaskRow] /\ todos' \subseteq Runs
  BY ZenonT(60) DEF LinkTask, LinkTodo, IInv, TypeOK, TaskRow, RunId
<1>3. seen' \in [Procs -> [Tasks -> TaskRow]]
  BY <1>1 DEF IInv, TypeOK
<1> QED
  BY <1>1, <1>2, <1>3, TaskWriteKeeps
-----------------------------------------------------------------------------
(* The statements that write a run *)

\* Writing a coherent row over run r, or as a new run r: the table grows and
\* stays coherent.
LEMMA RunWrite ==
  ASSUME IInv, NEW r \in Runs, NEW y \in RunRow,
         run' = [run EXCEPT ![r] = y],
         y.status # "absent", Coherent(y), OpenedFor(run, r, y),
         run[r].status # "absent" => ReadFrom(run, r, y)
  PROVE /\ Grows /\ run' \in [Runs -> RunRow]
        /\ RowsCoherent' /\ CancelRunExists'
<1>1. run \in [Runs -> RunRow]
  BY DEF IInv, TypeOK
<1>2. Grows /\ run' \in [Runs -> RunRow]
  BY <1>1 DEF Grows, ReadFrom
<1>3. ASSUME NEW q \in Runs, run'[q].status # "absent"
      PROVE Coherent(run'[q])
  BY <1>1, <1>3 DEF IInv, RowsCoherent, Exists
<1>4. ASSUME NEW q \in Runs, run'[q].cancelRun # NoRun
      PROVE /\ q \in DOMAIN CancelName
            /\ run'[q].cancelRun = CancelName[q]
            /\ run'[CancelName[q]].status # "absent"
  <2>1. /\ q \in DOMAIN CancelName
        /\ run'[q].cancelRun = CancelName[q]
        /\ run[CancelName[q]].status # "absent"
    BY <1>1, <1>4 DEF IInv, CancelRunExists, Exists, OpenedFor
  <2>2. CancelName[q] \in Runs
    BY <2>1, CancelNames
  <2> QED
    BY <1>1, <2>1, <2>2
<1> QED
  BY <1>2, <1>3, <1>4 DEF RowsCoherent, CancelRunExists, Exists

LEMMA InsertRunKeeps ==
  ASSUME IInv, NEW p \in Procs, InsertRun(p)
  PROVE IInv'
<1>1. /\ pc[p] = "insert" /\ Return(p) /\ UNCHANGED <<task, todos>>
  BY DEF InsertRun
<1>2. CASE UNCHANGED run
  BY <1>1, <1>2, ReturnKeeps DEF IInv, TypeOK
<1>3. CASE run' = [run EXCEPT ![id[p]] = row[p]] /\ run[id[p]].status = "absent"
  <2>1. /\ row[p] \in RunRow /\ Fresh(row[p]) /\ id[p] \in Runs
    BY <1>1, FrameOf DEF FrameOK
  <2>2. /\ row[p].status # "absent" /\ Coherent(row[p]) /\ OpenedFor(run, id[p], row[p])
    BY <2>1 DEF Fresh, Sound, Coherent, OpenedFor, EndStatus
  <2>3. Grows /\ run' \in [Runs -> RunRow] /\ RowsCoherent' /\ CancelRunExists'
    BY <1>3, <2>1, <2>2, RunWrite
  <2>4. GoOn(p, "none", "idle", NoRun, AbsentRun)
    BY <1>1 DEF Return
  <2>5. seen' \in [Procs -> [Tasks -> TaskRow]]
    BY <1>1, EmptyRows DEF Return, IInv, TypeOK
  <2>6. "none" \in Calls /\ "idle" \in Statements
    BY DEF Calls, Statements
  <2> QED
    BY <1>1, <2>3, <2>4, <2>5, <2>6, EmptyRows, IdleFrame, GoOnKeeps DEF IInv, TypeOK
<1> QED
  BY <1>2, <1>3 DEF InsertRun, Exists

\* saveRun makes the flag agree with the status it writes.
LEMMA StoredRow ==
  ASSUME NEW x \in RunRow, Sound(x)
  PROVE /\ Stored(x) \in RunRow /\ Coherent(Stored(x))
        /\ Stored(x).status = x.status /\ Stored(x).cancelRun = x.cancelRun
        /\ Stored(x).workflow = x.workflow /\ Stored(x).version = x.version
BY DEF Stored, RunRow, Sound, Coherent

LEMMA SaveRunKeeps ==
  ASSUME IInv, NEW p \in Procs, SaveRun(p)
  PROVE IInv'
<1> DEFINE y == Stored(row[p])
<1>1. /\ pc[p] = "save" /\ run' = [run EXCEPT ![id[p]] = y]
      /\ UNCHANGED <<task, todos>>
  BY DEF SaveRun
<1>2. /\ row[p] \in RunRow /\ id[p] \in RunId /\ op[p] \in Calls
      /\ FrameOK(run, op[p], "save", id[p], row[p])
  BY <1>1, FrameOf
<1>3. /\ id[p] \in Runs /\ row[p].status # "absent" /\ Sound(row[p]) /\ op[p] # "task"
      /\ ReadFrom(run, id[p], row[p]) /\ OpenedFor(run, id[p], row[p])
  BY <1>2 DEF FrameOK
<1>4. /\ y \in RunRow /\ y.status # "absent" /\ Coherent(y)
      /\ ReadFrom(run, id[p], y) /\ OpenedFor(run, id[p], y)
  BY <1>2, <1>3, StoredRow DEF ReadFrom, OpenedFor
<1>5. Grows /\ run' \in [Runs -> RunRow] /\ RowsCoherent' /\ CancelRunExists'
  BY <1>1, <1>3, <1>4, RunWrite
<1>6. run'[id[p]].status # "absent"
  BY <1>1, <1>3, <1>4 DEF IInv, TypeOK
<1>7. CASE Return(p)
  <2>1. GoOn(p, "none", "idle", NoRun, AbsentRun)
    BY <1>7 DEF Return
  <2>2. seen' \in [Procs -> [Tasks -> TaskRow]]
    BY <1>7, EmptyRows DEF Return, IInv, TypeOK
  <2>3. "none" \in Calls /\ "idle" \in Statements
    BY DEF Calls, Statements
  <2> QED
    BY <1>1, <1>5, <2>1, <2>2, <2>3, EmptyRows, IdleFrame, GoOnKeeps DEF IInv, TypeOK
<1>8. ASSUME NEW c \in {"list", "artifacts"},
             GoOn(p, op[p], c, id[p], row[p]), UNCHANGED seen
      PROVE IInv'
  <2>1. FrameOK(run', op[p], c, id[p], row[p])
    BY <1>3, <1>6 DEF FrameOK
  <2>2. c \in Statements
    BY DEF Statements
  <2> QED
    BY <1>1, <1>2, <1>5, <1>8, <2>1, <2>2, GoOnKeeps DEF IInv, TypeOK
<1>9. AfterSave(op[p]) \in {"list", "artifacts", "idle"}
  BY DEF AfterSave
<1> QED
  BY <1>7, <1>8, <1>9 DEF SaveRun

LEMMA InsertCancelRunKeeps ==
  ASSUME IInv, NEW p \in Procs, InsertCancelRun(p)
  PROVE IInv'
<1> DEFINE c == CancelName[id[p]]
           y == NewRun(row[p].stepCancel, row[p].version)
           x == Closed(row[p], c)
<1>1. /\ pc[p] = "insertCancel" /\ UNCHANGED <<task, todos>>
  BY DEF InsertCancelRun
<1>2. /\ row[p] \in RunRow
      /\ FrameOK(run, op[p], "insertCancel", id[p], row[p])
  BY <1>1, FrameOf
<1>3. CASE Return(p) /\ UNCHANGED run
  BY <1>1, <1>3, ReturnKeeps DEF IInv, TypeOK
<1>4. CASE /\ run[c].status = "absent"
           /\ run' = [run EXCEPT ![c] = y]
           /\ GoOn(p, op[p], "save", id[p], x)
           /\ UNCHANGED seen
  <2>1. /\ op[p] = "close" /\ id[p] \in Runs /\ id[p] \in DOMAIN CancelName
        /\ run[id[p]].status # "absent"
        /\ row[p].due /\ row[p].stepCancel # NoWorkflow
        /\ row[p].version # 0 => row[p].workflow # NoWorkflow
        /\ ReadFrom(run, id[p], row[p])
    BY <1>2 DEF FrameOK
  <2>2. c \in Runs /\ c # NoRun
    BY <2>1, CancelNames, EmptyIds
  <2>3. y \in RunRow /\ Fresh(y)
    BY <1>2, <2>1, NewRunRow DEF RunRow
  <2>4. y.status # "absent" /\ Coherent(y) /\ OpenedFor(run, c, y)
    BY <2>3 DEF Fresh, Sound, Coherent, OpenedFor, EndStatus
  <2>5. Grows /\ run' \in [Runs -> RunRow] /\ RowsCoherent' /\ CancelRunExists'
    BY <1>4, <2>2, <2>3, <2>4, RunWrite
  <2>6. run'[c].status # "absent" /\ run'[id[p]].status # "absent"
    BY <1>4, <2>1, <2>2, <2>4, <2>5 DEF Grows, IInv, TypeOK
  <2>7. x \in RunRow /\ FrameOK(run', op[p], "save", id[p], x)
    BY <1>2, <2>1, <2>2, <2>5, <2>6
    DEF Closed, FrameOK, Sound, ReadFrom, OpenedFor, Grows, RunRow, RunStatus, RunId
  <2>8. op[p] \in Calls /\ "save" \in Statements /\ id[p] \in RunId
    BY <2>1 DEF Calls, Statements, RunId
  <2> HIDE DEF x, y, c
  <2> QED
    BY <1>1, <1>4, <2>5, <2>7, <2>8, GoOnKeeps DEF IInv, TypeOK
<1> QED
  BY <1>3, <1>4 DEF InsertCancelRun, Exists
-----------------------------------------------------------------------------
(* The statements that write no run *)

\* What a list of tasks holds has its type.
LEMMA SnapshotType ==
  ASSUME IInv, NEW S
  PROVE Snapshot(S) \in [Tasks -> TaskRow]
BY EmptyRows DEF Snapshot, IInv, TypeOK

\* A call about run r goes on, writing at most the tasks.
LEMMA MovesOn ==
  ASSUME IInv, UNCHANGED run, NEW p \in Procs,
         pc[p] \notin {"idle", "insert"}, op[p] # "task",
         NEW o \in Calls \ {"task"}, NEW x \in RunRow,
         NEW c \in {"list", "tasks", "write", "artifacts", "check", "commit",
                    "finish", "fail"},
         GoOn(p, o, c, id[p], x),
         task' \in [Tasks -> TaskRow], todos' \subseteq Runs,
         seen' \in [Procs -> [Tasks -> TaskRow]]
  PROVE IInv'
<1>1. id[p] \in Runs /\ run[id[p]].status # "absent"
  BY FrameOf DEF FrameOK
<1>2. FrameOK(run, o, c, id[p], x)
  BY <1>1 DEF FrameOK
<1>3. c \in Statements /\ id[p] \in RunId
  BY <1>1 DEF Statements, RunId
<1> QED
  BY <1>2, <1>3, GoOnReads

\* A call at one of these statements is about a run that exists.
LEMMA InCall ==
  ASSUME IInv, NEW p \in Procs, pc[p] \notin {"idle", "insert", "write", "link"}
  PROVE /\ op[p] \in Calls \ {"task"}
        /\ id[p] \in Runs /\ run[id[p]].status # "absent"
BY FrameOf DEF FrameOK

LEMMA ListTasksKeeps ==
  ASSUME IInv, NEW p \in Procs, ListTasks(p)
  PROVE IInv'
<1>1. pc[p] = "list" /\ GoOn(p, op[p], "tasks", id[p], row[p]) /\ UNCHANGED <<run, task, todos>>
  BY DEF ListTasks, tables
<1>2. PICK P \in Page(Held(id[p])) :
        seen' = [seen EXCEPT ![p] = Snapshot(P \cap Unfinished(id[p]))]
  BY DEF ListTasks
<1>3. seen' \in [Procs -> [Tasks -> TaskRow]]
  BY <1>2, SnapshotType DEF IInv, TypeOK
<1> QED
  BY <1>1, <1>3, InCall, FrameOf, MovesOn DEF IInv, TypeOK

LEMMA CancelTaskKeeps ==
  ASSUME IInv, NEW p \in Procs, NEW t \in Tasks, CancelTask(p, t)
  PROVE IInv'
<1>1. seen[p][t] \in TaskRow /\ "cancelled" \in TaskStatus
  BY DEF IInv, TypeOK, TaskStatus
<1>2. [seen[p][t] EXCEPT !.status = "cancelled"] \in TaskRow
  BY <1>1 DEF TaskRow
<1>3. task' \in [Tasks -> TaskRow]
  BY <1>2 DEF CancelTask, IInv, TypeOK
<1>4. seen' \in [Procs -> [Tasks -> TaskRow]]
  BY EmptyRows DEF CancelTask, IInv, TypeOK
<1> QED
  BY <1>3, <1>4, TaskWriteKeeps DEF CancelTask, IInv, TypeOK

LEMMA CascadeDoneKeeps ==
  ASSUME IInv, NEW p \in Procs, CascadeDone(p)
  PROVE IInv'
BY ReturnKeeps DEF CascadeDone, tables, IInv, TypeOK

LEMMA RestartKeeps ==
  ASSUME IInv, NEW p \in Procs, NEW r \in Runs, NEW v \in Versions, Restart(p, r, v)
  PROVE IInv'
<1> DEFINE x == NewRun(row[p].workflow, v)
<1>1. row[p].workflow \in Workflow /\ row[p].workflow # NoWorkflow
  BY FrameOf DEF Restart, RunRow
<1>2. x \in RunRow /\ FrameOK(run, "open", "insert", r, x)
  BY <1>1, NewRunRow DEF FrameOK
<1>3. GoOn(p, "open", "insert", r, x) /\ UNCHANGED <<run, task, todos, seen>>
  BY DEF Restart, tables
<1>4. "open" \in Calls /\ "insert" \in Statements /\ r \in RunId
  BY DEF Calls, Statements, RunId
<1> HIDE DEF x
<1> QED
  BY <1>2, <1>3, <1>4, GoOnReads DEF IInv, TypeOK

LEMMA FindCancelRunKeeps ==
  ASSUME IInv, NEW p \in Procs, FindCancelRun(p)
  PROVE IInv'
<1> DEFINE c == CancelName[id[p]]
           x == Closed(row[p], c)
<1>1. pc[p] = "name" /\ UNCHANGED <<run, task, todos, seen>>
  BY DEF FindCancelRun, tables
<1>2. /\ row[p] \in RunRow /\ op[p] \in Calls /\ id[p] \in RunId
      /\ FrameOK(run, op[p], "name", id[p], row[p])
  BY <1>1, FrameOf
<1>3. CASE run[c].status # "absent" /\ GoOn(p, op[p], "save", id[p], x)
  <2>1. id[p] \in DOMAIN CancelName
    BY <1>2 DEF FrameOK
  <2>2. c \in Runs /\ c # NoRun
    BY <2>1, CancelNames, EmptyIds
  <2>3. x \in RunRow /\ FrameOK(run, op[p], "save", id[p], x)
    BY <1>2, <1>3, <2>2
    DEF Closed, FrameOK, Sound, ReadFrom, OpenedFor, RunRow, RunStatus, RunId
  <2>4. "save" \in Statements
    BY DEF Statements
  <2> HIDE DEF x, c
  <2> QED
    BY <1>1, <1>2, <1>3, <2>3, <2>4, GoOnReads DEF IInv, TypeOK
<1>4. CASE GoOn(p, op[p], "insertCancel", id[p], row[p])
  <2>1. FrameOK(run, op[p], "insertCancel", id[p], row[p])
    BY <1>2 DEF FrameOK
  <2>2. "insertCancel" \in Statements
    BY DEF Statements
  <2> QED
    BY <1>1, <1>2, <1>4, <2>1, <2>2, GoOnReads DEF IInv, TypeOK
<1> QED
  BY <1>3, <1>4 DEF FindCancelRun, Exists

\* setRunStatus, called by the rollback and by the timeout.
LEMMA ReadAndMoveKeeps ==
  ASSUME IInv, NEW p \in Procs, pc[p] \in {"acquire", "finish", "fail", "expire"},
         NEW o \in Calls \ {"task"}, NEW s \in RunStatus \ {"closed"},
         ReadAndMove(p, o, s)
  PROVE IInv'
<1> DEFINE x == [run[id[p]] EXCEPT !.status = s]
<1>1. id[p] \in Runs /\ run[id[p]].status # "absent" /\ UNCHANGED <<run, task, todos>>
  BY InCall DEF ReadAndMove, tables
<1>2. CASE Return(p)
  BY <1>1, <1>2, ReturnKeeps DEF IInv, TypeOK
<1>3. CASE /\ s \in RunNext[run[id[p]].status]
           /\ GoOn(p, o, "save", id[p], x) /\ UNCHANGED seen
  <2>1. run[id[p]].status \notin {"absent", "closed"}
    BY <1>1, <1>3, NextStatuses
  <2>2. x \in RunRow /\ FrameOK(run, o, "save", id[p], x)
    BY <1>1, <2>1, Restatus DEF FrameOK
  <2>3. "save" \in Statements /\ id[p] \in RunId
    BY <1>1 DEF Statements, RunId
  <2> HIDE DEF x
  <2> QED
    BY <1>1, <1>3, <2>2, <2>3, GoOnReads DEF IInv, TypeOK
<1> QED
  BY <1>2, <1>3 DEF ReadAndMove

LEMMA MovesKeep ==
  ASSUME IInv, NEW p \in Procs,
         AcquireRollback(p) \/ FinishRollback(p) \/ FailRollback(p) \/ ExpireRun(p)
  PROVE IInv'
<1>1. /\ {"rollback", "settle", "timeout"} \subseteq Calls \ {"task"}
      /\ {"rolling_back", "rolled_back", "rollback_failed", "failed"}
           \subseteq RunStatus \ {"closed"}
  BY DEF Calls, RunStatus
<1> QED
  BY <1>1, ReadAndMoveKeeps
  DEF AcquireRollback, FinishRollback, FailRollback, ExpireRun

LEMMA EnterArtifactsKeeps ==
  ASSUME IInv, NEW p \in Procs, EnterArtifacts(p)
  PROVE IInv'
<1>1. PICK c \in {"check", "fail"} : GoOn(p, op[p], c, id[p], AbsentRun)
  BY DEF EnterArtifacts
<1>2. pc[p] = "artifacts" /\ UNCHANGED <<run, task, todos, seen>>
  BY DEF EnterArtifacts, tables
<1>3. op[p] \in Calls \ {"task"}
  BY <1>2, InCall
<1>4. /\ task' \in [Tasks -> TaskRow] /\ todos' \subseteq Runs
      /\ seen' \in [Procs -> [Tasks -> TaskRow]]
  BY <1>2 DEF IInv, TypeOK
<1>5. AbsentRun \in RunRow
  BY EmptyRows
<1> QED
  BY <1>1, <1>2, <1>3, <1>4, <1>5, MovesOn

LEMMA CheckArtifactsKeeps ==
  ASSUME IInv, NEW p \in Procs, CheckArtifacts(p)
  PROVE IInv'
<1>1. pc[p] = "check" /\ UNCHANGED <<run, task, todos>>
  BY DEF CheckArtifacts, tables
<1>2. CASE Return(p)
  BY <1>1, <1>2, ReturnKeeps DEF IInv, TypeOK
<1>3. ASSUME NEW c \in {"commit", "fail"},
             GoOn(p, op[p], c, id[p], AbsentRun),
             seen' = [seen EXCEPT ![p] = Snapshot(Held(id[p]))] \/ UNCHANGED seen
      PROVE IInv'
  <2>1. seen' \in [Procs -> [Tasks -> TaskRow]]
    BY <1>3, SnapshotType DEF IInv, TypeOK
  <2>2. op[p] \in Calls \ {"task"}
    BY <1>1, InCall
  <2>3. task' \in [Tasks -> TaskRow] /\ todos' \subseteq Runs
    BY <1>1 DEF IInv, TypeOK
  <2>4. AbsentRun \in RunRow
    BY EmptyRows
  <2> QED
    BY <1>1, <1>3, <2>1, <2>2, <2>3, <2>4, MovesOn
<1> QED
  BY <1>2, <1>3 DEF CheckArtifacts

LEMMA CommitArtifactsKeeps ==
  ASSUME IInv, NEW p \in Procs, CommitArtifacts(p)
  PROVE IInv'
<1>1. ASSUME NEW t \in Tasks
      PROVE [task[t] EXCEPT !.status = "pending", !.run = NoRun] \in TaskRow
  BY EmptyRows DEF IInv, TypeOK, TaskRow, TaskStatus
<1>2. task' \in [Tasks -> TaskRow]
  BY <1>1 DEF CommitArtifacts, IInv, TypeOK
<1>3. pc[p] = "commit" /\ UNCHANGED run /\ todos' \subseteq Runs
  BY DEF CommitArtifacts, IInv, TypeOK
<1>4. CASE Return(p)
  BY <1>2, <1>3, <1>4, ReturnKeeps
<1>5. CASE /\ GoOn(p, op[p], "finish", id[p], AbsentRun)
           /\ seen' = [seen EXCEPT ![p] = NothingSeen]
  <2>1. seen' \in [Procs -> [Tasks -> TaskRow]]
    BY <1>5, EmptyRows DEF IInv, TypeOK
  <2> QED
    BY <1>2, <1>3, <1>5, <2>1, EmptyRows, InCall, MovesOn
<1> QED
  BY <1>4, <1>5 DEF CommitArtifacts

LEMMA FailTaskKeeps ==
  ASSUME IInv, NEW p \in Procs, NEW t \in Tasks, FailTask(p, t)
  PROVE IInv'
<1>1. /\ pc[p] = "tasks" /\ op[p] = "timeout"
      /\ UNCHANGED <<run, task, todos, op, id, row>>
  BY DEF FailTask, tables
<1>2. CASE UNCHANGED pc /\ seen' = [seen EXCEPT ![p][t] = NoTask]
  <2>1. seen' \in [Procs -> [Tasks -> TaskRow]]
    BY <1>2, EmptyRows DEF IInv, TypeOK
  <2> QED
    BY <1>1, <1>2, <2>1, TaskWriteKeeps DEF IInv, TypeOK
<1>3. CASE /\ pc' = [pc EXCEPT ![p] = "write"]
           /\ seen' = [seen EXCEPT ![p][t].status = "failed"]
  <2> seen[p][t] \in TaskRow /\ "failed" \in TaskStatus
    BY DEF IInv, TypeOK, TaskStatus
  <2>1. [seen[p][t] EXCEPT !.status = "failed"] \in TaskRow
    BY DEF TaskRow
  <2>2. seen' = [seen EXCEPT ![p] = [seen[p] EXCEPT ![t] = [seen[p][t] EXCEPT !.status = "failed"]]]
    BY <1>3 DEF IInv, TypeOK
  <2>3. seen' \in [Procs -> [Tasks -> TaskRow]]
    BY <2>1, <2>2 DEF IInv, TypeOK
  <2>4. GoOn(p, op[p], "write", id[p], row[p])
    BY <1>1, <1>3 DEF GoOn, IInv, TypeOK
  <2> QED
    BY <1>1, <2>3, <2>4, InCall, FrameOf, MovesOn DEF IInv, TypeOK
<1> QED
  BY <1>2, <1>3 DEF FailTask

LEMMA WriteTaskKeeps ==
  ASSUME IInv, NEW p \in Procs, NEW t \in Tasks, WriteTask(p, t)
  PROVE IInv'
<1>1. pc[p] = "write" /\ UNCHANGED <<run, todos>> /\ seen[p][t] \in TaskRow
  BY DEF WriteTask, IInv, TypeOK
<1>2. task' \in [Tasks -> TaskRow] /\ todos' \subseteq Runs
  BY <1>1 DEF WriteTask, IInv, TypeOK
<1>3. CASE Return(p)
  BY <1>1, <1>2, <1>3, ReturnKeeps
<1>4. CASE GoLink(p, t, seen[p][t])
  BY <1>1, <1>2, <1>4, GoLinkKeeps
<1>5. CASE /\ op[p] = "timeout" /\ GoOn(p, op[p], "tasks", id[p], row[p])
           /\ seen' = [seen EXCEPT ![p][t] = NoTask]
  <2>1. seen' \in [Procs -> [Tasks -> TaskRow]]
    BY <1>5, EmptyRows DEF IInv, TypeOK
  <2>2. op[p] \in Calls \ {"task"}
    BY <1>5 DEF Calls
  <2> QED
    BY <1>1, <1>2, <1>5, <2>1, <2>2, FrameOf, MovesOn
<1> QED
  BY <1>3, <1>4, <1>5 DEF WriteTask

LEMMA LinkAgainKeeps ==
  ASSUME IInv, NEW p \in Procs, NEW t \in Tasks, LinkAgain(p, t)
  PROVE IInv'
<1>1. [task[t] EXCEPT !.run = seen[p][t].run] \in TaskRow
  BY DEF IInv, TypeOK, TaskRow
<1>2. task' \in [Tasks -> TaskRow]
  BY <1>1 DEF LinkAgain, IInv, TypeOK
<1> QED
  BY <1>2, ReturnKeeps DEF LinkAgain, IInv, TypeOK

LEMMA CrashKeeps ==
  ASSUME IInv, NEW p \in Procs, Crash(p)
  PROVE IInv'
BY ReturnKeeps DEF Crash, tables, IInv, TypeOK
-----------------------------------------------------------------------------
(* The invariant and what follows from it *)

LEMMA InitOK == Init => IInv
<1> SUFFICES ASSUME Init PROVE IInv
  OBVIOUS
<1>1. TypeOK
  BY EmptyRows DEF Init, TypeOK, Calls, Statements
<1>2. RowsCoherent /\ CancelRunExists
  BY DEF Init, RowsCoherent, CancelRunExists, Exists, AbsentRun
<1>3. FramesOK
  BY IdleFrame DEF Init, FramesOK
<1> QED
  BY <1>1, <1>2, <1>3 DEF IInv

LEMMA CallKeeps ==
  ASSUME IInv, NEW p \in Procs, Call(p)
  PROVE IInv'
<1>1. CASE \E r \in Runs, w \in Workflow, v \in Versions \cup {0} : OpenRun(p, r, w, v)
  BY <1>1, OpenRunKeeps
<1>2. CASE \E r \in Runs, s \in RunStatus : SetStatus(p, r, s)
  BY <1>2, SetStatusKeeps
<1>3. CASE \E r \in Runs : CancelRun(p, r)
  BY <1>3, CancelRunKeeps
<1>4. CASE \E r \in Runs : FinalizeCancel(p, r)
  BY <1>4, FinalizeCancelKeeps
<1>5. CASE \E r \in Runs : StopRun(p, r)
  BY <1>5, StopRunKeeps
<1>6. CASE \E r \in Runs, w \in Workflow : BeginStep(p, r, w)
  BY <1>6, BeginStepKeeps
<1>7. CASE \E r \in Runs : AnswerStep(p, r)
  BY <1>7, AnswerStepKeeps
<1>8. CASE \E r \in Runs : Sweep(p, r)
  BY <1>8, SweepKeeps
<1>9. CASE \E r \in Runs : RollbackRun(p, r) \/ PurgeArtifacts(p, r) \/ RunTimeout(p, r)
  BY <1>9, PlainCallKeeps
<1>10. CASE \E t \in Tasks, r \in RunId : CreateTask(p, t, r)
  BY <1>10, CreateTaskKeeps
<1>11. CASE \E t \in Tasks, s \in TaskMoves, r \in RunId : UpdateTask(p, t, s, r)
  BY <1>11, UpdateTaskKeeps, Bounds
<1>12. CASE \E t \in Tasks : TaskTimeout(p, t)
  BY <1>12, TaskTimeoutKeeps
<1>13. CASE \E t \in Tasks : DeleteTask(p, t)
  BY <1>13, DeleteTaskKeeps
<1>14. CASE \E r \in Runs : (\E t \in Tasks : LinkTask(p, t, r)) \/ LinkTodo(p, r)
  BY <1>14, LinkKeeps
<1> QED
  BY <1>1, <1>2, <1>3, <1>4, <1>5, <1>6, <1>7, <1>8, <1>9, <1>10, <1>11, <1>12, <1>13, <1>14
  DEF Call

LEMMA StepKeeps ==
  ASSUME IInv, NEW p \in Procs, Step(p)
  PROVE IInv'
BY InsertRunKeeps, SaveRunKeeps, ListTasksKeeps, CancelTaskKeeps, CascadeDoneKeeps,
   RestartKeeps, FindCancelRunKeeps, InsertCancelRunKeeps, MovesKeep,
   EnterArtifactsKeeps, CheckArtifactsKeeps, CommitArtifactsKeeps,
   FailTaskKeeps, WriteTaskKeeps, LinkAgainKeeps
DEF Step

LEMMA NextKeeps == IInv /\ [Next]_vars => IInv'
<1> SUFFICES ASSUME IInv, [Next]_vars PROVE IInv'
  OBVIOUS
<1>1. CASE UNCHANGED vars
  BY <1>1, TaskWriteKeeps DEF vars, IInv, TypeOK
<1>2. CASE Next
  BY <1>2, CallKeeps, StepKeeps, CrashKeeps DEF Next
<1> QED
  BY <1>1, <1>2

\* IInv holds in every reachable state, for any number of callers.
THEOREM Invariant == Spec => []IInv
<1> QED
  BY InitOK, NextKeeps, PTL DEF Spec

\* Every table and call frame keeps its type: no statement of the code uses a
\* run id it has not read.
THEOREM TypeCorrect == Spec => []TypeOK
<1>1. IInv => TypeOK
  BY DEF IInv
<1> QED
  BY <1>1, Invariant, PTL

\* under_way, the step limit and the closing columns of a run agree with its
\* status, however saves race (saveRun, BeginWorkflowRunStep, closePastLimit).
THEOREM RowsStayCoherent == Spec => []RowsCoherent
<1>1. IInv => RowsCoherent
  BY DEF IInv
<1> QED
  BY <1>1, Invariant, PTL

\* A run that names a cancel run names its own, and that run exists
\* (openCancelRun before the save in closePastLimit).
THEOREM CancelRunIsOpened == Spec => []CancelRunExists
<1>1. IInv => CancelRunExists
  BY DEF IInv
<1> QED
  BY <1>1, Invariant, PTL

\* No call writes a run before its first save or insert.
LEMMA CallsReadRuns ==
  ASSUME NEW p \in Procs, Call(p) \/ Crash(p)
  PROVE UNCHANGED run
<1>1. ASSUME NEW o, NEW c, NEW r, NEW x, Start(p, o, c, r, x)
      PROVE UNCHANGED run
  BY <1>1 DEF Start, tables
<1>2. CASE \/ \E r \in Runs, w \in Workflow, v \in Versions \cup {0} : OpenRun(p, r, w, v)
           \/ \E r \in Runs, s \in RunStatus : SetStatus(p, r, s)
           \/ \E r \in Runs : CancelRun(p, r) \/ FinalizeCancel(p, r) \/ StopRun(p, r)
           \/ \E r \in Runs, w \in Workflow : BeginStep(p, r, w)
           \/ \E r \in Runs : AnswerStep(p, r) \/ Sweep(p, r)
           \/ \E r \in Runs : RollbackRun(p, r) \/ PurgeArtifacts(p, r) \/ RunTimeout(p, r)
  BY <1>1, <1>2 DEF OpenRun, SetStatus, CancelRun, FinalizeCancel, StopRun, BeginStep,
     AnswerStep, Sweep, RollbackRun, PurgeArtifacts, RunTimeout
<1>3. CASE \/ \E t \in Tasks, r \in RunId : CreateTask(p, t, r)
           \/ \E t \in Tasks, s \in TaskMoves, r \in RunId : UpdateTask(p, t, s, r)
           \/ \E t \in Tasks : TaskTimeout(p, t) \/ DeleteTask(p, t)
           \/ \E t \in Tasks, r \in Runs : LinkTask(p, t, r)
           \/ \E r \in Runs : LinkTodo(p, r)
  BY <1>3 DEF CreateTask, UpdateTask, TaskTimeout, DeleteTask, LinkTask, LinkTodo, tables
<1>4. CASE Crash(p)
  BY <1>4 DEF Crash, tables
<1> QED
  BY <1>2, <1>3, <1>4 DEF Call

\* Three statements write a run.
LEMMA StepsReadRuns ==
  ASSUME NEW p \in Procs, Step(p), ~InsertRun(p), ~SaveRun(p), ~InsertCancelRun(p)
  PROVE UNCHANGED run
<1>1. ASSUME NEW o, NEW s, ReadAndMove(p, o, s)
      PROVE UNCHANGED run
  BY <1>1 DEF ReadAndMove, tables
<1>2. CASE AcquireRollback(p) \/ FinishRollback(p) \/ FailRollback(p) \/ ExpireRun(p)
  BY <1>1, <1>2 DEF AcquireRollback, FinishRollback, FailRollback, ExpireRun
<1>3. CASE \/ ListTasks(p) \/ CascadeDone(p) \/ FindCancelRun(p)
           \/ \E r \in Runs, v \in Versions : Restart(p, r, v)
           \/ EnterArtifacts(p) \/ CheckArtifacts(p) \/ CommitArtifacts(p)
  BY <1>3 DEF ListTasks, CascadeDone, FindCancelRun, Restart, EnterArtifacts,
     CheckArtifacts, CommitArtifacts, tables
<1>4. CASE \E t \in Tasks : CancelTask(p, t) \/ FailTask(p, t) \/ WriteTask(p, t) \/ LinkAgain(p, t)
  BY <1>4 DEF CancelTask, FailTask, WriteTask, LinkAgain, tables
<1> QED
  BY <1>2, <1>3, <1>4 DEF Step

\* A statement that writes a run writes what IInv says of its row.
LEMMA WritesOfRun ==
  ASSUME IInv, [Next]_vars, NEW r \in Runs, run'[r] # run[r]
  PROVE \/ run[r].status = "absent" /\ run'[r].status = "pending"
        \/ \E p \in Procs : /\ id[p] = r /\ run'[r] = Stored(row[p])
                            /\ FrameOK(run, op[p], "save", r, row[p])
<1>1. PICK p \in Procs : InsertRun(p) \/ SaveRun(p) \/ InsertCancelRun(p)
  BY CallsReadRuns, StepsReadRuns DEF vars, Next
<1>2. CASE InsertRun(p)
  <2>1. pc[p] = "insert" /\ run' = [run EXCEPT ![id[p]] = row[p]]
        /\ run[id[p]].status = "absent"
    BY <1>2 DEF InsertRun, Exists
  <2>2. row[p].status = "pending"
    BY <2>1, FrameOf DEF FrameOK, Fresh
  <2> QED
    BY <2>1, <2>2 DEF IInv, TypeOK
<1>3. CASE SaveRun(p)
  <2>1. pc[p] = "save" /\ run' = [run EXCEPT ![id[p]] = Stored(row[p])]
    BY <1>3 DEF SaveRun
  <2> QED
    BY <2>1, FrameOf DEF IInv, TypeOK
<1>4. CASE InsertCancelRun(p)
  <2> DEFINE c == CancelName[id[p]]
             y == NewRun(row[p].stepCancel, row[p].version)
  <2>1. run' = [run EXCEPT ![c] = y] /\ run[c].status = "absent"
    BY <1>4 DEF InsertCancelRun, Exists
  <2>2. y.status = "pending"
    BY DEF NewRun, AbsentRun
  <2> QED
    BY <2>1, <2>2 DEF IInv, TypeOK
<1> QED
  BY <1>1, <1>2, <1>3, <1>4

\* A run keeps the workflow and the version it was opened on, whatever stale
\* row a call saves over it.
THEOREM VersionIsKept == Spec => VersionKept
<1>1. ASSUME IInv, [Next]_vars
      PROVE [\A r \in Runs : Exists(r) => /\ run'[r].workflow = run[r].workflow
                                          /\ run'[r].version = run[r].version]_run
  <2> SUFFICES ASSUME NEW r \in Runs, run[r].status # "absent", run'[r] # run[r]
               PROVE /\ run'[r].workflow = run[r].workflow
                     /\ run'[r].version = run[r].version
    BY DEF Exists
  <2>1. PICK p \in Procs : /\ id[p] = r /\ run'[r] = Stored(row[p])
                           /\ FrameOK(run, op[p], "save", r, row[p])
    BY <1>1, WritesOfRun
  <2>2. row[p] \in RunRow /\ Sound(row[p]) /\ ReadFrom(run, r, row[p])
    BY <1>1, <2>1, FrameOf DEF FrameOK
  <2> QED
    BY <2>1, <2>2, StoredRow DEF ReadFrom
<1> QED
  BY <1>1, Invariant, PTL DEF Spec, VersionKept

\* Only the sweep closes a run: no other call saves a closed row over a run
\* that is not closed, even one it read long before.
THEOREM OnlyTheSweepCloses == Spec => ClosedOnlyBySweep
<1>1. ASSUME IInv, [Next]_vars
      PROVE [\A r \in Runs : run[r].status # "closed" /\ run'[r].status = "closed"
               => \E p \in Procs : op[p] = "close" /\ id[p] = r]_run
  <2> SUFFICES ASSUME NEW r \in Runs, run[r].status # "closed", run'[r].status = "closed"
               PROVE \E p \in Procs : op[p] = "close" /\ id[p] = r
    OBVIOUS
  <2>1. PICK p \in Procs : /\ id[p] = r /\ run'[r] = Stored(row[p])
                           /\ FrameOK(run, op[p], "save", r, row[p])
    BY <1>1, WritesOfRun
  <2>2. row[p].status = "closed"
    BY <1>1, <2>1, FrameOf, StoredRow DEF FrameOK
  <2> QED
    BY <2>1, <2>2 DEF FrameOK
<1> QED
  BY <1>1, Invariant, PTL DEF Spec, ClosedOnlyBySweep
-----------------------------------------------------------------------------
(* One caller: nothing it read has changed when it uses it *)

OneCaller == \A p, q \in Procs : p = q

\* No step of p is ever about another caller.
LEMMA OnlyCaller ==
  ASSUME OneCaller, NEW p \in Procs, AbsentHaveNoRun', Steady(p)'
  PROVE Undisturbed'
BY DEF OneCaller, Undisturbed

LEMMA FrameAfter ==
  ASSUME IInv, NEW p \in Procs, NEW o, NEW c, NEW r, NEW x, GoOn(p, o, c, r, x)
  PROVE op'[p] = o /\ pc'[p] = c /\ id'[p] = r /\ row'[p] = x
BY DEF GoOn, IInv, TypeOK

\* A call that has returned holds nothing.
LEMMA ReturnSteady ==
  ASSUME IInv, NEW p \in Procs, Return(p)
  PROVE Steady(p)'
<1>1. pc'[p] = "idle" /\ seen'[p] = NothingSeen
  BY FrameAfter DEF Return, IInv, TypeOK
<1>2. ASSUME NEW t \in Tasks PROVE seen'[p][t] = NoTask
  BY <1>1 DEF NothingSeen
<1>3. Left(p)' = {}
  BY <1>2 DEF Left
<1> QED
  BY <1>1, <1>3 DEF Steady, SavesLegally, SeesRows, SeesUnfinished, GuardHolds

\* A call that goes on to a statement that uses no task row.
LEMMA GoOnSteady ==
  ASSUME IInv, NEW p \in Procs, NEW o, NEW c, NEW r, NEW x, GoOn(p, o, c, r, x),
         c \notin {"idle", "tasks", "write", "link", "commit"},
         c = "save" => /\ LegalMove(run'[r].status, x.status)
                       /\ x.status = "rolled_back" => Empty(r)',
         c \in {"name", "insertCancel"} =>
           x.status = run'[r].status /\ "closed" \in RunNext[x.status],
         c = "finish" => Empty(r)'
  PROVE Steady(p)'
<1>1. op'[p] = o /\ pc'[p] = c /\ id'[p] = r /\ row'[p] = x
  BY FrameAfter
<1>2. ASSUME c = "save", x.status = "rolled_back" PROVE Empty(id[p])'
  BY <1>1, <1>2
<1>3. SavesLegally(p)'
  BY <1>1, <1>2 DEF SavesLegally
<1> QED
  BY <1>1, <1>3 DEF Steady, SeesRows, SeesUnfinished, GuardHolds

LEMMA StartSteady ==
  ASSUME IInv, Undisturbed, NEW p \in Procs, NEW o, NEW c, NEW r, NEW x, Start(p, o, c, r, x),
         c \in {"insert", "save", "name", "acquire", "check", "expire"},
         c = "save" => LegalMove(run[r].status, x.status) /\ x.status # "rolled_back",
         c = "name" => x.status = run[r].status /\ "closed" \in RunNext[x.status]
  PROVE AbsentHaveNoRun' /\ Steady(p)'
<1>1. GoOn(p, o, c, r, x) /\ UNCHANGED <<run, task>>
  BY DEF Start, tables
<1>2. AbsentHaveNoRun'
  BY <1>1 DEF Undisturbed, AbsentHaveNoRun
<1> QED
  BY <1>1, <1>2, GoOnSteady

\* The statuses a run may be closed from.
LEMMA MayClose ==
  ASSUME NEW s \in RunStatus, s \notin EndStatus \cup {"rolling_back", "cancelling"}
  PROVE "closed" \in RunNext[s]
BY DEF RunNext, EndStatus, RunStatus

LEMMA MovesOfRun ==
  /\ "cancelling" \in RunNext["in_progress"]
  /\ RunNext["cancelling"] = {"cancelled"}
<1>1. {"in_progress", "cancelling"} \subseteq RunStatus
  BY DEF RunStatus
<1>2. ASSUME NEW s \in RunStatus, s = "in_progress" PROVE "cancelling" \in RunNext[s]
  BY <1>2 DEF RunNext
<1>3. ASSUME NEW s \in RunStatus, s = "cancelling" PROVE RunNext[s] = {"cancelled"}
  BY <1>3 DEF RunNext
<1> QED
  BY <1>1, <1>2, <1>3

\* The calls that move a run, up to their save.
LEMMA MovingCallsSteady ==
  ASSUME IInv, Undisturbed, NEW p \in Procs, NEW r \in Runs,
         \/ \E s \in RunStatus : SetStatus(p, r, s)
         \/ CancelRun(p, r) \/ FinalizeCancel(p, r) \/ StopRun(p, r)
         \/ \E w \in Workflow : BeginStep(p, r, w)
         \/ AnswerStep(p, r)
  PROVE AbsentHaveNoRun' /\ Steady(p)'
<1>1. run[r] \in RunRow
  BY DEF IInv, TypeOK
<1>2. ASSUME NEW s \in RunStatus, SetStatus(p, r, s) PROVE AbsentHaveNoRun' /\ Steady(p)'
  <2>1. PICK x : x = [run[r] EXCEPT !.status = s]
    OBVIOUS
  <2>2. x.status = s /\ s \in RunNext[run[r].status] /\ s # "rolled_back"
    BY <1>1, <1>2, <2>1 DEF SetStatus, RunRow, RollbackOwned
  <2> QED
    BY <1>2, <2>1, <2>2, StartSteady DEF SetStatus, LegalMove
<1>3. CASE CancelRun(p, r)
  <2>1. PICK x : x = [run[r] EXCEPT !.status = "cancelling"]
    OBVIOUS
  <2>2. x.status = "cancelling" /\ run[r].status = "in_progress"
    BY <1>1, <1>3, <2>1 DEF CancelRun, RunRow
  <2> QED
    BY <1>3, <2>1, <2>2, StartSteady, MovesOfRun DEF CancelRun, LegalMove
<1>4. CASE FinalizeCancel(p, r)
  <2>1. PICK x : x = [run[r] EXCEPT !.status = "cancelled"]
    OBVIOUS
  <2>2. x.status = "cancelled" /\ run[r].status = "cancelling"
    BY <1>1, <1>4, <2>1 DEF FinalizeCancel, RunRow
  <2> QED
    BY <1>4, <2>1, <2>2, StartSteady, MovesOfRun DEF FinalizeCancel, LegalMove
<1>5. CASE StopRun(p, r)
  <2>1. PICK x : x = [run[r] EXCEPT !.status = "cancelled", !.underWay = FALSE]
    OBVIOUS
  <2>2. x.status = "cancelled" /\ run[r].status \notin EndStatus \cup {"rolling_back"}
    BY <1>1, <1>5, <2>1 DEF StopRun, RunRow
  <2> QED
    BY <1>5, <2>1, <2>2, StartSteady DEF StopRun, LegalMove
<1>6. ASSUME NEW w \in Workflow, BeginStep(p, r, w) PROVE AbsentHaveNoRun' /\ Steady(p)'
  <2>1. PICK x : x = [run[r] EXCEPT !.due = w # NoWorkflow, !.stepCancel = w]
    OBVIOUS
  <2>2. x.status = run[r].status /\ run[r].status # "rolled_back"
    BY <1>1, <1>6, <2>1 DEF BeginStep, RunRow, EndStatus
  <2> QED
    BY <1>6, <2>1, <2>2, StartSteady DEF BeginStep, LegalMove
<1>7. CASE AnswerStep(p, r)
  <2>1. PICK x : x = [run[r] EXCEPT !.due = FALSE, !.stepCancel = NoWorkflow]
    OBVIOUS
  <2>2. x.status = run[r].status /\ run[r].status # "rolled_back"
    BY <1>1, <1>7, <2>1 DEF AnswerStep, RunRow, EndStatus
  <2> QED
    BY <1>7, <2>1, <2>2, StartSteady DEF AnswerStep, LegalMove
<1> QED
  BY <1>2, <1>3, <1>4, <1>5, <1>6, <1>7

\* The calls that only read at first.
LEMMA ReadingCallsSteady ==
  ASSUME IInv, Undisturbed, NEW p \in Procs, NEW r \in Runs,
         \/ \E w \in Workflow, v \in Versions \cup {0} : OpenRun(p, r, w, v)
         \/ Sweep(p, r) \/ RollbackRun(p, r) \/ PurgeArtifacts(p, r) \/ RunTimeout(p, r)
  PROVE AbsentHaveNoRun' /\ Steady(p)'
<1>1. ASSUME NEW w \in Workflow, NEW v \in Versions \cup {0}, OpenRun(p, r, w, v)
      PROVE AbsentHaveNoRun' /\ Steady(p)'
  BY <1>1, StartSteady DEF OpenRun
<1>2. CASE Sweep(p, r)
  <2>1. /\ run[r].status \in RunStatus
        /\ run[r].status \notin EndStatus \cup {"rolling_back", "cancelling"}
    BY <1>2, RowOf DEF Sweep, Exists
  <2>2. "closed" \in RunNext[run[r].status]
    BY <2>1, MayClose
  <2> QED
    BY <1>2, <2>2, StartSteady DEF Sweep
<1>3. CASE RollbackRun(p, r) \/ PurgeArtifacts(p, r) \/ RunTimeout(p, r)
  BY <1>3, StartSteady DEF RollbackRun, PurgeArtifacts, RunTimeout
<1> QED
  BY <1>1, <1>2, <1>3

\* A call of one statement leaves its caller idle.
LEMMA IdleSteady ==
  ASSUME IInv, Undisturbed, NEW p \in Procs, Idle(p), UNCHANGED frame
  PROVE Steady(p)'
<1>1. pc'[p] = "idle" /\ seen' = seen
  BY DEF frame, Idle
<1>2. Left(p)' = {}
  BY <1>1 DEF Undisturbed, Steady, SeesRows, Idle, Left
<1> QED
  BY <1>1, <1>2 DEF Steady, SavesLegally, SeesRows, SeesUnfinished, GuardHolds

\* A caller that was idle holds the row it has just read or made.
LEMMA OneRowSteady ==
  ASSUME IInv, Undisturbed, NEW p \in Procs, Idle(p), NEW t \in Tasks, NEW x \in TaskRow,
         op'[p] = "task", pc'[p] \in {"write", "link"}, seen' = [seen EXCEPT ![p][t] = x],
         x.status # "absent", task'[t].run # NoRun => x.run # NoRun
  PROVE Steady(p)'
<1>1. ASSUME NEW u \in Tasks, u # t PROVE seen'[p][u] = NoTask
  BY <1>1 DEF IInv, TypeOK, Undisturbed, Steady, SeesRows, Left, Idle
<1>2. seen'[p][t] = x
  BY DEF IInv, TypeOK
<1>3. SeesRows(p)'
  BY <1>1, <1>2 DEF SeesRows, Left
<1> QED
  BY <1>3 DEF Steady, SavesLegally, SeesUnfinished, GuardHolds

LEMMA TaskCallsSteady ==
  ASSUME IInv, Undisturbed, NEW p \in Procs,
         \/ \E t \in Tasks, r \in RunId : CreateTask(p, t, r)
         \/ \E t \in Tasks, s \in TaskStatus, r \in RunId : UpdateTask(p, t, s, r)
         \/ \E t \in Tasks : DeleteTask(p, t)
         \/ \E t \in Tasks, r \in Runs : LinkTask(p, t, r)
         \/ \E r \in Runs : LinkTodo(p, r)
  PROVE AbsentHaveNoRun' /\ Steady(p)'
<1>1. ASSUME NEW t \in Tasks, NEW r \in RunId, CreateTask(p, t, r)
      PROVE AbsentHaveNoRun' /\ Steady(p)'
  <2>1. PICK x : x = [status |-> "pending", run |-> r, deleted |-> FALSE]
    OBVIOUS
  <2>2. x \in TaskRow /\ x.status = "pending" /\ x.run = r
    BY <2>1 DEF TaskRow, TaskStatus
  <2>3. task' = [task EXCEPT ![t] = x] /\ task'[t] = x /\ Idle(p)
    BY <1>1, <2>1 DEF CreateTask, IInv, TypeOK
  <2>4. AbsentHaveNoRun'
    BY <2>2, <2>3 DEF Undisturbed, AbsentHaveNoRun, IInv, TypeOK
  <2>5. CASE UNCHANGED frame
    BY <2>3, <2>4, <2>5, IdleSteady
  <2>6. CASE GoLink(p, t, x)
    <3>1. op'[p] = "task" /\ pc'[p] = "link" /\ seen' = [seen EXCEPT ![p][t] = x]
      BY <2>6 DEF GoLink, IInv, TypeOK
    <3> QED
      BY <2>2, <2>3, <2>4, <3>1, OneRowSteady
  <2> QED
    BY <1>1, <2>1, <2>5, <2>6 DEF CreateTask
<1>2. ASSUME NEW t \in Tasks, NEW s \in TaskStatus, NEW r \in RunId, UpdateTask(p, t, s, r)
      PROVE AbsentHaveNoRun' /\ Steady(p)'
  <2>1. PICK x : x = [status |-> s, deleted |-> FALSE,
                      run |-> IF r = NoRun THEN task[t].run ELSE r]
    OBVIOUS
  <2>2. task[t].run \in RunId
    BY DEF IInv, TypeOK, TaskRow
  <2>3. /\ x \in TaskRow /\ x.status # "absent"
        /\ task[t].run # NoRun => x.run # NoRun
    BY <2>1, <2>2 DEF TaskRow, TaskStatus
  <2>4. Idle(p) /\ seen' = [seen EXCEPT ![p][t] = x] /\ UNCHANGED task
    BY <1>2, <2>1 DEF UpdateTask, tables
  <2>5. op'[p] = "task" /\ pc'[p] = "write"
    BY <1>2, FrameAfter DEF UpdateTask
  <2>6. AbsentHaveNoRun'
    BY <2>4 DEF Undisturbed, AbsentHaveNoRun
  <2> QED
    BY <2>3, <2>4, <2>5, <2>6, OneRowSteady
<1>3. CASE \/ \E t \in Tasks : DeleteTask(p, t)
           \/ \E t \in Tasks, r \in Runs : LinkTask(p, t, r)
           \/ \E r \in Runs : LinkTodo(p, r)
  <2>1. Idle(p) /\ UNCHANGED frame
    BY <1>3 DEF DeleteTask, LinkTask, LinkTodo
  <2>2. \A t \in Tasks : task[t] \in TaskRow
    BY DEF IInv, TypeOK
  <2>3. \A t \in Tasks : /\ task[t].status # "absent" \/ task'[t] = task[t]
                         /\ task'[t].status = task[t].status
    <3>1. ASSUME NEW t \in Tasks, DeleteTask(p, t)
          PROVE task[t].status # "absent" /\ task'[t].status = task[t].status
                /\ \A u \in Tasks \ {t} : task'[u] = task[u]
      BY <3>1, <2>2 DEF DeleteTask, Live, TaskRow, IInv, TypeOK
    <3>2. ASSUME NEW t \in Tasks, NEW r \in Runs, LinkTask(p, t, r)
          PROVE task[t].status # "absent" /\ task'[t].status = task[t].status
                /\ \A u \in Tasks \ {t} : task'[u] = task[u]
      BY <3>2, <2>2 DEF LinkTask, Live, TaskRow, IInv, TypeOK
    <3>3. CASE UNCHANGED task
      BY <3>3
    <3> QED
      BY <1>3, <3>1, <3>2, <3>3 DEF LinkTodo
  <2>4. AbsentHaveNoRun'
    BY <2>3 DEF Undisturbed, AbsentHaveNoRun
  <2> QED
    BY <2>1, <2>4, IdleSteady
<1> QED
  BY <1>1, <1>2, <1>3

\* A statement that writes no task.
LEMMA TasksStay ==
  ASSUME Undisturbed, UNCHANGED task
  PROVE AbsentHaveNoRun'
BY DEF Undisturbed, AbsentHaveNoRun

LEMMA RunWritesSteady ==
  ASSUME IInv, Undisturbed, NEW p \in Procs,
         InsertRun(p) \/ SaveRun(p) \/ FindCancelRun(p) \/ InsertCancelRun(p)
  PROVE AbsentHaveNoRun' /\ Steady(p)'
<1>1. UNCHANGED task
  BY DEF InsertRun, SaveRun, FindCancelRun, InsertCancelRun, tables
<1>2. AbsentHaveNoRun'
  BY <1>1, TasksStay
<1>3. CASE Return(p)
  BY <1>2, <1>3, ReturnSteady
<1>4. CASE SaveRun(p) /\ ~Return(p)
  <2>1. /\ AfterSave(op[p]) \in {"list", "artifacts"}
        /\ GoOn(p, op[p], AfterSave(op[p]), id[p], row[p])
    BY <1>4 DEF SaveRun, AfterSave
  <2> QED
    BY <1>2, <2>1, GoOnSteady
<1>5. CASE (FindCancelRun(p) \/ InsertCancelRun(p)) /\ ~Return(p)
  <2>1. /\ pc[p] \in {"name", "insertCancel"} /\ id[p] \in DOMAIN CancelName
        /\ id[p] \in Runs /\ row[p] \in RunRow /\ run[id[p]].status # "absent"
    BY <1>5, FrameOf DEF FindCancelRun, InsertCancelRun, FrameOK
  <2>2. row[p].status = run[id[p]].status /\ "closed" \in RunNext[row[p].status]
    BY <2>1 DEF Undisturbed, Steady, SavesLegally
  <2>3. PICK c : c = CancelName[id[p]]
    OBVIOUS
  <2>4. c # id[p] /\ c \in Runs
    BY <2>1, <2>3, CancelNames
  <2>5. run'[id[p]] = run[id[p]]
    BY <1>5, <2>1, <2>3, <2>4 DEF FindCancelRun, InsertCancelRun, tables, IInv, TypeOK
  <2>6. Closed(row[p], c).status = "closed"
    BY <2>1 DEF Closed, RunRow
  <2>7. CASE GoOn(p, op[p], "save", id[p], Closed(row[p], c))
    BY <1>2, <2>2, <2>5, <2>6, <2>7, GoOnSteady DEF LegalMove
  <2>8. CASE GoOn(p, op[p], "insertCancel", id[p], row[p])
    BY <1>2, <2>2, <2>5, <2>8, GoOnSteady
  <2> QED
    BY <1>5, <2>3, <2>7, <2>8 DEF FindCancelRun, InsertCancelRun
<1> QED
  BY <1>3, <1>4, <1>5 DEF InsertRun

\* Every task that is not finished may be cancelled.
LEMMA MayCancel ==
  ASSUME NEW s \in TaskStatus \ TaskEnd
  PROVE "cancelled" \in TaskNext[s]
BY DEF TaskStatus, TaskEnd, TaskNext

\* What is missing from a page of the tasks of a run is beyond the page.
LEMMA MissingBeyond ==
  ASSUME IsFiniteSet(Tasks), NEW r, NEW P \in Page(Held(r)), NEW S, S \subseteq Held(r) \ P
  PROVE BeyondPage(r, S)
<1> DEFINE H == Held(r)
<1>1. IsFiniteSet(H) /\ H \subseteq Tasks
  BY FS_Subset DEF Held
<1>2. CASE P = H
  BY <1>2 DEF BeyondPage
<1>3. CASE Cardinality(P) = PageSize /\ P \subseteq H
  <2> HIDE DEF H
  <2>1. IsFiniteSet(P) /\ IsFiniteSet(H \ P)
    BY <1>1, <1>3, FS_Subset
  <2>2. Cardinality(H \ P) = Cardinality(H) - Cardinality(H \cap P)
    BY <1>1, FS_Difference
  <2>3. H \cap P = P
    BY <1>3
  <2>4. IsFiniteSet(S) /\ Cardinality(S) <= Cardinality(H \ P)
    BY <2>1, FS_Subset DEF H
  <2>5. Cardinality(S) \in Nat /\ Cardinality(H) \in Nat /\ PageSize \in Nat
    BY <1>1, <2>4, FS_CardinalityType, Pages
  <2>6. Cardinality(H \ P) = Cardinality(H) - PageSize
    BY <1>3, <2>2, <2>3
  <2>7. \A i, j, k, n \in Int : i <= j /\ j = k - n => i + n <= k
    OBVIOUS
  <2>8. Cardinality(H) - PageSize \in Int
    BY <2>5
  <2>9. Cardinality(S) + PageSize <= Cardinality(H)
    BY <2>4, <2>5, <2>6, <2>7, <2>8
  <2> QED
    BY <2>9 DEF BeyondPage, H
<1> QED
  BY <1>2, <1>3 DEF Page

LEMMA ListSteady ==
  ASSUME IInv, Undisturbed, NEW p \in Procs, ListTasks(p)
  PROVE AbsentHaveNoRun' /\ Steady(p)'
<1>1. PICK P \in Page(Held(id[p])) :
        seen' = [seen EXCEPT ![p] = Snapshot(P \cap Unfinished(id[p]))]
  BY DEF ListTasks
<1>2. UNCHANGED <<run, task>> /\ GoOn(p, op[p], "tasks", id[p], row[p])
  BY DEF ListTasks, tables
<1>3. op'[p] = op[p] /\ pc'[p] = "tasks" /\ id'[p] = id[p]
  BY <1>2, FrameAfter
<1>4. AbsentHaveNoRun'
  BY <1>2, TasksStay
<1>5. PICK L : L = P \cap Unfinished(id[p])
  OBVIOUS
<1>6. \A t \in L : t \in Tasks /\ task[t].status \in TaskStatus \ TaskEnd
  BY <1>5 DEF Unfinished, Held, Live, IInv, TypeOK, TaskRow
<1>7. seen'[p] = Snapshot(L)
  BY <1>1, <1>5 DEF IInv, TypeOK
<1>8. \A t \in Left(p)' : t \in L /\ seen'[p][t] = task'[t]
  BY <1>2, <1>7 DEF Left, Snapshot
<1>9. ASSUME NEW t \in L PROVE t \in Left(p)'
  <2>1. task[t].status # "absent" /\ t \in Tasks
    BY <1>6 DEF TaskStatus
  <2>2. task[t] # NoTask
    BY <2>1 DEF NoTask
  <2> QED
    BY <1>7, <2>1, <2>2 DEF Left, Snapshot
<1>10. SeesRows(p)'
  BY <1>2, <1>3, <1>6, <1>8 DEF SeesRows, TaskStatus
<1>11. ASSUME IsFiniteSet(Tasks) PROVE BeyondPage(id[p], Unfinished(id[p]) \ Left(p))'
  <2>1. Held(id[p])' = Held(id[p]) /\ Unfinished(id[p])' = Unfinished(id[p])
    BY <1>2, <1>3 DEF Unfinished, Held, Live
  <2>2. Unfinished(id[p]) \ Left(p)' \subseteq Held(id[p]) \ P
    BY <1>5, <1>9 DEF Unfinished
  <2>3. BeyondPage(id[p], Unfinished(id[p]) \ Left(p)')
    BY <1>11, <2>2, MissingBeyond
  <2> QED
    BY <1>3, <2>1, <2>3 DEF BeyondPage
<1>12. SeesUnfinished(p)'
  BY <1>2, <1>6, <1>8, <1>11, MayCancel DEF SeesUnfinished
<1> QED
  BY <1>3, <1>4, <1>10, <1>12 DEF Steady, SavesLegally, GuardHolds

LEMMA CancelSteady ==
  ASSUME IInv, Undisturbed, NEW p \in Procs, NEW t \in Tasks, CancelTask(p, t)
  PROVE AbsentHaveNoRun' /\ Steady(p)'
<1>1. /\ pc[p] = "tasks" /\ op[p] \in {"cancel", "stop", "close"} /\ t \in Left(p)
      /\ seen' = [seen EXCEPT ![p][t] = NoTask] /\ UNCHANGED <<run, op, pc, id, row>>
  BY DEF CancelTask
<1>2. /\ \A u \in Left(p) : seen[p][u] = task[u] /\ "cancelled" \in TaskNext[task[u].status]
      /\ IsFiniteSet(Tasks) => BeyondPage(id[p], Unfinished(id[p]) \ Left(p))
  BY <1>1 DEF Undisturbed, Steady, SeesUnfinished
<1>3. PICK x : x = [task[t] EXCEPT !.status = "cancelled"]
  OBVIOUS
<1>4. task[t] \in TaskRow /\ x.status = "cancelled" /\ x.run = task[t].run
  BY <1>3 DEF IInv, TypeOK, TaskRow
<1>5. task' = [task EXCEPT ![t] = x] /\ task'[t] = x /\ \A u \in Tasks \ {t} : task'[u] = task[u]
  BY <1>1, <1>2, <1>3 DEF CancelTask, IInv, TypeOK
<1>6. seen'[p][t] = NoTask /\ \A u \in Tasks \ {t} : seen'[p][u] = seen[p][u]
  BY <1>1 DEF IInv, TypeOK
<1>7. Left(p)' = Left(p) \ {t}
  BY <1>6 DEF Left
<1>8. AbsentHaveNoRun'
  BY <1>4, <1>5 DEF Undisturbed, AbsentHaveNoRun
<1>9. SeesRows(p)'
  BY <1>1, <1>5, <1>6, <1>7 DEF Undisturbed, Steady, SeesRows, Left
<1>10. ASSUME IsFiniteSet(Tasks) PROVE BeyondPage(id[p], Unfinished(id[p]) \ Left(p))'
  <2>1. t \notin Unfinished(id[p])'
    BY <1>4, <1>5 DEF Unfinished, TaskEnd
  <2>2. Held(id[p])' = Held(id[p])
    <3>1. task[t].status # "absent" /\ t \in Tasks
      BY <1>1, <1>2 DEF Undisturbed, Steady, SeesRows, Left
    <3>2. x.deleted = task[t].deleted
      BY <1>3, <1>4 DEF TaskRow
    <3> QED
      BY <1>1, <1>4, <1>5, <3>1, <3>2 DEF Held, Live
  <2>3. Unfinished(id[p])' = Unfinished(id[p]) \ {t}
    BY <1>5, <2>1, <2>2 DEF Unfinished
  <2>4. (Unfinished(id[p]) \ Left(p))' = Unfinished(id[p]) \ Left(p)
    BY <1>1, <1>7, <2>3
  <2>5. id'[p] = id[p]
    BY <1>1
  <2> QED
    BY <1>2, <1>10, <2>2, <2>4, <2>5 DEF BeyondPage
<1>11. SeesUnfinished(p)'
  BY <1>2, <1>5, <1>6, <1>7, <1>10 DEF SeesUnfinished, Left
<1> QED
  BY <1>1, <1>8, <1>9, <1>11 DEF Steady, SavesLegally, GuardHolds

LEMMA MoveSteady ==
  ASSUME IInv, Undisturbed, NEW p \in Procs,
         AcquireRollback(p) \/ FinishRollback(p) \/ FailRollback(p) \/ ExpireRun(p)
  PROVE AbsentHaveNoRun' /\ Steady(p)'
<1>1. PICK o, s : /\ ReadAndMove(p, o, s)
                  /\ s \in {"rolling_back", "rolled_back", "rollback_failed", "failed"}
                  /\ s = "rolled_back" => pc[p] = "finish"
                  /\ pc[p] \in {"acquire", "finish", "fail", "expire"}
  BY DEF AcquireRollback, FinishRollback, FailRollback, ExpireRun
<1>2. UNCHANGED <<run, task, todos>>
  BY <1>1 DEF ReadAndMove, tables
<1>3. AbsentHaveNoRun'
  BY <1>2, TasksStay
<1>4. CASE Return(p)
  BY <1>3, <1>4, ReturnSteady
<1>5. CASE s \in RunNext[run[id[p]].status] /\ GoOn(p, o, "save", id[p], [run[id[p]] EXCEPT !.status = s])
  <2>1. PICK r, x : r = id[p] /\ x = [run[r] EXCEPT !.status = s]
    OBVIOUS
  <2>2. r \in Runs /\ run[r] \in RunRow
    BY <1>1, <2>1, InCall DEF IInv, TypeOK
  <2>3. x.status = s /\ LegalMove(run'[r].status, x.status)
    BY <1>2, <1>5, <2>1, <2>2 DEF LegalMove, RunRow
  <2>4. ASSUME s = "rolled_back" PROVE Empty(r)'
    <3>1. Empty(r)
      BY <1>1, <2>1, <2>4 DEF Undisturbed, Steady, SavesLegally
    <3> QED
      BY <1>2, <3>1 DEF Empty, Held, Live
  <2>5. GoOn(p, o, "save", r, x)
    BY <1>5, <2>1
  <2> QED
    BY <1>3, <2>3, <2>4, <2>5, GoOnSteady
<1> QED
  BY <1>1, <1>4, <1>5 DEF ReadAndMove

LEMMA CheckSteady ==
  ASSUME IInv, Undisturbed, NEW p \in Procs, EnterArtifacts(p) \/ CheckArtifacts(p)
  PROVE AbsentHaveNoRun' /\ Steady(p)'
<1>1. UNCHANGED <<run, task, todos>>
  BY DEF EnterArtifacts, CheckArtifacts, tables
<1>2. AbsentHaveNoRun'
  BY <1>1, TasksStay
<1>3. CASE Return(p)
  BY <1>2, <1>3, ReturnSteady
<1>4. ASSUME NEW c \in {"check", "fail"}, GoOn(p, op[p], c, id[p], AbsentRun)
      PROVE Steady(p)'
  BY <1>4, GoOnSteady
<1>5. CASE /\ ForeignDependents(id[p]) = {}
           /\ GoOn(p, op[p], "commit", id[p], AbsentRun)
           /\ seen' = [seen EXCEPT ![p] = Snapshot(Held(id[p]))]
  <2>1. pc'[p] = "commit" /\ id'[p] = id[p]
    BY <1>5, FrameAfter
  <2>2. seen'[p] = Snapshot(Held(id[p]))
    BY <1>5 DEF IInv, TypeOK
  <2>3. /\ Snapshot(Held(id[p]))' = Snapshot(Held(id[p]))
        /\ ForeignDependents(id[p])' = ForeignDependents(id[p])
    BY <1>1, <2>1 DEF Snapshot, ForeignDependents, Held, Live
  <2>4. GuardHolds(p)'
    BY <1>5, <2>2, <2>3 DEF GuardHolds
  <2> QED
    BY <1>2, <2>1, <2>4 DEF Steady, SavesLegally, SeesRows, SeesUnfinished
<1> QED
  BY <1>2, <1>3, <1>4, <1>5 DEF EnterArtifacts, CheckArtifacts

\* The tasks that a commit takes out of the run are those it holds.
LEMMA CommitsHeld ==
  ASSUME IInv, Undisturbed, NEW p \in Procs, pc[p] = "commit"
  PROVE Left(p) = Held(id[p])
<1>1. seen[p] = Snapshot(Held(id[p]))
  BY DEF Undisturbed, Steady, GuardHolds
<1>2. \A t \in Held(id[p]) : t \in Tasks /\ task[t] # NoTask
  BY DEF Held, Live, NoTask
<1> QED
  BY <1>1, <1>2 DEF Left, Snapshot

LEMMA CommitSteady ==
  ASSUME IInv, Undisturbed, NEW p \in Procs, CommitArtifacts(p)
  PROVE AbsentHaveNoRun' /\ Steady(p)'
<1>1. pc[p] = "commit" /\ id[p] \in Runs /\ Left(p) = Held(id[p])
  BY CommitsHeld, InCall DEF CommitArtifacts
<1>2. ASSUME NEW t \in Tasks
      PROVE /\ t \in Held(id[p]) => task'[t].run = NoRun
            /\ t \notin Held(id[p]) => task'[t] = task[t]
  <2>1. task[t] \in TaskRow
    BY DEF IInv, TypeOK
  <2> QED
    BY <1>1, <2>1 DEF CommitArtifacts, TaskRow
<1>3. AbsentHaveNoRun'
  BY <1>2 DEF Undisturbed, AbsentHaveNoRun
<1>4. CASE Return(p)
  BY <1>3, <1>4, ReturnSteady
<1>5. CASE GoOn(p, op[p], "finish", id[p], AbsentRun)
  <2>1. PICK r : r = id[p]
    OBVIOUS
  <2>2. ASSUME NEW t \in Held(r)' PROVE FALSE
    <3>1. t \in Tasks /\ task'[t].run = r /\ Live(t)'
      BY DEF Held
    <3> QED
      BY <1>1, <1>2, <2>1, <3>1, EmptyIds DEF Held, Live
  <2>3. r \notin todos'
    BY <2>1 DEF CommitArtifacts
  <2>4. Empty(r)'
    BY <2>2, <2>3 DEF Empty
  <2> QED
    BY <1>3, <1>5, <2>1, <2>4, GoOnSteady
<1> QED
  BY <1>4, <1>5 DEF CommitArtifacts

\* The cascade of a timeout, and the calls that write one task.
LEMMA TaskStepsSteady ==
  ASSUME IInv, Undisturbed, NEW p \in Procs, NEW t \in Tasks,
         FailTask(p, t) \/ WriteTask(p, t) \/ LinkAgain(p, t)
  PROVE AbsentHaveNoRun' /\ Steady(p)'
<1>1. PICK y : y = seen[p][t]
  OBVIOUS
<1>2. /\ pc[p] \in {"tasks", "write", "link"} /\ t \in Left(p)
      /\ y \in TaskRow /\ task[t] \in TaskRow
  BY <1>1 DEF FailTask, WriteTask, LinkAgain, IInv, TypeOK
<1>3. /\ y.status # "absent" /\ (task[t].run # NoRun => y.run # NoRun)
      /\ \A u \in Left(p) : seen[p][u].status # "absent" /\ (task[u].run # NoRun => seen[p][u].run # NoRun)
  BY <1>1, <1>2 DEF Undisturbed, Steady, SeesRows
<1>4. \A u \in Tasks \ {t} : task'[u] = task[u]
  BY DEF FailTask, WriteTask, LinkAgain, tables, IInv, TypeOK
<1>5. /\ task'[t] \in {task[t], y, [task[t] EXCEPT !.run = y.run]}
      /\ LinkAgain(p, t) => task'[t] = task[t] \/ task[t].status # "absent"
      /\ ~LinkAgain(p, t) => task'[t] \in {task[t], y}
  BY <1>1 DEF FailTask, WriteTask, LinkAgain, tables, Live, IInv, TypeOK
<1>6. task'[t].status = "absent" => task[t].status = "absent" /\ task'[t] = task[t]
  BY <1>2, <1>3, <1>5 DEF TaskRow
<1>7. AbsentHaveNoRun'
  BY <1>4, <1>6 DEF Undisturbed, AbsentHaveNoRun
<1>8. CASE Return(p)
  BY <1>7, <1>8, ReturnSteady
<1>9. CASE ~Return(p) /\ op'[p] \in {"timeout", "task"} /\ pc'[p] \in {"tasks", "write", "link"}
  <2>1. \/ seen' = [seen EXCEPT ![p][t] = NoTask]
        \/ seen' = [seen EXCEPT ![p][t].status = "failed"]
        \/ seen' = [seen EXCEPT ![p][t] = y]
    BY <1>1, <1>9 DEF FailTask, WriteTask, LinkAgain, GoLink
  <2>2. \A u \in Tasks \ {t} : seen'[p][u] = seen[p][u]
    BY <2>1 DEF IInv, TypeOK
  <2>3. seen'[p][t] = NoTask \/ (seen'[p][t].status # "absent" /\ seen'[p][t].run = y.run)
    <3>1. CASE seen' = [seen EXCEPT ![p][t] = NoTask] \/ seen' = [seen EXCEPT ![p][t] = y]
      BY <1>3, <3>1 DEF IInv, TypeOK
    <3>2. CASE seen' = [seen EXCEPT ![p][t].status = "failed"]
      <4>1. seen'[p][t] = [y EXCEPT !.status = "failed"]
        BY <1>1, <3>2 DEF IInv, TypeOK
      <4> QED
        BY <1>2, <4>1 DEF TaskRow
    <3> QED
      BY <2>1, <3>1, <3>2
  <2>4. task'[t].run # NoRun => y.run # NoRun
    BY <1>2, <1>3, <1>5 DEF TaskRow
  <2>5. SeesRows(p)'
    BY <1>3, <1>4, <1>9, <2>2, <2>3, <2>4 DEF SeesRows, Left
  <2> QED
    BY <1>7, <1>9, <2>5 DEF Steady, SavesLegally, SeesUnfinished, GuardHolds
<1>10. FailTask(p, t) => op'[p] = "timeout" /\ pc'[p] \in {"tasks", "write"}
  BY DEF FailTask, IInv, TypeOK
<1>11. WriteTask(p, t) /\ ~Return(p) => op'[p] \in {"timeout", "task"} /\ pc'[p] \in {"tasks", "link"}
  BY FrameAfter DEF WriteTask, GoLink, IInv, TypeOK
<1> QED
  BY <1>7, <1>8, <1>9, <1>10, <1>11 DEF LinkAgain

LEMMA CallSteady ==
  ASSUME IInv, Undisturbed, NEW p \in Procs, Call(p) \/ Crash(p)
  PROVE AbsentHaveNoRun' /\ Steady(p)'
<1>1. CASE \E r \in Runs : \/ \E s \in RunStatus : SetStatus(p, r, s)
                           \/ CancelRun(p, r) \/ FinalizeCancel(p, r) \/ StopRun(p, r)
                           \/ \E w \in Workflow : BeginStep(p, r, w)
                           \/ AnswerStep(p, r)
  BY <1>1, MovingCallsSteady
<1>2. CASE \E r \in Runs : \/ \E w \in Workflow, v \in Versions \cup {0} : OpenRun(p, r, w, v)
                           \/ Sweep(p, r) \/ RollbackRun(p, r) \/ PurgeArtifacts(p, r)
                           \/ RunTimeout(p, r)
  BY <1>2, ReadingCallsSteady
<1>3. CASE \E t \in Tasks, s \in TaskMoves, r \in RunId : UpdateTask(p, t, s, r)
  <2>1. PICK t \in Tasks, s \in TaskMoves, r \in RunId : UpdateTask(p, t, s, r)
    BY <1>3
  <2>2. s \in TaskStatus
    BY Bounds
  <2> QED
    BY <2>1, <2>2, TaskCallsSteady
<1>4. CASE \E t \in Tasks : TaskTimeout(p, t)
  <2>1. PICK t \in Tasks : UpdateTask(p, t, "failed", task[t].run)
    BY <1>4 DEF TaskTimeout
  <2>2. task[t].run \in RunId /\ "failed" \in TaskStatus
    BY DEF IInv, TypeOK, TaskRow, TaskStatus
  <2> QED
    BY <2>1, <2>2, TaskCallsSteady
<1>5. CASE \/ \E t \in Tasks, r \in RunId : CreateTask(p, t, r)
           \/ \E t \in Tasks : DeleteTask(p, t)
           \/ \E t \in Tasks, r \in Runs : LinkTask(p, t, r)
           \/ \E r \in Runs : LinkTodo(p, r)
  BY <1>5, TaskCallsSteady
<1>6. CASE Crash(p)
  BY <1>6, ReturnSteady, TasksStay DEF Crash, tables
<1> QED
  BY <1>1, <1>2, <1>3, <1>4, <1>5, <1>6 DEF Call

LEMMA StepSteady ==
  ASSUME IInv, Undisturbed, NEW p \in Procs, Step(p)
  PROVE AbsentHaveNoRun' /\ Steady(p)'
<1>1. CASE InsertRun(p) \/ SaveRun(p) \/ FindCancelRun(p) \/ InsertCancelRun(p)
  BY <1>1, RunWritesSteady
<1>2. CASE ListTasks(p)
  BY <1>2, ListSteady
<1>3. CASE \E t \in Tasks : CancelTask(p, t)
  BY <1>3, CancelSteady
<1>4. CASE CascadeDone(p)
  BY <1>4, ReturnSteady, TasksStay DEF CascadeDone, tables
<1>5. ASSUME NEW r \in Runs, NEW v \in Versions, Restart(p, r, v)
      PROVE AbsentHaveNoRun' /\ Steady(p)'
  <2>1. GoOn(p, "open", "insert", r, NewRun(row[p].workflow, v)) /\ UNCHANGED task
    BY <1>5 DEF Restart, tables
  <2> QED
    BY <2>1, GoOnSteady, TasksStay
<1>6. CASE AcquireRollback(p) \/ FinishRollback(p) \/ FailRollback(p) \/ ExpireRun(p)
  BY <1>6, MoveSteady
<1>7. CASE EnterArtifacts(p) \/ CheckArtifacts(p)
  BY <1>7, CheckSteady
<1>8. CASE CommitArtifacts(p)
  BY <1>8, CommitSteady
<1>9. CASE \E t \in Tasks : FailTask(p, t) \/ WriteTask(p, t) \/ LinkAgain(p, t)
  BY <1>9, TaskStepsSteady
<1> QED
  BY <1>1, <1>2, <1>3, <1>4, <1>5, <1>6, <1>7, <1>8, <1>9 DEF Step

\* A run that is there, or becomes anything but pending, is written by a save.
LEMMA WritesAreSaves ==
  ASSUME IInv, [Next]_vars, NEW r \in Runs, run'[r] # run[r],
         run[r].status # "absent" \/ run'[r].status # "pending"
  PROVE \E p \in Procs : pc[p] = "save" /\ id[p] = r /\ run'[r] = Stored(row[p])
<1>1. PICK p \in Procs : InsertRun(p) \/ SaveRun(p) \/ InsertCancelRun(p)
  BY CallsReadRuns, StepsReadRuns DEF vars, Next
<1>2. CASE InsertRun(p)
  <2>1. /\ pc[p] = "insert" /\ run' = [run EXCEPT ![id[p]] = row[p]]
        /\ run[id[p]].status = "absent"
    BY <1>2 DEF InsertRun, Exists
  <2>2. row[p].status = "pending"
    BY <2>1, FrameOf DEF FrameOK, Fresh
  <2> QED
    BY <2>1, <2>2 DEF IInv, TypeOK
<1>3. CASE SaveRun(p)
  BY <1>3 DEF SaveRun, IInv, TypeOK
<1>4. CASE InsertCancelRun(p)
  <2>1. PICK c, y : c = CancelName[id[p]] /\ y = NewRun(row[p].stepCancel, row[p].version)
    OBVIOUS
  <2>2. run' = [run EXCEPT ![c] = y] /\ run[c].status = "absent"
    BY <1>4, <2>1 DEF InsertCancelRun, Exists
  <2>3. y.status = "pending"
    BY <2>1 DEF NewRun, AbsentRun
  <2> QED
    BY <2>2, <2>3 DEF IInv, TypeOK
<1> QED
  BY <1>1, <1>2, <1>3, <1>4

\* With one caller, what a call has read holds until it uses it.
LEMMA StaysUndisturbed ==
  ASSUME OneCaller
  PROVE Spec => [](IInv /\ Undisturbed)
<1>1. ASSUME Init PROVE Undisturbed
  <2>1. \A p \in Procs : pc[p] = "idle" /\ Left(p) = {}
    BY <1>1 DEF Init, Left, NothingSeen
  <2> QED
    BY <1>1, <2>1 DEF Init, Undisturbed, Steady, SavesLegally, SeesRows, SeesUnfinished,
       GuardHolds, AbsentHaveNoRun, NoTask
<1>2. ASSUME IInv, Undisturbed, [Next]_vars PROVE Undisturbed'
  <2>1. CASE UNCHANGED vars
    <3>1. UNCHANGED <<run, task, todos, op, pc, id, row, seen>>
      BY <2>1 DEF vars
    <3>2. \A p \in Procs : SeesUnfinished(p)'
      BY <1>2, <3>1
         DEF Undisturbed, Steady, SeesUnfinished, BeyondPage, Left, Unfinished, Held, Live
    <3> QED
      BY <1>2, <3>1, <3>2 DEF Undisturbed, Steady, SavesLegally, SeesRows,
         GuardHolds, AbsentHaveNoRun, Left, Held, Live, Empty, ForeignDependents, Snapshot
  <2>2. CASE Next
    BY <1>2, <2>2, CallSteady, StepSteady, OnlyCaller DEF Next
  <2> QED
    BY <1>2, <2>1, <2>2
<1> QED
  BY <1>1, <1>2, InitOK, NextKeeps, PTL DEF Spec

\* A cascade that has gone through its list leaves no task of its run unfinished but
\* those beyond a full page, for any number of tasks and any size of the page
\* (cascadeTaskCancellation).
THEOREM CascadesComplete ==
  ASSUME OneCaller, IsFiniteSet(Tasks)
  PROVE Spec => []CascadeComplete
<1>1. IInv /\ Undisturbed => CascadeComplete
  BY DEF Undisturbed, Steady, SeesUnfinished, CascadeComplete
<1> QED
  BY <1>1, StaysUndisturbed, PTL

\* The status of a run moves as CanTransitionTo allows, or to cancelled by a stop,
\* also where the call never asks CanTransitionTo.
THEOREM RunsMoveLegally ==
  ASSUME OneCaller
  PROVE Spec => LegalRunSteps
<1>1. ASSUME IInv, Undisturbed, [Next]_vars
      PROVE [\A r \in Runs : Exists(r) /\ run'[r].status # run[r].status
               => \/ run'[r].status \in RunNext[run[r].status]
                  \/ /\ run'[r].status = "cancelled"
                     /\ run[r].status \notin EndStatus \cup {"rolling_back"}]_run
  <2> SUFFICES ASSUME NEW r \in Runs, run[r].status # "absent", run'[r].status # run[r].status
               PROVE LegalMove(run[r].status, run'[r].status)
    BY DEF Exists, LegalMove
  <2>1. PICK p \in Procs : pc[p] = "save" /\ id[p] = r /\ run'[r] = Stored(row[p])
    BY <1>1, WritesAreSaves
  <2>2. row[p] \in RunRow /\ Sound(row[p])
    BY <1>1, <2>1, FrameOf DEF FrameOK
  <2> QED
    BY <1>1, <2>1, <2>2, StoredRow DEF Undisturbed, Steady, SavesLegally
<1> QED
  BY <1>1, StaysUndisturbed, PTL DEF Spec, LegalRunSteps

\* A run is rolled back only when it holds no task and no todo any more
\* (RollbackWorkflowRun after DeleteWorkflowRunArtifacts).
THEOREM RolledBackRunsAreClean ==
  ASSUME OneCaller
  PROVE Spec => RolledBackIsClean
<1>1. ASSUME IInv, Undisturbed, [Next]_vars
      PROVE [\A r \in Runs : run[r].status # "rolled_back" /\ run'[r].status = "rolled_back"
               => Held(r) = {} /\ r \notin todos]_run
  <2> SUFFICES ASSUME NEW r \in Runs, run[r].status # "rolled_back", run'[r].status = "rolled_back"
               PROVE Empty(r)
    BY DEF Empty
  <2>1. PICK p \in Procs : pc[p] = "save" /\ id[p] = r /\ run'[r] = Stored(row[p])
    BY <1>1, WritesAreSaves
  <2>2. row[p] \in RunRow /\ Sound(row[p])
    BY <1>1, <2>1, FrameOf DEF FrameOK
  <2> QED
    BY <1>1, <2>1, <2>2, StoredRow DEF Undisturbed, Steady, SavesLegally
<1> QED
  BY <1>1, StaysUndisturbed, PTL DEF Spec, RolledBackIsClean

\* Only a compensation takes a task out of its run: every other write of a task
\* row keeps its run or names another.
LEMMA OnlyCommitClears ==
  ASSUME IInv, Undisturbed, NEW p \in Procs, Call(p) \/ Step(p) \/ Crash(p),
         ~CommitArtifacts(p), NEW t \in Tasks, task[t].run # NoRun
  PROVE task'[t].run # NoRun
<1>1. CASE UNCHANGED task
  BY <1>1
<1>2. ASSUME NEW u \in Tasks, NEW r \in Runs, LinkTask(p, u, r)
      PROVE task'[t].run # NoRun
  BY <1>2, EmptyIds DEF LinkTask, IInv, TypeOK, TaskRow
<1>3. ASSUME NEW u \in Tasks, NEW r \in RunId, CreateTask(p, u, r)
      PROVE task'[t].run # NoRun
  <2>1. u # t
    BY <1>3 DEF CreateTask, Undisturbed, AbsentHaveNoRun
  <2> QED
    BY <1>3, <2>1 DEF CreateTask, IInv, TypeOK
<1>4. ASSUME NEW u \in Tasks, DeleteTask(p, u) PROVE task'[t].run # NoRun
  BY <1>4 DEF DeleteTask, IInv, TypeOK, TaskRow
<1>5. ASSUME NEW u \in Tasks, CancelTask(p, u) PROVE task'[t].run # NoRun
  <2>1. seen[p][u] = task[u] /\ task[u] \in TaskRow
    BY <1>5 DEF CancelTask, Undisturbed, Steady, SeesUnfinished, IInv, TypeOK
  <2>2. task' = task \/ task' = [task EXCEPT ![u] = [task[u] EXCEPT !.status = "cancelled"]]
    BY <1>5, <2>1 DEF CancelTask
  <2>3. PICK y : y = [task[u] EXCEPT !.status = "cancelled"]
    OBVIOUS
  <2>4. y.run = task[u].run
    BY <2>1, <2>3 DEF TaskRow
  <2>5. task' = task \/ task' = [task EXCEPT ![u] = y]
    BY <2>2, <2>3
  <2> QED
    BY <2>4, <2>5 DEF IInv, TypeOK
<1>6. ASSUME NEW u \in Tasks, WriteTask(p, u) \/ LinkAgain(p, u)
      PROVE task'[t].run # NoRun
  <2>1. PICK y : y = seen[p][u]
    OBVIOUS
  <2>2. y \in TaskRow /\ task[u] \in TaskRow /\ (task[u].run # NoRun => y.run # NoRun)
    BY <1>6, <2>1 DEF WriteTask, LinkAgain, Undisturbed, Steady, SeesRows, IInv, TypeOK
  <2>3. task' \in {task, [task EXCEPT ![u] = y], [task EXCEPT ![u].run = y.run]}
    BY <1>6, <2>1 DEF WriteTask, LinkAgain
  <2>4. u # t => task'[t] = task[t]
    BY <2>3 DEF IInv, TypeOK
  <2>5. u = t => task'[t] \in {task[t], y, [task[t] EXCEPT !.run = y.run]}
    BY <2>3 DEF IInv, TypeOK
  <2> QED
    BY <2>2, <2>4, <2>5 DEF TaskRow
<1>7. CASE Call(p) \/ Crash(p)
  BY <1>1, <1>2, <1>3, <1>4, <1>7
  DEF Call, Crash, OpenRun, SetStatus, CancelRun, FinalizeCancel, StopRun, BeginStep, AnswerStep,
      Sweep, RollbackRun, PurgeArtifacts, RunTimeout, UpdateTask, TaskTimeout, LinkTodo, Start, tables
<1>8. CASE Step(p)
  BY <1>1, <1>5, <1>6, <1>8
  DEF Step, InsertRun, SaveRun, ListTasks, CascadeDone, Restart, FindCancelRun, InsertCancelRun,
      AcquireRollback, FinishRollback, FailRollback, ExpireRun, ReadAndMove, EnterArtifacts,
      CheckArtifacts, FailTask, tables
<1> QED
  BY <1>7, <1>8

\* A compensation never takes a task away from under a task of another run
\* (the ErrForeignRunDependency guard of DeleteWorkflowRunArtifacts).
THEOREM ForeignDependenciesKept ==
  ASSUME OneCaller
  PROVE Spec => ForeignDependencyKept
<1>1. ASSUME IInv, Undisturbed, [Next]_vars
      PROVE [\A t \in Tasks : task[t].run # NoRun /\ task'[t].run = NoRun
               => \A d \in DependsOn : d[2] = t => task[d[1]].run \in {NoRun, task[t].run}]_task
  <2> SUFFICES ASSUME NEW t \in Tasks, task[t].run # NoRun, task'[t].run = NoRun,
                      NEW d \in DependsOn, d[2] = t
               PROVE task[d[1]].run \in {NoRun, task[t].run}
    OBVIOUS
  <2>1. PICK p \in Procs : CommitArtifacts(p)
    BY <1>1, OnlyCommitClears DEF Next, vars
  <2>2. Left(p) = Held(id[p]) /\ ForeignDependents(id[p]) = {}
    BY <1>1, <2>1, CommitsHeld DEF CommitArtifacts, Undisturbed, Steady, GuardHolds
  <2>3. t \in Held(id[p])
    BY <2>1, <2>2 DEF CommitArtifacts
  <2>4. task[t].run = id[p]
    BY <2>3 DEF Held
  <2>5. d[1] \in Tasks
    BY Bounds
  <2>6. task[d[1]].status = "absent" \/ task[d[1]].run \in {NoRun, id[p]}
    BY <2>2, <2>3 DEF ForeignDependents
  <2> QED
    BY <1>1, <2>4, <2>5, <2>6 DEF Undisturbed, AbsentHaveNoRun
<1> QED
  BY <1>1, StaysUndisturbed, PTL DEF Spec, ForeignDependencyKept

\* closed "is a run status and an end status": with one caller a closed run stays
\* closed, so that what reopens one is a race (saveRun over a stale row).
THEOREM ClosedStaysClosed ==
  ASSUME OneCaller
  PROVE Spec => ClosedIsFinal
<1>1. ASSUME IInv, Undisturbed, [Next]_vars
      PROVE [\A r \in Runs : run[r].status = "closed" => run'[r].status = "closed"]_run
  <2> SUFFICES ASSUME NEW r \in Runs, run[r].status = "closed", run'[r] # run[r]
               PROVE run'[r].status = "closed"
    OBVIOUS
  <2>1. PICK p \in Procs : pc[p] = "save" /\ id[p] = r /\ run'[r] = Stored(row[p])
    BY <1>1, WritesAreSaves
  <2>2. row[p] \in RunRow /\ Sound(row[p])
    BY <1>1, <2>1, FrameOf DEF FrameOK
  <2>3. LegalMove("closed", row[p].status)
    BY <1>1, <2>1 DEF Undisturbed, Steady, SavesLegally
  <2>4. row[p].status = "closed"
    BY <2>3, NextStatuses DEF LegalMove
  <2> QED
    BY <2>1, <2>2, <2>4, StoredRow
<1> QED
  BY <1>1, StaysUndisturbed, PTL DEF Spec, ClosedIsFinal
=============================================================================
