----------------------------- MODULE Assignments -----------------------------
(***************************************************************************)
(* Who holds a task (assignment.go, assignee.go) and what it waits for     *)
(* (assignment_unblock.go): a task is handed from one holder to the next   *)
(* with a history of the stretches, and one that is assigned before the    *)
(* tasks it depends on have finished is blocked until they have.           *)
(*                                                                         *)
(* Each call is its statements, as in WorkflowRuns; findUnmetDependencies  *)
(* and findActiveBlockers, which only read, are one step each.  The run of *)
(* a task is that module's.                                                *)
(***************************************************************************)
EXTENDS Naturals, Lifecycle

CONSTANTS
  Procs,    \* concurrent callers
  Tasks,    \* task ids
  Holders,  \* the agents, persons and roles that may hold a task
  Agents,   \* the agents among them
  NoOne,    \* no holder
  NoTask,   \* no task
  Blocks,   \* <<t, u>>: t blocks u
  Edges,    \* the pairs <<t, u>> callers make t depend on u (a bound)
  Moves,    \* the statuses callers move tasks to (a bound)
  Ops       \* the operations callers issue (a bound)

ASSUME NotIds == NoOne \notin Holders /\ NoTask \notin Tasks
ASSUME AgentsHold == Agents \subseteq Holders
ASSUME Pairs == Blocks \subseteq Tasks \X Tasks /\ Edges \subseteq Tasks \X Tasks
ASSUME Bounds ==
  /\ Moves \subseteq TaskStatus
  /\ Ops \subseteq {"create", "createAs", "assign", "hand", "unassign", "relate",
                    "update", "unblock", "cancel", "delete", "depend", "undepend",
                    "release", "crash"}

VARIABLES
  task,       \* the task table
  open,       \* the open stretches of each task and holder, counted
  past,       \* the holders of each task whose stretch has been closed
  deps,       \* the depends_on edges
  completed,  \* task.completed events on their way to UnblockDependents
  dispatched, \* history: the tasks and agents task.assigned was published for
  early,      \* history: the tasks it was published for before its time
  call        \* per caller: the call under way

tables == <<task, open, past, deps, completed, dispatched, early>>
vars   == <<task, open, past, deps, completed, dispatched, early, call>>
-----------------------------------------------------------------------------
(* Rows and calls *)

Holder == Holders \cup {NoOne}
Kinds  == {"agent", "other", ""}

\* assignee_kind; whether "other" is a person or a role tells nothing apart.
KindOf(h) == CASE h = NoOne -> "" [] h \in Agents -> "agent" [] OTHER -> "other"

\* held: held_by is not empty.
TaskRow == [status: TaskStatus \cup {"absent"}, held: BOOLEAN,
            holder: Holder, kind: Kinds, deleted: BOOLEAN]

NoRow == [status |-> "absent", held |-> FALSE, holder |-> NoOne, kind |-> "",
          deleted |-> FALSE]

Exists(t)   == task[t].status # "absent"
Live(t)     == Exists(t) /\ ~task[t].deleted
Finished(t) == Live(t) /\ task[t].status \in TaskEnd

\* findUnmetDependencies: a dependency that is deleted is unmet for good.
Unmet(t) == {u \in Tasks : <<t, u>> \in deps /\ ~Finished(u)}

\* findActiveBlockers: a blocker that is deleted no longer blocks.
Blockers(t) == {u \in Tasks : <<u, t>> \in Blocks /\ Live(u) /\ ~Finished(u)}

\* row: the task row about to be written or, of a call that hands a task over, its
\* holder alone. was: the status the call read. todo: the dependents still to be
\* looked at.
Call == [at: {"idle", "close", "column", "insert", "deps", "block", "again",
              "save", "cancel", "next", "ready", "release"},
         task: Tasks \cup {NoTask}, row: TaskRow,
         was: TaskStatus \cup {"absent"}, todo: SUBSET Tasks]

NoCall == [at |-> "idle", task |-> NoTask, row |-> NoRow, was |-> "absent", todo |-> {}]

At(p, s) == call[p].at = s
Idle(p)  == At(p, "idle")

Goes(p, x)  == call' = [call EXCEPT ![p] = x]
GoesTo(p, s) == Goes(p, [call[p] EXCEPT !.at = s])
Return(p)   == Goes(p, NoCall)

\* A call of p about t that found nothing to refuse.
Start(p, s, t, x) ==
  /\ Idle(p)
  /\ Goes(p, [NoCall EXCEPT !.at = s, !.task = t, !.row = x, !.was = task[t].status])
  /\ UNCHANGED tables

Init ==
  /\ task       = [t \in Tasks |-> NoRow]
  /\ open       = [t \in Tasks |-> [h \in Holders |-> 0]]
  /\ past       = [t \in Tasks |-> {}]
  /\ deps       = {}
  /\ completed  = {}
  /\ dispatched = {}
  /\ early      = {}
  /\ call       = [p \in Procs |-> NoCall]
-----------------------------------------------------------------------------
(* Handing a task over *)

\* AssignTask up to its first write; the run it may name is left to
\* WorkflowRuns. (The write of the run column comes before closing the stretch.)
AssignTask(p, t, a) ==
  /\ "assign" \in Ops
  /\ Live(t) /\ a \in Agents
  /\ Start(p, "close", t, [NoRow EXCEPT !.holder = a])

\* AssignTaskToHolder: to a person or a role.
AssignTaskToHolder(p, t, h) ==
  /\ "hand" \in Ops
  /\ Live(t) /\ h \notin Agents
  /\ Start(p, "close", t, [NoRow EXCEPT !.holder = h])

\* UnassignTask.
UnassignTask(p, t) ==
  /\ "unassign" \in Ops
  /\ Live(t)
  /\ Start(p, "close", t, [NoRow EXCEPT !.holder = NoOne])

\* closeCurrentAssignment: every open stretch of the task ends.
CloseStretch_None(p) ==
  /\ At(p, "close")
  /\ GoesTo(p, "column")
  /\ UNCHANGED tables
CloseStretch(p) ==
  /\ At(p, "close")
  /\ LET t == call[p].task IN
       /\ past' = [past EXCEPT ![t] = @ \cup {h \in Holders : open[t][h] > 0}]
       /\ open' = [open EXCEPT ![t] = [h \in Holders |-> 0]]
  /\ GoesTo(p, "column")
  /\ UNCHANGED <<task, deps, completed, dispatched, early>>

\* handOver's second write, or UnassignTask's, of the task's two columns.
WriteHolder(p) ==
  /\ At(p, "column")
  /\ LET h == call[p].row.holder IN
       /\ task' = [task EXCEPT ![call[p].task].holder = h,
                               ![call[p].task].kind = KindOf(h)]
       /\ IF h = NoOne THEN Return(p) ELSE GoesTo(p, "insert")
  /\ UNCHANGED <<open, past, deps, completed, dispatched, early>>

\* handOver's third write, of the new stretch. AssignTask goes on.
InsertStretch_Never(p) ==
  /\ At(p, "insert")
  /\ IF call[p].row.holder \in Agents THEN GoesTo(p, "deps") ELSE Return(p)
  /\ UNCHANGED tables
InsertStretch(p) ==
  /\ At(p, "insert")
  /\ LET h == call[p].row.holder IN
       /\ open' = [open EXCEPT ![call[p].task][h] = @ + 1]
       /\ IF h \in Agents THEN GoesTo(p, "deps") ELSE Return(p)
  /\ UNCHANGED <<task, past, deps, completed, dispatched, early>>
-----------------------------------------------------------------------------
(* Waiting for dependencies *)

\* task.assigned is published for t and a.
Dispatch(t, a) ==
  /\ dispatched' = dispatched \cup {<<t, a>>}
  /\ early' = IF Unmet(t) = {} THEN early ELSE early \cup {t}

\* setTaskStatus, WHERE id = ?: any status but blocked clears held_by.
SetTaskStatus_KeepsHeld(t, s) ==
  task' = [task EXCEPT ![t].status = s]
SetTaskStatus(t, s) ==
  task' = [task EXCEPT ![t].status = s, ![t].held = @ /\ s = "blocked"]

\* AssignTask's look at the dependencies: all met, the agent is told; otherwise
\* the task is blocked, if the status read at the start may become that.
CheckDeps_BlocksAny(p) ==
  /\ At(p, "deps")
  /\ IF Unmet(call[p].task) = {}
       THEN Dispatch(call[p].task, call[p].row.holder) /\ Return(p)
       ELSE GoesTo(p, "block") /\ UNCHANGED <<dispatched, early>>
  /\ UNCHANGED <<task, open, past, deps, completed>>
CheckDeps(p) ==
  /\ At(p, "deps")
  /\ IF Unmet(call[p].task) = {}
       THEN Dispatch(call[p].task, call[p].row.holder) /\ Return(p)
       ELSE /\ IF "blocked" \in TaskNext[call[p].was] THEN GoesTo(p, "block") ELSE Return(p)
            /\ UNCHANGED <<dispatched, early>>
  /\ UNCHANGED <<task, open, past, deps, completed>>

BlockTask(p) ==
  /\ At(p, "block")
  /\ SetTaskStatus(call[p].task, "blocked")
  /\ Return(p)
  /\ UNCHANGED <<open, past, deps, completed, dispatched, early>>

\* UnblockDependents, which the handler of task.completed calls, and any caller
\* may: the event is off its way once the handler has it.
UnblockDependents(p, t) ==
  /\ "release" \in Ops
  /\ Idle(p) /\ Live(t)
  /\ Goes(p, [NoCall EXCEPT !.at = "next", !.task = t,
                            !.todo = {u \in Tasks : <<u, t>> \in deps}])
  /\ completed' = completed \ {t}
  /\ UNCHANGED <<task, open, past, deps, dispatched, early>>

\* maybeUnblockDependent: the dependent is read; one that is not blocked is skipped.
ReadDependent(p, u) ==
  /\ At(p, "next") /\ u \in call[p].todo
  /\ LET x == [call[p] EXCEPT !.todo = @ \ {u}] IN
       IF Live(u) /\ task[u].status = "blocked"
         THEN Goes(p, [x EXCEPT !.at = "ready", !.task = u, !.row.holder = task[u].holder])
         ELSE Goes(p, x)
  /\ UNCHANGED tables

\* One that waits for another task, or is held by nobody or by no agent, is left.
CheckReady_OneIsEnough(p) ==
  /\ At(p, "ready")
  /\ IF call[p].row.holder \in Agents THEN GoesTo(p, "release") ELSE GoesTo(p, "next")
  /\ UNCHANGED tables
CheckReady(p) ==
  /\ At(p, "ready")
  /\ IF Unmet(call[p].task) = {} /\ call[p].row.holder \in Agents
       THEN GoesTo(p, "release")
       ELSE GoesTo(p, "next")
  /\ UNCHANGED tables

Release(p) ==
  /\ At(p, "release")
  /\ SetTaskStatus(call[p].task, "pending")
  /\ Dispatch(call[p].task, call[p].row.holder)
  /\ GoesTo(p, "next")
  /\ UNCHANGED <<open, past, deps, completed>>

DependentsDone(p) ==
  /\ At(p, "next") /\ call[p].todo = {}
  /\ Return(p)
  /\ UNCHANGED tables
-----------------------------------------------------------------------------
(* The other writes of a task *)

\* CreateTask stores what it is given, a holder or a held_by included.
CreateTask(p, t, h, b) ==
  /\ "create" \in Ops
  /\ h # NoOne \/ b => "createAs" \in Ops
  /\ Idle(p) /\ ~Exists(t)
  /\ task' = [task EXCEPT ![t] = [NoRow EXCEPT !.status = "pending", !.held = b,
                                               !.holder = h, !.kind = KindOf(h)]]
  /\ UNCHANGED <<open, past, deps, completed, dispatched, early, call>>

\* The row UpdateTask writes over the one it read: the holder is kept, the kind
\* is the argument's, held_by lives only while the task is blocked.
Updated(t, s, b, k) ==
  [task[t] EXCEPT !.status = s, !.kind = k, !.held = b /\ s = "blocked"]

MayMove(t, s) ==
  /\ s = task[t].status \/ s \in TaskNext[task[t].status]
  /\ task[t].status = "pending" /\ s = "in_progress" => Blockers(t) = {}

UpdateTask(p, t, s, b, k) ==
  /\ "update" \in Ops
  /\ Live(t) /\ MayMove(t, s)
  /\ Start(p, "save", t, Updated(t, s, b, k))

\* UnblockTask: the status is checked, and UpdateTask reads the task again.
UnblockTask(p, t) ==
  /\ "unblock" \in Ops
  /\ Live(t) /\ "awaiting-direction" \in TaskNext[task[t].status]
  /\ Start(p, "again", t, task[t])

ReadAgain(p) ==
  /\ At(p, "again")
  /\ LET t == call[p].task IN
       IF Live(t) /\ MayMove(t, "awaiting-direction")
         THEN Goes(p, [call[p] EXCEPT !.at = "save", !.was = task[t].status,
                         !.row = Updated(t, "awaiting-direction", @.held, @.kind)])
         ELSE Return(p)
  /\ UNCHANGED tables

\* UpdateTask's write, WHERE deleted = false, and task.completed when the status
\* became, as far as the call read it, one that ends the task.
SaveTask_Silent(p) ==
  /\ At(p, "save")
  /\ task' = IF Live(call[p].task) THEN [task EXCEPT ![call[p].task] = call[p].row] ELSE task
  /\ Return(p)
  /\ UNCHANGED <<open, past, deps, completed, dispatched, early>>
SaveTask(p) ==
  /\ At(p, "save")
  /\ LET t == call[p].task  x == call[p].row IN
       IF Live(t)
         THEN /\ task' = [task EXCEPT ![t] = x]
              /\ completed' = IF x.status # call[p].was /\ x.status \in TaskEnd
                                THEN completed \cup {t} ELSE completed
         ELSE UNCHANGED <<task, completed>>
  /\ Return(p)
  /\ UNCHANGED <<open, past, deps, dispatched, early>>

\* cancelTask, from a cascade: the listed row is written back whole. It publishes
\* task.cancelled, which is not task.completed.
CancelTask(p, t) ==
  /\ "cancel" \in Ops
  /\ Live(t) /\ ~Finished(t) /\ "cancelled" \in TaskNext[task[t].status]
  /\ Start(p, "cancel", t, [task[t] EXCEPT !.status = "cancelled"])

WriteCancelled(p) ==
  /\ At(p, "cancel")
  /\ task' = [task EXCEPT ![call[p].task] = call[p].row]
  /\ Return(p)
  /\ UNCHANGED <<open, past, deps, completed, dispatched, early>>

DeleteTask_AsStatus(p, t) ==
  /\ "delete" \in Ops
  /\ Idle(p) /\ Live(t)
  /\ task' = [task EXCEPT ![t].status = "deleted"]
  /\ UNCHANGED <<open, past, deps, completed, dispatched, early, call>>
DeleteTask(p, t) ==
  /\ "delete" \in Ops
  /\ Idle(p) /\ Live(t)
  /\ task' = [task EXCEPT ![t].deleted = TRUE]
  /\ UNCHANGED <<open, past, deps, completed, dispatched, early, call>>
-----------------------------------------------------------------------------
(* Edges *)

\* CreateRelationship and DeleteRelationship of depends_on.
Depend(p, t, u) ==
  /\ "depend" \in Ops
  /\ Idle(p) /\ Exists(t) /\ Exists(u)
  /\ deps' = deps \cup {<<t, u>>}
  /\ UNCHANGED <<task, open, past, completed, dispatched, early, call>>

Undepend(p, t, u) ==
  /\ "undepend" \in Ops
  /\ Idle(p) /\ <<t, u>> \in deps
  /\ deps' = deps \ {<<t, u>>}
  /\ UNCHANGED <<task, open, past, completed, dispatched, early, call>>

\* The same of assigned_to: the column alone.
Relate(p, t, a) ==
  /\ "relate" \in Ops
  /\ Idle(p) /\ Exists(t) /\ a \in Agents
  /\ task' = [task EXCEPT ![t].holder = IF @ = a THEN NoOne ELSE a]
  /\ UNCHANGED <<open, past, deps, completed, dispatched, early, call>>

\* The server stops: every call under way is lost, the tables stay.
Crash ==
  /\ "crash" \in Ops
  /\ call' = [p \in Procs |-> NoCall]
  /\ UNCHANGED tables
-----------------------------------------------------------------------------
Begin(p) ==
  \/ \E t \in Tasks, h \in Holder, b \in BOOLEAN : CreateTask(p, t, h, b)
  \/ \E t \in Tasks, a \in Agents : AssignTask(p, t, a)
  \/ \E t \in Tasks, h \in Holders : AssignTaskToHolder(p, t, h)
  \/ \E t \in Tasks : UnassignTask(p, t)
  \/ \E t \in Tasks : UnblockDependents(p, t)
  \/ \E t \in Tasks, s \in Moves, b \in BOOLEAN, k \in Kinds : UpdateTask(p, t, s, b, k)
  \/ \E t \in Tasks : UnblockTask(p, t)
  \/ \E t \in Tasks : CancelTask(p, t)
  \/ \E t \in Tasks : DeleteTask(p, t)
  \/ \E e \in Edges : Depend(p, e[1], e[2])
  \/ \E e \in Edges : Undepend(p, e[1], e[2])
  \/ \E t \in Tasks, a \in Agents : Relate(p, t, a)

Step(p) ==
  \/ CloseStretch(p)
  \/ WriteHolder(p)
  \/ InsertStretch(p)
  \/ CheckDeps(p)
  \/ BlockTask(p)
  \/ \E u \in Tasks : ReadDependent(p, u)
  \/ CheckReady(p)
  \/ Release(p)
  \/ DependentsDone(p)
  \/ ReadAgain(p)
  \/ SaveTask(p)
  \/ WriteCancelled(p)

Next == (\E p \in Procs : Begin(p) \/ Step(p)) \/ Crash

Spec == Init /\ [][Next]_vars
-----------------------------------------------------------------------------
(* Properties *)

\* The tables and every call under way hold values of their type.
TypeOK ==
  /\ task       \in [Tasks -> TaskRow]
  /\ open       \in [Tasks -> [Holders -> Nat]]
  /\ past       \in [Tasks -> SUBSET Holders]
  /\ deps       \in SUBSET (Tasks \X Tasks)
  /\ completed  \in SUBSET Tasks
  /\ dispatched \in SUBSET (Tasks \X Agents)
  /\ early      \in SUBSET Tasks
  /\ call       \in [Procs -> Call]

\* "It lives only while the task is blocked": held_by is set on no task of
\* another status, whichever updates, blocks and releases race (UpdateTask,
\* setTaskStatus).
HeldOnlyWhileBlocked == \A t \in Tasks : task[t].held => task[t].status = "blocked"

Recorded(t, h) == open[t][h] > 0 \/ h \in past[t]

\* A call that has written h on t and is about to record it.
Owed(t, h) ==
  \E p \in Procs : At(p, "insert") /\ call[p].task = t /\ call[p].row.holder = h

Known(t, h) == Recorded(t, h) \/ Owed(t, h)

\* "Every hand-over writes an assignment row": whoever a task names as its
\* holder, and every agent that was told of it, is in its history or about to
\* be, however the three writes of two hand-overs and the whole rows of stale
\* updates fall (handOver, UpdateTask, maybeUnblockDependent).
HolderRecorded ==
  /\ \A t \in Tasks : task[t].holder # NoOne => Known(t, task[t].holder)
  /\ \A d \in dispatched : Known(d[1], d[2])

\* "Handing a task to somebody else closes the current stretch and opens a new
\* one": with one caller, at most one stretch of a task is open, at every moment
\* and whatever is cut short, and it is that of the holder the task names, whose
\* kind the task names too.
HistoryNeverLies ==
  \A t \in Tasks :
    /\ \A h \in Holders :
         open[t][h] > 0 => open[t][h] = 1 /\ task[t].holder = h
    /\ task[t].kind = KindOf(task[t].holder)

\* "When every blocking dependency eventually reaches a terminal status,
\* UnblockDependents flips blocked -> pending": once no call is under way and
\* every task.completed was handled, no task that an agent holds is blocked
\* with all its dependencies met.
WaitersReleased ==
  (completed = {} /\ \A p \in Procs : Idle(p)) =>
    \A t \in Tasks :
      Live(t) /\ task[t].status = "blocked" /\ task[t].holder \in Agents => Unmet(t) # {}

\* "The AI must not run a task whose dependencies have not landed": task.assigned
\* is published for no task with an unmet dependency.
NothingEarly == early = {}

\* With one caller, every status change is one CanTransitionTo allows; setTaskStatus
\* and cancelTask write without asking it.
LegalTaskSteps ==
  [][\A t \in Tasks :
       Exists(t) /\ task'[t].status # task[t].status
         => task'[t].status \in TaskNext[task[t].status]]_task

-----------------------------------------------------------------------------
(* What one caller relies on *)

\* What p has read of statuses and dependencies still holds: the status it goes
\* by, that the task it blocks waits for another and the one it releases for none.
Current(p) ==
  /\ call[p].at \notin {"idle", "next", "ready", "release"} =>
       call[p].was = task[call[p].task].status
  /\ At(p, "save") => call[p].row.status \in TaskNext[call[p].was] \cup {call[p].was}
  /\ At(p, "cancel") => call[p].row.status \in TaskNext[call[p].was]
  /\ At(p, "block") => "blocked" \in TaskNext[call[p].was] /\ Unmet(call[p].task) # {}
  /\ call[p].at \in {"ready", "release"} => task[call[p].task].status = "blocked"
  /\ At(p, "release") => Unmet(call[p].task) = {}

\* What p has read of the holder still holds, and a hand-over that has closed
\* the stretches of its task finds none open.
Owner(p) ==
  /\ call[p].at \notin {"idle", "next"} => Exists(call[p].task)
  /\ call[p].at \in {"column", "insert"} => \A h \in Holders : open[call[p].task][h] = 0
  /\ call[p].at \in {"insert", "deps", "block", "again", "save", "ready", "release"} =>
       call[p].row.holder = task[call[p].task].holder
  /\ call[p].at \in {"again", "save"} => call[p].row.kind = task[call[p].task].kind
  /\ At(p, "save") => call[p].row.status # "absent"

\* A task that nobody created has no holder.
AbsentUnheld == \A t \in Tasks : ~Exists(t) => task[t].holder = NoOne

\* A blocked task has an agent, and so has one that is being handed over.
AgentsWait(p) ==
  /\ \A t \in Tasks : task[t].status = "blocked" => task[t].holder \in Agents
  /\ call[p].at \in {"close", "column"} => call[p].row.holder \in Agents
  /\ At(p, "save") => call[p].row.status # "blocked"
  /\ call[p].at # "cancel"

\* A blocked task that waits for nothing is about to be released: by a
\* task.completed on its way, or by the call that has one.
ToBeReleased(p) ==
  \A t \in Tasks :
    Live(t) /\ task[t].status = "blocked" /\ Unmet(t) = {} =>
      \/ \E u \in completed : <<t, u>> \in deps
      \/ call[p].at \in {"next", "ready", "release"} /\ t \in call[p].todo
      \/ call[p].at \in {"ready", "release"} /\ t = call[p].task
=============================================================================
