-------------------------- MODULE AssignmentsProofs --------------------------
(***************************************************************************)
(* Proofs about Assignments, for any number of callers, tasks, holders and *)
(* dependencies: the types; that held_by lives only while a task is        *)
(* blocked; that whoever holds a task or was told of it is in its history, *)
(* as long as every holder is written by a hand-over that is not cut       *)
(* short; and, for calls that do not overlap, that statuses move along the *)
(* lifecycle and no agent is told too early.  The scenarios of             *)
(* MCAssignments are covered too, those of one caller whose history never  *)
(* lies and who leaves nobody waiting included.                            *)
(***************************************************************************)
EXTENDS MCAssignments, TLAPS

-----------------------------------------------------------------------------
(* What holds of a call between its statements *)

\* A call under way is about a task; the holder it hands the task to, or tells
\* of it, is there; the row an update is about to write is not held unless
\* blocked; and tasks are cancelled by cascades only.
Fits(x) ==
  /\ x.at # "idle" => x.task \in Tasks
  /\ x.at = "insert" => x.row.holder \in Holders
  /\ x.at \in {"deps", "block", "release"} => x.row.holder \in Agents
  /\ x.at = "save" => (x.row.held => x.row.status = "blocked")
  /\ x.at = "cancel" => "cancel" \in Ops

TablesOK ==
  /\ task       \in [Tasks -> TaskRow]
  /\ open       \in [Tasks -> [Holders -> Nat]]
  /\ past       \in [Tasks -> SUBSET Holders]
  /\ deps       \in SUBSET (Tasks \X Tasks)
  /\ completed  \in SUBSET Tasks
  /\ dispatched \in SUBSET (Tasks \X Agents)
  /\ early      \in SUBSET Tasks

IInv == TypeOK /\ \A p \in Procs : Fits(call[p])

LEMMA NoCallType == NoCall \in Call /\ Fits(NoCall) /\ NoRow \in TaskRow
BY DEF NoCall, Call, Fits, NoRow, TaskRow, Holder, Kinds

LEMMA KindType == ASSUME NEW h PROVE KindOf(h) \in Kinds
BY DEF KindOf, Kinds

\* The call of p goes on with x, and the tables keep their types.
LEMMA GoesKeeps ==
  ASSUME IInv, NEW p \in Procs, NEW x \in Call, Fits(x), Goes(p, x), TablesOK'
  PROVE IInv'
<1>1. call' = [call EXCEPT ![p] = x] /\ call \in [Procs -> Call]
  BY DEF IInv, TypeOK, Goes
<1>2. TypeOK'
  BY <1>1 DEF TypeOK, TablesOK
<1>3. \A q \in Procs : call'[q] = IF q = p THEN x ELSE call[q]
  BY <1>1
<1>4. ASSUME NEW q \in Procs PROVE Fits(call[q])'
  BY <1>3 DEF IInv, Fits
<1> QED
  BY <1>2, <1>4 DEF IInv

LEMMA ReturnKeeps ==
  ASSUME IInv, NEW p \in Procs, Return(p), TablesOK'
  PROVE IInv'
<1>1. PICK x \in Call : x = NoCall /\ Fits(x)
  BY NoCallType
<1> QED
  BY <1>1, GoesKeeps DEF Return

\* The call of p goes on at s with what it has.
LEMMA GoesToKeeps ==
  ASSUME IInv, NEW p \in Procs, TablesOK', call[p].at # "idle",
         NEW s \in {"close", "column", "insert", "deps", "block", "again",
                    "next", "ready", "release"},
         s = "insert" => call[p].row.holder \in Holders,
         s \in {"deps", "block", "release"} => call[p].row.holder \in Agents,
         GoesTo(p, s)
  PROVE IInv'
<1>1. PICK x : x = [call[p] EXCEPT !.at = s]
  OBVIOUS
<1>2. call[p] \in Call /\ Fits(call[p])
  BY DEF IInv, TypeOK
<1>3. x \in Call /\ Fits(x)
  BY <1>1, <1>2 DEF Call, Fits
<1> QED
  BY <1>1, <1>3, GoesKeeps DEF GoesTo

LEMMA CallersKeep ==
  ASSUME IInv, UNCHANGED call, TablesOK'
  PROVE IInv'
BY DEF IInv, TypeOK, TablesOK, Fits

\* Tables that a step leaves alone keep their types.
LEMMA TablesStay ==
  ASSUME IInv, UNCHANGED tables
  PROVE TablesOK'
BY DEF IInv, TypeOK, TablesOK, tables

\* A call of p about t begins.
LEMMA StartKeeps ==
  ASSUME IInv, NEW p \in Procs, NEW t \in Tasks, NEW r \in TaskRow,
         NEW s \in {"close", "again", "save", "cancel"},
         s = "save" => (r.held => r.status = "blocked"),
         s = "cancel" => "cancel" \in Ops,
         Start(p, s, t, r)
  PROVE IInv'
<1>1. PICK x : x = [NoCall EXCEPT !.at = s, !.task = t, !.row = r, !.was = task[t].status]
  OBVIOUS
<1>2. task[t].status \in TaskStatus \cup {"absent"}
  BY DEF IInv, TypeOK, TaskRow
<1>3. x \in Call /\ Fits(x)
  BY <1>1, <1>2 DEF NoCall, Call, Fits
<1>4. TablesOK'
  BY TablesStay DEF Start
<1> QED
  BY <1>1, <1>3, <1>4, GoesKeeps DEF Start
-----------------------------------------------------------------------------
(* Every call begins well *)

LEMMA HolderRow ==
  ASSUME NEW h \in Holder
  PROVE [NoRow EXCEPT !.holder = h] \in TaskRow
BY NoCallType DEF NoRow, TaskRow

LEMMA BeginKeeps ==
  ASSUME IInv, NEW p \in Procs, Begin(p)
  PROVE IInv'
<1>1. ASSUME NEW t \in Tasks, NEW h \in Holder, NEW b \in BOOLEAN, CreateTask(p, t, h, b)
      PROVE IInv'
  <2>1. PICK r : r = [NoRow EXCEPT !.status = "pending", !.held = b,
                                   !.holder = h, !.kind = KindOf(h)]
    OBVIOUS
  <2>2. r \in TaskRow
    BY <2>1, KindType DEF NoRow, TaskRow, TaskStatus
  <2>3. task' = [task EXCEPT ![t] = r]
    BY <1>1, <2>1 DEF CreateTask
  <2>4. TablesOK'
    BY <1>1, <2>2, <2>3 DEF IInv, TypeOK, TablesOK, CreateTask
  <2> QED
    BY <1>1, <2>4, CallersKeep DEF CreateTask
<1>2. ASSUME NEW t \in Tasks, NEW h \in Holder,
             Start(p, "close", t, [NoRow EXCEPT !.holder = h])
      PROVE IInv'
  BY <1>2, HolderRow, StartKeeps
<1>3. ASSUME NEW t \in Tasks, UnblockDependents(p, t) PROVE IInv'
  <2>1. PICK x : x = [NoCall EXCEPT !.at = "next", !.task = t,
                                    !.todo = {u \in Tasks : <<u, t>> \in deps}]
    OBVIOUS
  <2>2. x \in Call /\ Fits(x)
    BY <2>1, NoCallType DEF NoCall, Call, Fits
  <2>3. Goes(p, x)
    BY <1>3, <2>1 DEF UnblockDependents
  <2>4. TablesOK'
    BY <1>3 DEF IInv, TypeOK, TablesOK, UnblockDependents
  <2> QED
    BY <2>2, <2>3, <2>4, GoesKeeps
<1>4. ASSUME NEW t \in Tasks, NEW s \in Moves, NEW b \in BOOLEAN, NEW k \in Kinds,
             UpdateTask(p, t, s, b, k)
      PROVE IInv'
  <2>1. PICK r : r = Updated(t, s, b, k)
    OBVIOUS
  <2>2. r \in TaskRow /\ (r.held => r.status = "blocked")
    BY <2>1, Bounds, ZenonT(60) DEF Updated, IInv, TypeOK, TaskRow
  <2> QED
    BY <1>4, <2>1, <2>2, StartKeeps DEF UpdateTask
<1>5. ASSUME NEW t \in Tasks, UnblockTask(p, t) PROVE IInv'
  <2>1. task[t] \in TaskRow
    BY DEF IInv, TypeOK
  <2> QED
    BY <1>5, <2>1, StartKeeps DEF UnblockTask
<1>6. ASSUME NEW t \in Tasks, CancelTask(p, t) PROVE IInv'
  <2>1. [task[t] EXCEPT !.status = "cancelled"] \in TaskRow
    BY DEF IInv, TypeOK, TaskRow, TaskStatus
  <2> QED
    BY <1>6, <2>1, StartKeeps DEF CancelTask
<1>7. ASSUME NEW t \in Tasks, DeleteTask(p, t) PROVE IInv'
  <2>1. TablesOK'
    BY <1>7 DEF IInv, TypeOK, TablesOK, TaskRow, DeleteTask
  <2> QED
    BY <1>7, <2>1, CallersKeep DEF DeleteTask
<1>8. ASSUME NEW e \in Edges, Depend(p, e[1], e[2]) \/ Undepend(p, e[1], e[2]) PROVE IInv'
  <2>1. e[1] \in Tasks /\ e[2] \in Tasks
    BY Pairs
  <2>2. TablesOK' /\ UNCHANGED call
    BY <1>8, <2>1 DEF IInv, TypeOK, TablesOK, Depend, Undepend
  <2> QED
    BY <2>2, CallersKeep
<1>9. ASSUME NEW t \in Tasks, NEW a \in Agents, Relate(p, t, a) PROVE IInv'
  <2>1. a \in Holder /\ NoOne \in Holder
    BY AgentsHold DEF Holder
  <2>2. TablesOK'
    BY <1>9, <2>1, ZenonT(60) DEF IInv, TypeOK, TablesOK, TaskRow, Relate
  <2> QED
    BY <1>9, <2>2, CallersKeep DEF Relate
<1> QED
  BY <1>1, <1>2, <1>3, <1>4, <1>5, <1>6, <1>7, <1>8, <1>9, AgentsHold
    DEF Begin, Holder, AssignTask, AssignTaskToHolder, UnassignTask
-----------------------------------------------------------------------------
(* And every statement keeps it so *)

LEMMA CallOf ==
  ASSUME IInv, NEW p \in Procs
  PROVE /\ call[p] \in Call /\ Fits(call[p])
        /\ call[p].row \in TaskRow /\ call[p].row.holder \in Holder
        /\ call[p].was \in TaskStatus \cup {"absent"}
BY DEF IInv, TypeOK, Call, TaskRow

\* Telling an agent of a task, whatever the status it has got.
LEMMA DispatchTypes ==
  ASSUME IInv, NEW t \in Tasks, NEW a \in Agents, Dispatch(t, a)
  PROVE dispatched' \in SUBSET (Tasks \X Agents) /\ early' \in SUBSET Tasks
BY DEF Dispatch, IInv, TypeOK

LEMMA StatusTypes ==
  ASSUME IInv, NEW t, NEW s \in TaskStatus, SetTaskStatus(t, s)
  PROVE task' \in [Tasks -> TaskRow]
<1>1. \A u \in Tasks : task[u] \in TaskRow
  BY DEF IInv, TypeOK
<1> QED
  BY <1>1, ZenonT(60) DEF SetTaskStatus, IInv, TypeOK, TaskRow

LEMMA HandOverKeeps ==
  ASSUME IInv, NEW p \in Procs, CloseStretch(p) \/ WriteHolder(p) \/ InsertStretch(p)
  PROVE IInv'
<1> USE CallOf
<1>1. CASE CloseStretch(p)
  <2>1. TablesOK'
    BY <1>1 DEF CloseStretch, IInv, TypeOK, TablesOK
  <2> QED
    BY <1>1, <2>1, GoesToKeeps DEF CloseStretch, At
<1>2. CASE WriteHolder(p)
  <2>1. PICK h \in Holder : h = call[p].row.holder
    OBVIOUS
  <2>2. PICK k \in Kinds : k = KindOf(h)
    BY KindType
  <2>3. task' = [task EXCEPT ![call[p].task].holder = h, ![call[p].task].kind = k]
    BY <1>2, <2>1, <2>2 DEF WriteHolder
  <2>4. task' \in [Tasks -> TaskRow]
    <3>1. PICK t \in Tasks : t = call[p].task
      BY <1>2 DEF WriteHolder, At, Fits
    <3>2. task[t] \in TaskRow
      BY DEF IInv, TypeOK
    <3>3. PICK r : r = [task[t] EXCEPT !.holder = h, !.kind = k]
      OBVIOUS
    <3>4. r \in TaskRow
      BY <3>2, <3>3 DEF TaskRow
    <3>5. task' = [task EXCEPT ![t] = r]
      BY <2>3, <3>1, <3>3
    <3> QED
      BY <3>4, <3>5 DEF IInv, TypeOK
  <2>5. TablesOK'
    BY <1>2, <2>4 DEF WriteHolder, IInv, TypeOK, TablesOK
  <2>6. CASE h = NoOne
    BY <1>2, <2>1, <2>5, <2>6, ReturnKeeps DEF WriteHolder
  <2>7. CASE h # NoOne
    BY <1>2, <2>1, <2>5, <2>7, GoesToKeeps DEF WriteHolder, At, Holder
  <2> QED
    BY <2>6, <2>7
<1>3. CASE InsertStretch(p)
  <2>1. PICK t \in Tasks, h \in Holders : t = call[p].task /\ h = call[p].row.holder
    BY <1>3 DEF InsertStretch, At, Fits
  <2>2. open' \in [Tasks -> [Holders -> Nat]]
    <3>1. PICK f : f = [open[t] EXCEPT ![h] = @ + 1]
      OBVIOUS
    <3>2. f \in [Holders -> Nat]
      BY <3>1 DEF IInv, TypeOK
    <3>3. open' = [open EXCEPT ![t] = f]
      BY <1>3, <2>1, <3>1 DEF InsertStretch
    <3> QED
      BY <3>2, <3>3 DEF IInv, TypeOK
  <2>3. TablesOK'
    BY <1>3, <2>2 DEF InsertStretch, IInv, TypeOK, TablesOK
  <2>4. CASE call[p].row.holder \in Agents
    BY <1>3, <2>3, <2>4, GoesToKeeps DEF InsertStretch, At
  <2>5. CASE call[p].row.holder \notin Agents
    BY <1>3, <2>3, <2>5, ReturnKeeps DEF InsertStretch
  <2> QED
    BY <2>4, <2>5
<1> QED
  BY <1>1, <1>2, <1>3

LEMMA WaitKeeps ==
  ASSUME IInv, NEW p \in Procs,
         \/ CheckDeps(p) \/ BlockTask(p) \/ \E u \in Tasks : ReadDependent(p, u)
         \/ CheckReady(p) \/ Release(p) \/ DependentsDone(p)
  PROVE IInv'
<1> USE CallOf
<1>1. CASE CheckDeps(p)
  <2>1. call[p].task \in Tasks /\ call[p].row.holder \in Agents
    BY <1>1 DEF CheckDeps, At, Fits
  <2>2. CASE Unmet(call[p].task) = {}
    <3>1. TablesOK'
      BY <1>1, <2>1, <2>2, DispatchTypes DEF CheckDeps, IInv, TypeOK, TablesOK
    <3> QED
      BY <1>1, <2>2, <3>1, ReturnKeeps DEF CheckDeps
  <2>3. CASE Unmet(call[p].task) # {}
    <3>1. TablesOK'
      BY <1>1, <2>3 DEF CheckDeps, IInv, TypeOK, TablesOK
    <3>2. GoesTo(p, "block") \/ Return(p)
      BY <1>1, <2>3 DEF CheckDeps
    <3> QED
      BY <1>1, <2>1, <3>1, <3>2, GoesToKeeps, ReturnKeeps DEF CheckDeps, At
  <2> QED
    BY <2>2, <2>3
<1>2. CASE BlockTask(p)
  <2>1. TablesOK'
    BY <1>2, StatusTypes DEF BlockTask, TaskStatus, IInv, TypeOK, TablesOK
  <2> QED
    BY <1>2, <2>1, ReturnKeeps DEF BlockTask
<1>3. ASSUME NEW u \in Tasks, ReadDependent(p, u) PROVE IInv'
  <2>1. PICK x : x = [call[p] EXCEPT !.todo = @ \ {u}]
    OBVIOUS
  <2>2. PICK y : y = [x EXCEPT !.at = "ready", !.task = u, !.row.holder = task[u].holder]
    OBVIOUS
  <2>3. Goes(p, x) \/ Goes(p, y)
    BY <1>3, <2>1, <2>2 DEF ReadDependent
  <2>4. x \in Call /\ Fits(x) /\ x.at = "next"
    BY <1>3, <2>1 DEF ReadDependent, At, Call, Fits
  <2>5. y \in Call /\ Fits(y)
    BY <2>2, <2>4, ZenonT(60) DEF Call, Fits, IInv, TypeOK, TaskRow
  <2>6. TablesOK'
    BY <1>3, TablesStay DEF ReadDependent
  <2> QED
    BY <2>3, <2>4, <2>5, <2>6, GoesKeeps
<1>4. CASE CheckReady(p)
  <2>1. TablesOK'
    BY <1>4, TablesStay DEF CheckReady
  <2>2. CASE Unmet(call[p].task) = {} /\ call[p].row.holder \in Agents
    BY <1>4, <2>1, <2>2, GoesToKeeps DEF CheckReady, At
  <2>3. CASE ~(Unmet(call[p].task) = {} /\ call[p].row.holder \in Agents)
    BY <1>4, <2>1, <2>3, GoesToKeeps DEF CheckReady, At
  <2> QED
    BY <2>2, <2>3
<1>5. CASE Release(p)
  <2>1. call[p].task \in Tasks /\ call[p].row.holder \in Agents
    BY <1>5 DEF Release, At, Fits
  <2>2. TablesOK'
    BY <1>5, <2>1, StatusTypes, DispatchTypes
      DEF Release, TaskStatus, IInv, TypeOK, TablesOK
  <2> QED
    BY <1>5, <2>2, GoesToKeeps DEF Release, At
<1>6. CASE DependentsDone(p)
  <2>1. TablesOK'
    BY <1>6, TablesStay DEF DependentsDone
  <2> QED
    BY <1>6, <2>1, ReturnKeeps DEF DependentsDone
<1> QED
  BY <1>1, <1>2, <1>3, <1>4, <1>5, <1>6

LEMMA WriteKeeps ==
  ASSUME IInv, NEW p \in Procs, ReadAgain(p) \/ SaveTask(p) \/ WriteCancelled(p)
  PROVE IInv'
<1> USE CallOf
<1>1. CASE ReadAgain(p)
  <2>1. TablesOK'
    BY <1>1, TablesStay DEF ReadAgain
  <2>2. CASE Return(p)
    BY <2>1, <2>2, ReturnKeeps
  <2>3. CASE Goes(p, [call[p] EXCEPT !.at = "save", !.was = task[call[p].task].status,
                        !.row = Updated(call[p].task, "awaiting-direction", @.held, @.kind)])
    <3>1. PICK r : r = Updated(call[p].task, "awaiting-direction", call[p].row.held, call[p].row.kind)
      OBVIOUS
    <3>2. task[call[p].task] \in TaskRow
      BY <1>1 DEF ReadAgain, At, Fits, IInv, TypeOK
    <3>3. PICK w \in TaskStatus \cup {"absent"} : w = task[call[p].task].status
      BY <3>2 DEF TaskRow
    <3>4. r \in TaskRow /\ ~r.held
      BY <3>1, <3>2 DEF Updated, TaskRow, TaskStatus
    <3>5. PICK x : x = [call[p] EXCEPT !.at = "save", !.was = w, !.row = r]
      OBVIOUS
    <3>6. x \in Call /\ Fits(x)
      BY <1>1, <3>4, <3>5 DEF ReadAgain, At, Call, Fits
    <3>7. Goes(p, x)
      BY <2>3, <3>1, <3>3, <3>5 DEF Goes
    <3> QED
      BY <2>1, <3>6, <3>7, GoesKeeps
  <2> QED
    BY <1>1, <2>2, <2>3 DEF ReadAgain
<1>2. CASE SaveTask(p)
  <2>1. task' = task \/ task' = [task EXCEPT ![call[p].task] = call[p].row]
    BY <1>2 DEF SaveTask
  <2>2. completed' \in SUBSET Tasks
    BY <1>2 DEF SaveTask, At, Fits, IInv, TypeOK
  <2>3. TablesOK'
    BY <1>2, <2>1, <2>2 DEF SaveTask, IInv, TypeOK, TablesOK
  <2> QED
    BY <1>2, <2>3, ReturnKeeps DEF SaveTask
<1>3. CASE WriteCancelled(p)
  <2>1. TablesOK'
    BY <1>3 DEF WriteCancelled, IInv, TypeOK, TablesOK
  <2> QED
    BY <1>3, <2>1, ReturnKeeps DEF WriteCancelled
<1> QED
  BY <1>1, <1>2, <1>3

LEMMA CrashKeeps ==
  ASSUME IInv, Crash
  PROVE IInv'
<1>1. call' = [p \in Procs |-> NoCall]
  BY DEF Crash
<1>2. TypeOK'
  BY <1>1, NoCallType DEF Crash, IInv, TypeOK, tables
<1>3. ASSUME NEW p \in Procs PROVE Fits(call[p])'
  BY <1>1, NoCallType DEF Fits
<1> QED
  BY <1>2, <1>3 DEF IInv

LEMMA InitOK == Init => IInv
<1> SUFFICES ASSUME Init PROVE IInv
  OBVIOUS
<1>1. TypeOK
  BY NoCallType DEF Init, TypeOK
<1> QED
  BY <1>1, NoCallType DEF Init, IInv

LEMMA NextKeeps == IInv /\ [Next]_vars => IInv'
<1> SUFFICES ASSUME IInv, [Next]_vars PROVE IInv'
  OBVIOUS
<1>1. CASE UNCHANGED vars
  BY <1>1 DEF vars, IInv, TypeOK, Fits
<1>2. ASSUME NEW p \in Procs, Step(p) PROVE IInv'
  BY <1>2, HandOverKeeps, WaitKeeps, WriteKeeps DEF Step
<1> QED
  BY <1>1, <1>2, BeginKeeps, CrashKeeps DEF Next

LEMMA Invariant == Spec => []IInv
<1> QED
  BY InitOK, NextKeeps, PTL DEF Spec

\* The tables and every call under way keep their types, crashes included.
THEOREM TypeCorrect == Spec => []TypeOK
<1>1. IInv => TypeOK
  BY DEF IInv
<1> QED
  BY <1>1, Invariant, PTL
-----------------------------------------------------------------------------
(* held_by lives only while a task is blocked *)

LEMMA StatusClearsHeld ==
  ASSUME IInv, HeldOnlyWhileBlocked, NEW t, NEW s, SetTaskStatus(t, s)
  PROVE HeldOnlyWhileBlocked'
BY DEF SetTaskStatus, IInv, TypeOK, TaskRow, HeldOnlyWhileBlocked

LEMMA HeldKept ==
  ASSUME IInv, HeldOnlyWhileBlocked, [Next]_vars,
         \A p \in Procs, t \in Tasks, h \in Holder : ~CreateTask(p, t, h, TRUE),
         \A p \in Procs : call[p].at # "cancel"
  PROVE HeldOnlyWhileBlocked'
<1>1. CASE UNCHANGED task
  BY <1>1 DEF HeldOnlyWhileBlocked
<1>2. ASSUME NEW p \in Procs, NEW t \in Tasks, NEW h \in Holder, NEW b \in BOOLEAN,
             CreateTask(p, t, h, b)
      PROVE HeldOnlyWhileBlocked'
  <2>1. b = FALSE
    BY <1>2
  <2>2. PICK r : r = [NoRow EXCEPT !.status = "pending", !.held = b,
                                   !.holder = h, !.kind = KindOf(h)]
    OBVIOUS
  <2>3. task' = [task EXCEPT ![t] = r] /\ r.held = FALSE
    BY <1>2, <2>1, <2>2 DEF CreateTask, NoRow
  <2> QED
    BY <2>3 DEF HeldOnlyWhileBlocked, IInv, TypeOK
<1>3. ASSUME NEW p \in Procs, NEW t \in Tasks, DeleteTask(p, t)
      PROVE HeldOnlyWhileBlocked'
  BY <1>3 DEF DeleteTask, HeldOnlyWhileBlocked, IInv, TypeOK, TaskRow
<1>4. ASSUME NEW p \in Procs, NEW t \in Tasks, NEW a \in Agents, Relate(p, t, a)
      PROVE HeldOnlyWhileBlocked'
  BY <1>4 DEF Relate, HeldOnlyWhileBlocked, IInv, TypeOK, TaskRow
<1>5. ASSUME NEW p \in Procs, Begin(p) PROVE HeldOnlyWhileBlocked'
  <2>1. CASE \/ \E t \in Tasks, a \in Agents : AssignTask(p, t, a)
             \/ \E t \in Tasks, h \in Holders : AssignTaskToHolder(p, t, h)
             \/ \E t \in Tasks : UnassignTask(p, t) \/ UnblockTask(p, t) \/ CancelTask(p, t)
             \/ \E t \in Tasks, s \in Moves, b \in BOOLEAN, k \in Kinds :
                  UpdateTask(p, t, s, b, k)
    <3>1. UNCHANGED tables
      BY <2>1 DEF AssignTask, AssignTaskToHolder, UnassignTask, UnblockTask, CancelTask,
                  UpdateTask, Start
    <3> QED
      BY <1>1, <3>1 DEF tables
  <2>2. CASE \/ \E t \in Tasks : UnblockDependents(p, t)
             \/ \E e \in Edges : Depend(p, e[1], e[2]) \/ Undepend(p, e[1], e[2])
    BY <1>1, <2>2 DEF UnblockDependents, Depend, Undepend
  <2> QED
    BY <1>2, <1>3, <1>4, <1>5, <2>1, <2>2 DEF Begin
<1>6. ASSUME NEW p \in Procs, WriteHolder(p) PROVE HeldOnlyWhileBlocked'
  <2>1. PICK k : k = KindOf(call[p].row.holder)
    OBVIOUS
  <2>2. task' = [task EXCEPT ![call[p].task].holder = call[p].row.holder,
                             ![call[p].task].kind = k]
    BY <1>6, <2>1 DEF WriteHolder
  <2>3. ASSUME NEW t \in Tasks
        PROVE task'[t].held = task[t].held /\ task'[t].status = task[t].status
    <3>1. task[t] \in TaskRow
      BY DEF IInv, TypeOK
    <3>2. CASE t = call[p].task
      <4>1. task'[t] = [task[t] EXCEPT !.holder = call[p].row.holder, !.kind = k]
        BY <2>2, <3>2 DEF IInv, TypeOK
      <4> QED
        BY <3>1, <4>1 DEF TaskRow
    <3>3. CASE t # call[p].task
      BY <2>2, <3>3 DEF IInv, TypeOK
    <3> QED
      BY <3>2, <3>3
  <2> QED
    BY <2>3 DEF HeldOnlyWhileBlocked
<1>7. ASSUME NEW p \in Procs, SaveTask(p) PROVE HeldOnlyWhileBlocked'
  <2>1. call[p].row.held => call[p].row.status = "blocked"
    BY <1>7, CallOf DEF SaveTask, At, Fits
  <2>2. task' = task \/ task' = [task EXCEPT ![call[p].task] = call[p].row]
    BY <1>7 DEF SaveTask
  <2> QED
    BY <2>1, <2>2 DEF HeldOnlyWhileBlocked, IInv, TypeOK
<1>8. ASSUME NEW p \in Procs, Step(p) PROVE HeldOnlyWhileBlocked'
  <2>1. CASE \/ CheckReady(p) \/ DependentsDone(p) \/ ReadAgain(p)
             \/ \E u \in Tasks : ReadDependent(p, u)
    <3>1. UNCHANGED tables
      BY <2>1 DEF CheckReady, DependentsDone, ReadAgain, ReadDependent
    <3> QED
      BY <1>1, <3>1 DEF tables
  <2>2. CASE CloseStretch(p) \/ InsertStretch(p) \/ CheckDeps(p)
    BY <1>1, <2>2 DEF CloseStretch, InsertStretch, CheckDeps
  <2>3. CASE BlockTask(p) \/ Release(p)
    BY <2>3, StatusClearsHeld DEF BlockTask, Release
  <2>4. ~WriteCancelled(p)
    BY DEF WriteCancelled, At
  <2> QED
    BY <1>6, <1>7, <1>8, <2>1, <2>2, <2>3, <2>4 DEF Step
<1>9. Crash => UNCHANGED task
  BY DEF Crash, tables
<1>10. UNCHANGED vars => UNCHANGED task
  BY DEF vars
<1> QED
  BY <1>1, <1>5, <1>8, <1>9, <1>10 DEF Next

LEMMA HeldInit == Init => HeldOnlyWhileBlocked
<1> SUFFICES ASSUME Init, NEW t \in Tasks PROVE ~task[t].held
  BY DEF HeldOnlyWhileBlocked
<1>1. task[t] = NoRow
  BY DEF Init
<1>2. NoRow.held = FALSE
  BY DEF NoRow
<1> QED
  BY <1>1, <1>2

\* held_by is set only on a blocked task, whichever updates, blocks and releases
\* race and whatever is cut short, as long as no cascade cancels a held task
\* (cancelTask leaves the column) and no task is created held.
THEOREM HeldLivesInBlocked ==
  ASSUME "createAs" \notin Ops, "cancel" \notin Ops
  PROVE Spec => []HeldOnlyWhileBlocked
<1>1. Init => HeldOnlyWhileBlocked
  BY HeldInit
<1>2. IInv /\ HeldOnlyWhileBlocked /\ [Next]_vars => HeldOnlyWhileBlocked'
  <2>1. IInv => \A p \in Procs : call[p].at # "cancel"
    BY CallOf DEF Fits
  <2> QED
    BY <2>1, HeldKept DEF CreateTask
<1> QED
  BY <1>1, <1>2, Invariant, PTL DEF Spec
-----------------------------------------------------------------------------
(* Whoever holds a task, or was told of it, is in its history *)

\* No holder is written but by a hand-over, and no hand-over is cut short.
HandedOverOnly == "createAs" \notin Ops /\ "relate" \notin Ops /\ "crash" \notin Ops

\* A step that keeps to it.
HandsOver ==
  /\ \A p \in Procs, t \in Tasks, h \in Holder, b \in BOOLEAN :
       CreateTask(p, t, h, b) => h = NoOne
  /\ \A p \in Procs, t \in Tasks, a \in Agents : ~Relate(p, t, a)

\* A holder a call has read, or is about to tell, is in the history already.
Knows(x) ==
  x.at \in {"again", "save", "cancel", "deps", "ready", "release"} /\ x.row.holder # NoOne
    => Known(x.task, x.row.holder)

RInv == IInv /\ HolderRecorded /\ \A p \in Procs : Knows(call[p])

OthersStay(p) == \A q \in Procs \ {p} : call'[q] = call[q]

\* A holder in the history stays there.
KnownStays == \A t \in Tasks, h \in Holders : Known(t, h) => Known(t, h)'

LEMMA GoesAlone ==
  ASSUME IInv, NEW p \in Procs, NEW x, Goes(p, x)
  PROVE OthersStay(p) /\ call'[p] = x
BY DEF IInv, TypeOK, Goes, OthersStay

\* A step that writes no stretch, of a call that owes none.
LEMMA QuietStep ==
  ASSUME NEW p \in Procs, OthersStay(p), call[p].at # "insert", UNCHANGED <<open, past>>
  PROVE KnownStays
BY DEF OthersStay, KnownStays, Known, Recorded, Owed, At

\* Closing a stretch keeps its holder in the history.
LEMMA CloseStays ==
  ASSUME IInv, NEW p \in Procs, CloseStretch(p)
  PROVE KnownStays
<1>1. OthersStay(p) /\ call[p].at # "insert"
  BY GoesAlone DEF CloseStretch, At, GoesTo
<1>2. ASSUME NEW t \in Tasks, NEW h \in Holders, Recorded(t, h) PROVE Recorded(t, h)'
  BY <1>2 DEF CloseStretch, Recorded, IInv, TypeOK
<1>3. ASSUME NEW t \in Tasks, NEW h \in Holders, Owed(t, h) PROVE Owed(t, h)'
  BY <1>1, <1>3 DEF OthersStay, Owed, At
<1> QED
  BY <1>2, <1>3 DEF KnownStays, Known

\* Opening one pays what the call owed.
LEMMA InsertStays ==
  ASSUME IInv, NEW p \in Procs, InsertStretch(p)
  PROVE /\ KnownStays
        /\ \A t, h : t = call[p].task /\ h = call[p].row.holder => Recorded(t, h)'
<1>1. PICK t \in Tasks, h \in Holders : t = call[p].task /\ h = call[p].row.holder
  BY CallOf DEF InsertStretch, At, Fits
<1>2. open' = [open EXCEPT ![t][h] = open[t][h] + 1] /\ past' = past
  BY <1>1 DEF InsertStretch
<1>3. open'[t][h] > 0
  BY <1>2 DEF IInv, TypeOK
<1>4. OthersStay(p)
  BY GoesAlone DEF InsertStretch, GoesTo, Return
<1>5. ASSUME NEW u \in Tasks, NEW g \in Holders, Recorded(u, g) PROVE Recorded(u, g)'
  BY <1>2, <1>5 DEF Recorded, IInv, TypeOK
<1>6. ASSUME NEW u \in Tasks, NEW g \in Holders, Owed(u, g) PROVE Known(u, g)'
  BY <1>1, <1>3, <1>4, <1>6 DEF OthersStay, Owed, At, Known, Recorded
<1> QED
  BY <1>1, <1>3, <1>5, <1>6 DEF KnownStays, Known, Recorded

\* The call of p goes on with x, while every holder in a row is known.
LEMMA RGoes ==
  ASSUME RInv, IInv', NEW p \in Procs, NEW x \in Call, Goes(p, x), KnownStays,
         Knows(x)', HolderRecorded'
  PROVE RInv'
<1>1. ASSUME NEW q \in Procs PROVE Knows(call[q])'
  <2>1. CASE q = p
    BY <2>1, GoesAlone DEF RInv, Knows
  <2>2. CASE q # p
    <3>1. call'[q] = call[q]
      BY <2>2, GoesAlone DEF RInv, OthersStay
    <3>2. Knows(call[q]) /\ Fits(call[q]) /\ call[q].row.holder \in Holder
      BY CallOf DEF RInv
    <3>3. CASE call[q].at \in {"again", "save", "cancel", "deps", "ready", "release"}
      <4>1. call[q].task \in Tasks
        BY <3>2, <3>3 DEF Fits
      <4> QED
        BY <3>1, <3>2, <4>1 DEF Knows, KnownStays, Holder
    <3>4. CASE call[q].at \notin {"again", "save", "cancel", "deps", "ready", "release"}
      BY <3>1, <3>4 DEF Knows
    <3> QED
      BY <3>3, <3>4
  <2> QED
    BY <2>1, <2>2
<1> QED
  BY <1>1 DEF RInv

\* Nobody is told, and every holder that is written was known.
LEMMA RowsKnown ==
  ASSUME RInv, KnownStays, UNCHANGED dispatched,
         \A t \in Tasks : \/ task'[t].holder \in {task[t].holder, NoOne}
                         \/ Known(t, task[t].holder)'
  PROVE HolderRecorded'
<1>1. ASSUME NEW t \in Tasks, task'[t].holder # NoOne PROVE Known(t, task[t].holder)'
  <2>1. CASE task'[t].holder = task[t].holder
    <3>1. PICK h \in Holder : h = task[t].holder
      BY DEF RInv, IInv, TypeOK, TaskRow
    <3>2. Known(t, h) /\ h \in Holders
      BY <1>1, <2>1, <3>1 DEF RInv, HolderRecorded, Holder
    <3>3. Known(t, h)'
      BY <3>2 DEF KnownStays
    <3> QED
      BY <2>1, <3>1, <3>3 DEF Known, Recorded, Owed, At
  <2> QED
    BY <1>1, <2>1
<1>2. ASSUME NEW d \in dispatched PROVE Known(d[1], d[2])'
  <2>1. d[1] \in Tasks /\ d[2] \in Holders
    BY AgentsHold DEF RInv, IInv, TypeOK
  <2> QED
    BY <2>1 DEF RInv, HolderRecorded, KnownStays
<1> QED
  BY <1>1, <1>2 DEF HolderRecorded

\* An agent is told of a task it was known to hold, and no holder is written.
LEMMA ToldKnown ==
  ASSUME RInv, KnownStays, NEW t \in Tasks, NEW a \in Agents, Known(t, a), Dispatch(t, a),
         \A u \in Tasks : task'[u].holder = task[u].holder
  PROVE HolderRecorded'
<1>1. ASSUME NEW u \in Tasks, task'[u].holder # NoOne PROVE Known(u, task[u].holder)'
  <2>1. PICK h \in Holder : h = task[u].holder
    BY DEF RInv, IInv, TypeOK, TaskRow
  <2>2. Known(u, h) /\ h \in Holders
    BY <1>1, <2>1 DEF RInv, HolderRecorded, Holder
  <2>3. Known(u, h)'
    BY <2>2 DEF KnownStays
  <2> QED
    BY <2>1, <2>3 DEF Known, Recorded, Owed, At
<1>2. ASSUME NEW d \in dispatched' PROVE Known(d[1], d[2])'
  <2>1. d \in dispatched \/ d = <<t, a>>
    BY <1>2 DEF Dispatch
  <2>2. CASE d \in dispatched
    <3>1. d[1] \in Tasks /\ d[2] \in Holders
      BY <2>2, AgentsHold DEF RInv, IInv, TypeOK
    <3> QED
      BY <2>2, <3>1 DEF RInv, HolderRecorded, KnownStays
  <2>3. CASE d = <<t, a>>
    BY <2>3, AgentsHold DEF KnownStays
  <2> QED
    BY <2>1, <2>2, <2>3
<1> QED
  BY <1>1, <1>2 DEF HolderRecorded

\* The holders a step may write where no stretch is.
MayWrite(t) == {NoOne, task[t].holder} \cup {h \in Holders : Known(t, h)}

\* A step of p that writes no stretch and tells nobody.
LEMMA RQuiet ==
  ASSUME RInv, IInv', NEW p \in Procs, NEW x \in Call, Goes(p, x),
         call[p].at # "insert", UNCHANGED <<open, past, dispatched>>, Knows(x),
         \A t \in Tasks : task'[t].holder \in MayWrite(t)
  PROVE RInv'
<1>1. OthersStay(p) /\ call'[p] = x
  BY GoesAlone DEF RInv
<1>2. KnownStays
  BY <1>1, QuietStep
<1>3. Fits(x) /\ x.row.holder \in Holder
  BY <1>1 DEF IInv, Fits, Call, TaskRow
<1>4. Knows(x)'
  BY <1>2, <1>3 DEF Knows, Fits, KnownStays, Holder
<1>5. ASSUME NEW t \in Tasks, task'[t].holder \notin {task[t].holder, NoOne}
      PROVE Known(t, task[t].holder)'
  <2>1. PICK h \in Holders : h = task'[t].holder /\ Known(t, h)
    BY <1>5 DEF MayWrite
  <2>2. Known(t, h)'
    BY <1>2, <2>1 DEF KnownStays
  <2> QED
    BY <2>1, <2>2 DEF Known, Recorded, Owed, At
<1>6. HolderRecorded'
  BY <1>2, <1>5, RowsKnown
<1> QED
  BY <1>2, <1>4, <1>6, RGoes

\* The same where no call takes a step.
LEMMA RCallers ==
  ASSUME RInv, IInv', UNCHANGED <<call, open, past, dispatched>>,
         \A t \in Tasks : task'[t].holder \in {NoOne, task[t].holder}
  PROVE RInv'
<1>1. \A t, h : Known(t, h)' <=> Known(t, h)
  BY DEF Known, Recorded, Owed, At
<1>2. KnownStays
  BY <1>1 DEF KnownStays
<1>3. HolderRecorded'
  BY <1>2, RowsKnown
<1>4. ASSUME NEW q \in Procs PROVE Knows(call[q])'
  BY <1>1 DEF RInv, Knows, Known, Recorded, Owed, At
<1> QED
  BY <1>3, <1>4 DEF RInv

LEMMA RStart ==
  ASSUME RInv, IInv', NEW p \in Procs, NEW t \in Tasks, NEW r \in TaskRow,
         NEW s \in {"close", "again", "save", "cancel"}, Start(p, s, t, r),
         s = "close" \/ r.holder = task[t].holder
  PROVE RInv'
<1>1. PICK x : x = [NoCall EXCEPT !.at = s, !.task = t, !.row = r, !.was = task[t].status]
  OBVIOUS
<1>2. x.at = s /\ x.task = t /\ x.row = r /\ Goes(p, x)
  BY <1>1 DEF NoCall, Start
<1>3. x \in Call
  BY <1>1 DEF NoCall, Call, RInv, IInv, TypeOK, TaskRow
<1>4. Knows(x)
  <2>1. CASE s = "close"
    BY <1>2, <2>1 DEF Knows
  <2>2. CASE r.holder = task[t].holder
    BY <1>2, <2>2 DEF Knows, RInv, HolderRecorded
  <2> QED
    BY <2>1, <2>2
<1>5. call[p].at # "insert" /\ UNCHANGED tables
  BY DEF Start, Idle, At
<1> QED
  BY <1>2, <1>3, <1>4, <1>5, RQuiet DEF tables, MayWrite

LEMMA RBegin ==
  ASSUME RInv, IInv', HandsOver, NEW p \in Procs, Begin(p)
  PROVE RInv'
<1>1. ASSUME NEW t \in Tasks, NEW h \in Holder, NEW b \in BOOLEAN, CreateTask(p, t, h, b)
      PROVE RInv'
  <2>1. PICK r : r = [NoRow EXCEPT !.status = "pending", !.held = b,
                                   !.holder = h, !.kind = KindOf(h)]
    OBVIOUS
  <2>2. r.holder = NoOne
    BY <1>1, <2>1 DEF HandsOver, NoRow
  <2>3. task' = [task EXCEPT ![t] = r]
    BY <1>1, <2>1 DEF CreateTask
  <2>4. \A u \in Tasks : task'[u].holder \in {NoOne, task[u].holder}
    BY <2>2, <2>3 DEF RInv, IInv, TypeOK
  <2> QED
    BY <1>1, <2>4, RCallers DEF CreateTask
<1>2. ASSUME NEW t \in Tasks, NEW h \in Holder,
             Start(p, "close", t, [NoRow EXCEPT !.holder = h])
      PROVE RInv'
  BY <1>2, HolderRow, RStart
<1>3. ASSUME NEW t \in Tasks, UnblockDependents(p, t) PROVE RInv'
  <2>1. PICK x : x = [NoCall EXCEPT !.at = "next", !.task = t,
                                    !.todo = {u \in Tasks : <<u, t>> \in deps}]
    OBVIOUS
  <2>2. x \in Call /\ Knows(x)
    BY <2>1, NoCallType DEF NoCall, Call, Knows
  <2>3. Goes(p, x) /\ call[p].at # "insert"
    BY <1>3, <2>1 DEF UnblockDependents, Idle, At
  <2> QED
    BY <1>3, <2>2, <2>3, RQuiet DEF UnblockDependents, MayWrite
<1>4. ASSUME NEW t \in Tasks, NEW s \in Moves, NEW b \in BOOLEAN, NEW k \in Kinds,
             UpdateTask(p, t, s, b, k)
      PROVE RInv'
  <2>1. PICK r : r = Updated(t, s, b, k)
    OBVIOUS
  <2>2. task[t] \in TaskRow
    BY DEF RInv, IInv, TypeOK
  <2>3. r \in TaskRow
    BY <2>1, <2>2, Bounds DEF Updated, TaskRow
  <2>4. r.holder = task[t].holder
    BY <2>1, <2>2 DEF Updated, TaskRow
  <2> QED
    BY <1>4, <2>1, <2>3, <2>4, RStart DEF UpdateTask
<1>5. ASSUME NEW t \in Tasks, UnblockTask(p, t) PROVE RInv'
  <2>1. task[t] \in TaskRow
    BY DEF RInv, IInv, TypeOK
  <2> QED
    BY <1>5, <2>1, RStart DEF UnblockTask
<1>6. ASSUME NEW t \in Tasks, CancelTask(p, t) PROVE RInv'
  <2>1. PICK r : r = [task[t] EXCEPT !.status = "cancelled"]
    OBVIOUS
  <2>2. task[t] \in TaskRow
    BY DEF RInv, IInv, TypeOK
  <2>3. r \in TaskRow
    BY <2>1, <2>2 DEF TaskRow, TaskStatus
  <2>4. r.holder = task[t].holder
    BY <2>1, <2>2 DEF TaskRow
  <2> QED
    BY <1>6, <2>1, <2>3, <2>4, RStart DEF CancelTask
<1>7. ASSUME NEW t \in Tasks, DeleteTask(p, t) PROVE RInv'
  <2>1. \A u \in Tasks : task'[u].holder \in {NoOne, task[u].holder}
    BY <1>7 DEF DeleteTask, RInv, IInv, TypeOK, TaskRow
  <2> QED
    BY <1>7, <2>1, RCallers DEF DeleteTask
<1>8. ASSUME NEW e \in Edges, Depend(p, e[1], e[2]) \/ Undepend(p, e[1], e[2]) PROVE RInv'
  BY <1>8, RCallers DEF Depend, Undepend
<1>9. ASSUME NEW t \in Tasks, NEW a \in Agents PROVE ~Relate(p, t, a)
  BY DEF HandsOver
<1> QED
  BY <1>1, <1>2, <1>3, <1>4, <1>5, <1>6, <1>7, <1>8, <1>9, AgentsHold
    DEF Begin, Holder, AssignTask, AssignTaskToHolder, UnassignTask

LEMMA RHandOver ==
  ASSUME RInv, IInv', NEW p \in Procs, CloseStretch(p) \/ WriteHolder(p) \/ InsertStretch(p)
  PROVE RInv'
<1> USE CallOf DEF RInv
<1>1. CASE CloseStretch(p)
  <2>1. PICK x : x = [call[p] EXCEPT !.at = "column"]
    OBVIOUS
  <2>2. x \in Call /\ x.at = "column" /\ Goes(p, x)
    BY <1>1, <2>1 DEF Call, CloseStretch, GoesTo
  <2>3. HolderRecorded'
    BY <1>1, CloseStays, RowsKnown DEF CloseStretch
  <2> QED
    BY <1>1, <2>2, <2>3, CloseStays, RGoes DEF Knows
<1>2. CASE WriteHolder(p)
  <2>1. PICK t \in Tasks, h \in Holder : t = call[p].task /\ h = call[p].row.holder
    BY <1>2 DEF WriteHolder, At, Fits
  <2>2. PICK x : x = IF h = NoOne THEN NoCall ELSE [call[p] EXCEPT !.at = "insert"]
    OBVIOUS
  <2>3. x \in Call /\ x.at \in {"idle", "insert"} /\ Goes(p, x)
    BY <1>2, <2>1, <2>2, NoCallType DEF Call, NoCall, WriteHolder, GoesTo, Return
  <2>4. call'[p] = x /\ OthersStay(p) /\ call[p].at # "insert"
    BY <1>2, <2>3, GoesAlone DEF WriteHolder, At
  <2>5. KnownStays
    BY <1>2, <2>4, QuietStep DEF WriteHolder
  <2>6. ASSUME NEW u \in Tasks
        PROVE task'[u].holder = IF u = t THEN h ELSE task[u].holder
    <3>1. PICK k : k = KindOf(h)
      OBVIOUS
    <3>2. task' = [task EXCEPT ![t].holder = h, ![t].kind = k]
      BY <1>2, <2>1, <3>1 DEF WriteHolder
    <3>3. task[u] \in TaskRow
      BY DEF IInv, TypeOK
    <3>4. task'[u] = IF u = t THEN [task[u] EXCEPT !.holder = h, !.kind = k] ELSE task[u]
      BY <3>2 DEF IInv, TypeOK
    <3> QED
      BY <3>3, <3>4 DEF TaskRow
  <2>7. h # NoOne => Known(t, task[t].holder)'
    <3>1. h # NoOne => call'[p].at = "insert" /\ call'[p].task = t /\ call'[p].row.holder = h
      BY <2>1, <2>2, <2>4 DEF Call
    <3> QED
      BY <2>6, <3>1 DEF Known, Owed, At
  <2>8. HolderRecorded'
    BY <1>2, <2>5, <2>6, <2>7, RowsKnown DEF WriteHolder
  <2> QED
    BY <2>3, <2>5, <2>8, RGoes DEF Knows
<1>3. CASE InsertStretch(p)
  <2>1. PICK x : x = IF call[p].row.holder \in Agents
                       THEN [call[p] EXCEPT !.at = "deps"] ELSE NoCall
    OBVIOUS
  <2>2. x \in Call /\ Goes(p, x)
    BY <1>3, <2>1, NoCallType DEF Call, InsertStretch, GoesTo, Return
  <2>3. Knows(x)'
    <3>1. CASE x = NoCall
      BY <3>1 DEF NoCall, Knows
    <3>2. CASE x = [call[p] EXCEPT !.at = "deps"]
      <4>1. x.task = call[p].task /\ x.row.holder = call[p].row.holder
        BY <3>2 DEF Call
      <4>2. Recorded(x.task, x.row.holder)'
        BY <1>3, <4>1, InsertStays
      <4> QED
        BY <4>2 DEF Knows, Known
    <3> QED
      BY <2>1, <3>1, <3>2
  <2>4. HolderRecorded'
    BY <1>3, InsertStays, RowsKnown DEF InsertStretch
  <2> QED
    BY <1>3, <2>2, <2>3, <2>4, InsertStays, RGoes
<1> QED
  BY <1>1, <1>2, <1>3

\* A call that goes on where it has nothing more to know, or knows it already.
LEMMA RMoves ==
  ASSUME RInv, IInv', NEW p \in Procs,
         NEW s \in {"block", "next", "ready", "release"},
         GoesTo(p, s), s \in {"ready", "release"} => call[p].at \in {"ready", "release"},
         call[p].at # "insert", UNCHANGED <<open, past, dispatched>>,
         \A t \in Tasks : task'[t].holder = task[t].holder
  PROVE RInv'
<1>1. PICK x : x = [call[p] EXCEPT !.at = s]
  OBVIOUS
<1>2. call[p] \in Call /\ Knows(call[p])
  BY DEF RInv, IInv, TypeOK
<1>3. x \in Call /\ Knows(x) /\ Goes(p, x)
  BY <1>1, <1>2 DEF Call, Knows, GoesTo
<1> QED
  BY <1>3, RQuiet DEF MayWrite

LEMMA RReturns ==
  ASSUME RInv, IInv', NEW p \in Procs, Return(p), call[p].at # "insert",
         UNCHANGED <<open, past, dispatched>>,
         \A t \in Tasks : task'[t].holder \in MayWrite(t)
  PROVE RInv'
<1>1. PICK x \in Call : x = NoCall /\ Knows(x)
  BY NoCallType DEF NoCall, Knows
<1> QED
  BY <1>1, RQuiet DEF Return

LEMMA StatusKeepsHolder ==
  ASSUME IInv, NEW t, NEW s, SetTaskStatus(t, s)
  PROVE \A u \in Tasks : task'[u].holder = task[u].holder
BY DEF SetTaskStatus, IInv, TypeOK, TaskRow

LEMMA RWait ==
  ASSUME RInv, IInv', NEW p \in Procs,
         \/ CheckDeps(p) \/ BlockTask(p) \/ \E u \in Tasks : ReadDependent(p, u)
         \/ CheckReady(p) \/ Release(p) \/ DependentsDone(p)
  PROVE RInv'
<1> USE CallOf DEF RInv
<1>1. CASE CheckDeps(p)
  <2>1. UNCHANGED <<task, open, past>> /\ call[p].at = "deps"
    BY <1>1 DEF CheckDeps, At
  <2>2. CASE Unmet(call[p].task) = {}
    <3>1. PICK t \in Tasks, a \in Agents : t = call[p].task /\ a = call[p].row.holder
      BY <2>1 DEF Fits
    <3>2. Known(t, a) /\ Dispatch(t, a)
      BY <1>1, <2>1, <2>2, <3>1, NotIds, AgentsHold DEF Knows, CheckDeps
    <3>3. PICK x \in Call : x = NoCall /\ Goes(p, x)
      BY <1>1, <2>2, NoCallType DEF CheckDeps, Return
    <3>4. KnownStays
      BY <2>1, <3>3, GoesAlone, QuietStep
    <3>5. HolderRecorded'
      BY <2>1, <3>2, <3>4, ToldKnown
    <3>6. Knows(x)'
      BY <3>3 DEF NoCall, Knows
    <3> QED
      BY <3>3, <3>4, <3>5, <3>6, RGoes
  <2>3. CASE Unmet(call[p].task) # {}
    <3>1. (GoesTo(p, "block") \/ Return(p)) /\ UNCHANGED dispatched
      BY <1>1, <2>3 DEF CheckDeps
    <3> QED
      BY <2>1, <3>1, RMoves, RReturns DEF MayWrite
  <2> QED
    BY <2>2, <2>3
<1>2. CASE BlockTask(p)
  <2>1. \A t \in Tasks : task'[t].holder = task[t].holder
    BY <1>2, StatusKeepsHolder DEF BlockTask
  <2> QED
    BY <1>2, <2>1, RReturns DEF BlockTask, At, MayWrite
<1>3. ASSUME NEW u \in Tasks, ReadDependent(p, u) PROVE RInv'
  <2>1. PICK x : x = [call[p] EXCEPT !.todo = @ \ {u}]
    OBVIOUS
  <2>2. PICK y : y = [x EXCEPT !.at = "ready", !.task = u, !.row.holder = task[u].holder]
    OBVIOUS
  <2>3. Goes(p, x) \/ Goes(p, y)
    BY <1>3, <2>1, <2>2 DEF ReadDependent
  <2>4. x \in Call /\ x.at = "next"
    BY <1>3, <2>1 DEF ReadDependent, At, Call
  <2>5. y \in Call
    BY <2>2, <2>4 DEF Call, IInv, TypeOK, TaskRow
  <2>6. y.task = u /\ y.row.holder = task[u].holder
    BY <2>2, <2>4 DEF Call, TaskRow
  <2>7. Knows(x) /\ Knows(y)
    BY <2>4, <2>6 DEF Knows, HolderRecorded
  <2>8. UNCHANGED tables /\ call[p].at # "insert"
    BY <1>3 DEF ReadDependent, At
  <2> QED
    BY <2>3, <2>4, <2>5, <2>7, <2>8, RQuiet DEF tables, MayWrite
<1>4. CASE CheckReady(p)
  <2>1. UNCHANGED tables /\ call[p].at = "ready" /\ (GoesTo(p, "release") \/ GoesTo(p, "next"))
    BY <1>4 DEF CheckReady, At
  <2> QED
    BY <2>1, RMoves DEF tables
<1>5. CASE Release(p)
  <2>1. call[p].at = "release" /\ UNCHANGED <<open, past>>
    BY <1>5 DEF Release, At
  <2>2. PICK t \in Tasks, a \in Agents : t = call[p].task /\ a = call[p].row.holder
    BY <2>1 DEF Fits
  <2>3. Known(t, a) /\ Dispatch(t, a)
    BY <1>5, <2>1, <2>2, NotIds, AgentsHold DEF Knows, Release
  <2>4. \A u \in Tasks : task'[u].holder = task[u].holder
    BY <1>5, StatusKeepsHolder DEF Release
  <2>5. PICK x : x = [call[p] EXCEPT !.at = "next"]
    OBVIOUS
  <2>6. x \in Call /\ x.at = "next" /\ Goes(p, x)
    BY <1>5, <2>5 DEF Call, Release, GoesTo
  <2>7. KnownStays
    BY <2>1, <2>6, GoesAlone, QuietStep
  <2>8. HolderRecorded'
    BY <2>3, <2>4, <2>7, ToldKnown
  <2> QED
    BY <2>6, <2>7, <2>8, RGoes DEF Knows
<1>6. CASE DependentsDone(p)
  <2>1. UNCHANGED tables /\ call[p].at # "insert" /\ Return(p)
    BY <1>6 DEF DependentsDone, At
  <2> QED
    BY <2>1, RReturns DEF tables, MayWrite
<1> QED
  BY <1>1, <1>2, <1>3, <1>4, <1>5, <1>6

LEMMA RWrite ==
  ASSUME RInv, IInv', NEW p \in Procs, ReadAgain(p) \/ SaveTask(p) \/ WriteCancelled(p)
  PROVE RInv'
<1> USE CallOf DEF RInv
<1>1. CASE ReadAgain(p)
  <2>1. UNCHANGED tables /\ call[p].at = "again"
    BY <1>1 DEF ReadAgain, At
  <2>2. CASE Return(p)
    BY <2>1, <2>2, RReturns DEF tables, MayWrite
  <2>3. CASE Goes(p, [call[p] EXCEPT !.at = "save", !.was = task[call[p].task].status,
                        !.row = Updated(call[p].task, "awaiting-direction", @.held, @.kind)])
    <3>1. PICK t \in Tasks : t = call[p].task
      BY <2>1 DEF Fits
    <3>2. task[t] \in TaskRow
      BY DEF IInv, TypeOK
    <3>3. PICK r : r = Updated(t, "awaiting-direction", call[p].row.held, call[p].row.kind)
      OBVIOUS
    <3>4. PICK w \in TaskStatus \cup {"absent"} : w = task[t].status
      BY <3>2 DEF TaskRow
    <3>5. r \in TaskRow /\ r.holder = task[t].holder
      BY <3>2, <3>3 DEF Updated, TaskRow, TaskStatus
    <3>6. PICK x : x = [call[p] EXCEPT !.at = "save", !.was = w, !.row = r]
      OBVIOUS
    <3>7. x \in Call /\ x.task = t /\ x.row = r
      BY <3>1, <3>5, <3>6 DEF Call
    <3>8. Knows(x)
      BY <3>5, <3>7 DEF Knows, HolderRecorded
    <3>9. Goes(p, x)
      BY <2>3, <3>1, <3>3, <3>4, <3>6 DEF Goes
    <3> QED
      BY <2>1, <3>7, <3>8, <3>9, RQuiet DEF tables, MayWrite
  <2> QED
    BY <1>1, <2>2, <2>3 DEF ReadAgain
<1>2. ASSUME SaveTask(p) \/ WriteCancelled(p) PROVE RInv'
  <2>1. call[p].at \in {"save", "cancel"} /\ Return(p) /\ UNCHANGED <<open, past, dispatched>>
    BY <1>2 DEF SaveTask, WriteCancelled, At
  <2>2. task' = task \/ task' = [task EXCEPT ![call[p].task] = call[p].row]
    BY <1>2 DEF SaveTask, WriteCancelled
  <2>3. PICK t \in Tasks, h \in Holder : t = call[p].task /\ h = call[p].row.holder
    BY <2>1 DEF Fits
  <2>4. h # NoOne => Known(t, h)
    BY <2>1, <2>3 DEF Knows
  <2>5. ASSUME NEW u \in Tasks PROVE task'[u].holder \in MayWrite(u)
    <3>1. task'[u].holder = task[u].holder \/ (u = t /\ task'[u].holder = h)
      BY <2>2, <2>3 DEF IInv, TypeOK
    <3> QED
      BY <2>4, <3>1 DEF MayWrite, Holder
  <2> QED
    BY <2>1, <2>5, RReturns
<1> QED
  BY <1>1, <1>2

LEMMA RInit == Init => RInv
<1> SUFFICES ASSUME Init PROVE RInv
  OBVIOUS
<1>1. HolderRecorded
  BY DEF Init, HolderRecorded, NoRow
<1>2. \A p \in Procs : Knows(call[p])
  BY DEF Init, Knows, NoCall
<1> QED
  BY <1>1, <1>2, InitOK DEF RInv

LEMMA RActs ==
  ASSUME RInv, HandsOver, NEW p \in Procs, Begin(p) \/ Step(p)
  PROVE RInv'
<1>1. IInv'
  BY NextKeeps DEF RInv, Next
<1>2. ASSUME Step(p) PROVE RInv'
  BY <1>1, <1>2, RHandOver, RWait, RWrite DEF Step
<1> QED
  BY <1>1, <1>2, RBegin

LEMMA RSame == RInv /\ UNCHANGED vars => RInv'
<1>1. IInv /\ UNCHANGED vars => IInv'
  BY NextKeeps
<1> QED
  BY <1>1, RCallers DEF RInv, vars

\* Whoever a task names as its holder, and every agent that was told of it, is in
\* its history or about to be (handOver, UpdateTask, cancelTask,
\* maybeUnblockDependent), whatever calls race, as long as holders come from
\* hand-overs alone and no hand-over is cut short.
THEOREM EveryHolderRecorded ==
  ASSUME HandedOverOnly
  PROVE Spec => []HolderRecorded
<1>1. RInv /\ [Next]_vars => RInv'
  <2>1. HandsOver /\ ~Crash
    BY DEF HandsOver, HandedOverOnly, CreateTask, Relate, Crash
  <2> QED
    BY <2>1, RActs, RSame DEF Next
<1>2. RInv => HolderRecorded
  BY DEF RInv
<1> QED
  BY <1>1, <1>2, RInit, PTL DEF Spec
-----------------------------------------------------------------------------
(* The checked specification keeps to what the theorems above ask for *)

\* NoRow and what CreateTask writes.
LEMMA Created ==
  ASSUME IInv, NEW p \in Procs, NEW t \in Tasks, NEW h \in Holder, NEW b \in BOOLEAN,
         CreateTask(p, t, h, b)
  PROVE /\ task'[t].holder = h /\ task'[t].held = b /\ task'[t].kind = KindOf(h)
        /\ task'[t].status = "pending" /\ ~Exists(t)
        /\ \A u \in Tasks \ {t} : task'[u] = task[u]
<1>1. PICK k : k = KindOf(h)
  OBVIOUS
<1>2. PICK r : r = [NoRow EXCEPT !.status = "pending", !.held = b, !.holder = h, !.kind = k]
  OBVIOUS
<1>3. r.holder = h /\ r.held = b /\ r.kind = k /\ r.status = "pending"
  BY <1>2 DEF NoRow
<1>4. task' = [task EXCEPT ![t] = r] /\ ~Exists(t)
  BY <1>1, <1>2 DEF CreateTask
<1> QED
  BY <1>1, <1>3, <1>4 DEF IInv, TypeOK

LEMMA Related ==
  ASSUME IInv, NEW p \in Procs, NEW t \in Tasks, NEW a \in Agents, Relate(p, t, a)
  PROVE task'[t].holder # task[t].holder /\ Exists(t) /\ UNCHANGED call
<1>1. PICK h : h = IF task[t].holder = a THEN NoOne ELSE a
  OBVIOUS
<1>2. task[t] \in TaskRow
  BY DEF IInv, TypeOK
<1>3. [task[t] EXCEPT !.holder = h].holder = h
  BY <1>2 DEF TaskRow
<1>4. task'[t].holder = h
  BY <1>1, <1>3 DEF Relate, IInv, TypeOK
<1> QED
  BY <1>1, <1>4, NotIds, AgentsHold DEF Relate

LEMMA CarefulHandsOver == IInv /\ Careful => HandsOver
<1> SUFFICES ASSUME IInv, Careful PROVE HandsOver
  OBVIOUS
<1>1. ASSUME NEW p \in Procs, NEW t \in Tasks, NEW h \in Holder, NEW b \in BOOLEAN,
             CreateTask(p, t, h, b)
      PROVE h = NoOne
  BY <1>1, Created DEF Careful
<1>2. ASSUME NEW p \in Procs, NEW t \in Tasks, NEW a \in Agents PROVE ~Relate(p, t, a)
  BY <1>2, Related DEF Careful
<1> QED
  BY <1>1, <1>2 DEF HandsOver

\* The checked specification is one of Assignments, if p1 calls.
LEMMA MCInvariant ==
  ASSUME p1 \in Procs
  PROVE /\ MCInit => IInv
        /\ IInv /\ [MCNext]_<<vars, scenario>> => IInv'
<1>1. [MCNext]_<<vars, scenario>> => [Next]_vars
  BY DEF MCNext, Acts, Next
<1>2. MCInit => Init
  BY DEF MCInit
<1> QED
  BY <1>1, <1>2, InitOK, NextKeeps

\* The same of the checked specification, crashes included, whose hand-overs and
\* updates are careful in three scenarios: held_by lives only while a task is
\* blocked (UpdateTask, setTaskStatus).
THEOREM CheckedHeldLivesInBlocked ==
  ASSUME p1 \in Procs
  PROVE MCSpec => []HeldWhileBlocked
<1> DEFINE None == \A p \in Procs : call[p].at # "cancel"
           Held == scenario \in {"wait", "hands", "race"} => HeldOnlyWhileBlocked /\ None
<1>1. MCInit => Held
  BY HeldInit DEF MCInit, Init, NoCall
<1>2. IInv /\ Held /\ [MCNext]_<<vars, scenario>> => Held'
  <2> SUFFICES ASSUME IInv, HeldOnlyWhileBlocked, None, [MCNext]_<<vars, scenario>>,
                      scenario \in {"wait", "hands", "race"}
               PROVE HeldOnlyWhileBlocked' /\ None'
    BY DEF MCNext
  <2>1. CASE UNCHANGED <<vars, scenario>>
    BY <2>1 DEF vars, HeldOnlyWhileBlocked
  <2>2. CASE Crash
    BY <2>2 DEF Crash, tables, NoCall, HeldOnlyWhileBlocked
  <2>3. ASSUME NEW p \in Procs, Acts(p), Careful PROVE HeldOnlyWhileBlocked' /\ None'
    <3>1. \A q \in Procs, t \in Tasks, h \in Holder : ~CreateTask(q, t, h, TRUE)
      BY <2>3, Created DEF Careful
    <3>2. [Next]_vars
      BY <2>3 DEF Acts, Next
    <3>3. HeldOnlyWhileBlocked'
      BY <3>1, <3>2, HeldKept
    <3> QED
      BY <2>3, <3>3 DEF Careful
  <2> QED
    BY <2>1, <2>2, <2>3 DEF MCNext
<1>3. Held => HeldWhileBlocked
  BY DEF HeldWhileBlocked
<1> QED
  BY <1>1, <1>2, <1>3, MCInvariant, PTL DEF MCSpec

\* And whoever holds a task, or was told of it, is in its history, also when the
\* hand-overs and updates of two callers race (handOver, maybeUnblockDependent).
THEOREM CheckedHolderRecorded ==
  ASSUME p1 \in Procs
  PROVE MCSpec => []HolderInHistory
<1> DEFINE InHistory == scenario \in {"wait", "race"} => RInv
<1>1. MCInit => InHistory
  BY RInit DEF MCInit
<1>2. IInv /\ InHistory /\ [MCNext]_<<vars, scenario>> => InHistory'
  <2> SUFFICES ASSUME RInv, [MCNext]_<<vars, scenario>>, scenario \in {"wait", "race"}
               PROVE RInv'
    BY DEF MCNext
  <2>1. CASE UNCHANGED <<vars, scenario>>
    BY <2>1, RSame
  <2>2. ASSUME NEW p \in Procs, Acts(p), Careful PROVE RInv'
    BY <2>2, CarefulHandsOver, RActs DEF Acts, RInv
  <2> QED
    BY <2>1, <2>2 DEF MCNext
<1>3. InHistory => HolderInHistory
  BY DEF HolderInHistory, RInv
<1> QED
  BY <1>1, <1>2, <1>3, MCInvariant, PTL DEF MCSpec
-----------------------------------------------------------------------------
(* What one caller has read still holds *)

\* p is the only caller with a call under way.
Only(p) == \A q \in Procs \ {p} : call[q] = NoCall

\* A call whose next statement uses nothing it has read.
LEMMA NothingRead ==
  ASSUME NEW p, call'[p].at \in {"idle", "next"}
  PROVE Current(p)'
BY DEF Current, At

LEMMA GoesIs ==
  ASSUME IInv, NEW p \in Procs, NEW x, Goes(p, x)
  PROVE call'[p] = x /\ \A q \in Procs \ {p} : call'[q] = call[q]
BY DEF Goes, IInv, TypeOK

\* A call that returns or goes on at s; the rest of it stays.
LEMMA GoesToIs ==
  ASSUME IInv, NEW p \in Procs, NEW s, GoesTo(p, s)
  PROVE /\ call'[p].at = s /\ call'[p].task = call[p].task /\ call'[p].row = call[p].row
        /\ call'[p].was = call[p].was /\ call'[p].todo = call[p].todo
        /\ \A q \in Procs \ {p} : call'[q] = call[q]
<1>1. PICK x : x = [call[p] EXCEPT !.at = s]
  OBVIOUS
<1>2. call[p] \in Call
  BY CallOf
<1>3. x.at = s /\ x.task = call[p].task /\ x.row = call[p].row
  BY <1>1, <1>2 DEF Call
<1>4. x.was = call[p].was /\ x.todo = call[p].todo
  BY <1>1, <1>2 DEF Call
<1> QED
  BY <1>1, <1>3, <1>4, GoesIs DEF GoesTo

LEMMA ReturnIs ==
  ASSUME IInv, NEW p \in Procs, Return(p)
  PROVE call'[p] = NoCall /\ call'[p].at = "idle" /\ \A q \in Procs \ {p} : call'[q] = call[q]
BY GoesIs DEF Return, NoCall

LEMMA StartIs ==
  ASSUME IInv, NEW p \in Procs, NEW s, NEW t, NEW r, Start(p, s, t, r)
  PROVE /\ call'[p].at = s /\ call'[p].task = t /\ call'[p].row = r
        /\ call'[p].was = task[t].status /\ call[p].at = "idle"
        /\ UNCHANGED tables /\ \A q \in Procs \ {p} : call'[q] = call[q]
<1>1. PICK x : x = [NoCall EXCEPT !.at = s, !.task = t, !.row = r, !.was = task[t].status]
  OBVIOUS
<1>2. x.at = s /\ x.task = t /\ x.row = r /\ x.was = task[t].status
  BY <1>1 DEF NoCall
<1>3. Goes(p, x) /\ UNCHANGED tables /\ call[p].at = "idle"
  BY <1>1 DEF Start, Idle, At
<1> QED
  BY <1>2, <1>3, GoesIs

\* What UpdateTask and UnblockTask write of a row.
LEMMA UpdatedIs ==
  ASSUME IInv, NEW t \in Tasks, NEW s, NEW b, NEW k
  PROVE /\ Updated(t, s, b, k).status = s /\ Updated(t, s, b, k).kind = k
        /\ Updated(t, s, b, k).holder = task[t].holder
        /\ Updated(t, s, b, k).deleted = task[t].deleted
<1>1. PICK y \in TaskRow : y = task[t]
  BY DEF IInv, TypeOK
<1>2. PICK d : d = (b /\ s = "blocked")
  OBVIOUS
<1>3. PICK r : r = [y EXCEPT !.status = s, !.kind = k, !.held = d]
  OBVIOUS
<1>4. r.status = s /\ r.kind = k /\ r.holder = y.holder /\ r.deleted = y.deleted
  BY <1>1, <1>3 DEF TaskRow
<1> QED
  BY <1>1, <1>2, <1>3, <1>4 DEF Updated

\* What ReadAgain makes of a call.
LEMMA ReadAgainIs ==
  ASSUME IInv, NEW p \in Procs, ReadAgain(p)
  PROVE \/ Return(p)
        \/ /\ call'[p].at = "save" /\ call'[p].task = call[p].task
           /\ call'[p].was = task[call[p].task].status
           /\ call'[p].row.status = "awaiting-direction"
           /\ call'[p].row.kind = call[p].row.kind
           /\ call'[p].row.holder = task[call[p].task].holder
           /\ Live(call[p].task) /\ MayMove(call[p].task, "awaiting-direction")
           /\ \A q \in Procs \ {p} : call'[q] = call[q]
<1>1. PICK y \in Call : y = call[p] /\ y.at = "again" /\ y.task \in Tasks
  BY CallOf DEF ReadAgain, At, Fits
<1>2. PICK r : r = Updated(y.task, "awaiting-direction", y.row.held, y.row.kind)
  OBVIOUS
<1>3. /\ r.status = "awaiting-direction" /\ r.kind = y.row.kind
      /\ r.holder = task[y.task].holder
  BY <1>1, <1>2, UpdatedIs
<1>4. PICK w : w = task[y.task].status
  OBVIOUS
<1>5. PICK x : x = [y EXCEPT !.at = "save", !.was = w, !.row = r]
  OBVIOUS
<1>6. x.at = "save" /\ x.task = y.task /\ x.was = w /\ x.row = r
  BY <1>1, <1>5 DEF Call
<1>7. Return(p) \/ (Goes(p, x) /\ Live(y.task) /\ MayMove(y.task, "awaiting-direction"))
  BY <1>1, <1>2, <1>4, <1>5, ZenonT(60) DEF ReadAgain, Goes
<1> QED
  BY <1>1, <1>3, <1>4, <1>6, <1>7, GoesIs

\* And ReadDependent.
LEMMA ReadDependentIs ==
  ASSUME IInv, NEW p \in Procs, NEW u \in Tasks, ReadDependent(p, u)
  PROVE /\ call'[p].todo = call[p].todo \ {u}
        /\ \A q \in Procs \ {p} : call'[q] = call[q]
        /\ UNCHANGED tables /\ At(p, "next") /\ u \in call[p].todo
        /\ IF Live(u) /\ task[u].status = "blocked"
             THEN /\ call'[p].at = "ready" /\ call'[p].task = u
                  /\ call'[p].row.holder = task[u].holder
             ELSE call'[p].at = "next"
<1>1. PICK y \in Call : y = call[p] /\ y.at = "next"
  BY CallOf DEF ReadDependent, At
<1>2. PICK x : x = [y EXCEPT !.todo = y.todo \ {u}]
  OBVIOUS
<1>3. PICK r : r = [y.row EXCEPT !.holder = task[u].holder]
  OBVIOUS
<1>4. PICK z : z = [y EXCEPT !.todo = y.todo \ {u}, !.at = "ready", !.task = u, !.row = r]
  OBVIOUS
<1>5. y.row \in TaskRow
  BY <1>1 DEF Call
<1>6. r.holder = task[u].holder
  BY <1>3, <1>5 DEF TaskRow
<1>7. x.todo = y.todo \ {u} /\ x.at = "next"
  BY <1>1, <1>2 DEF Call
<1>8. z.todo = y.todo \ {u} /\ z.at = "ready" /\ z.task = u /\ z.row = r
  BY <1>1, <1>4 DEF Call
<1>9. CASE Live(u) /\ task[u].status = "blocked"
  <2>1. Goes(p, z)
    <3>1. PICK c : c = [[y EXCEPT !.todo = @ \ {u}] EXCEPT !.at = "ready", !.task = u,
                                                            !.row.holder = task[u].holder]
      OBVIOUS
    <3>2. Goes(p, c)
      BY <1>1, <1>9, <3>1 DEF ReadDependent, Goes
    <3>3. c = z
      BY <1>1, <1>2, <1>3, <1>4, <3>1 DEF Call
    <3> QED
      BY <3>2, <3>3
  <2> QED
    BY <1>1, <1>6, <1>8, <1>9, <2>1, GoesIs DEF ReadDependent
<1>10. CASE ~(Live(u) /\ task[u].status = "blocked")
  <2>1. Goes(p, x)
    BY <1>1, <1>2, <1>10 DEF ReadDependent, Goes
  <2> QED
    BY <1>1, <1>7, <1>10, <2>1, GoesIs DEF ReadDependent
<1> QED
  BY <1>9, <1>10

LEMMA StatusIs ==
  ASSUME IInv, NEW t \in Tasks, NEW s, SetTaskStatus(t, s)
  PROVE /\ task'[t].status = s /\ task'[t].deleted = task[t].deleted
        /\ task'[t].holder = task[t].holder /\ task'[t].kind = task[t].kind
        /\ \A u \in Tasks \ {t} : task'[u] = task[u]
<1>1. PICK y \in TaskRow : y = task[t]
  BY DEF IInv, TypeOK
<1>2. PICK b : b = (y.held /\ s = "blocked")
  OBVIOUS
<1>3. PICK r : r = [y EXCEPT !.status = s, !.held = b]
  OBVIOUS
<1>4. r.status = s /\ r.deleted = y.deleted /\ r.holder = y.holder /\ r.kind = y.kind
  BY <1>1, <1>3 DEF TaskRow
<1>5. task'[t] = [task[t] EXCEPT !.status = s, !.held = @ /\ s = "blocked"]
  BY DEF SetTaskStatus, IInv, TypeOK
<1>6. task'[t] = r
  BY <1>1, <1>2, <1>3, <1>5
<1>7. \A u \in Tasks \ {t} : task'[u] = task[u]
  BY DEF SetTaskStatus, IInv, TypeOK
<1> QED
  BY <1>1, <1>4, <1>6, <1>7

LEMMA WriteHolderIs ==
  ASSUME IInv, NEW p \in Procs, WriteHolder(p)
  PROVE LET t == call[p].task  h == call[p].row.holder IN
          /\ t \in Tasks /\ h \in Holder
          /\ task'[t].holder = h /\ task'[t].kind = KindOf(h)
          /\ task'[t].status = task[t].status /\ task'[t].deleted = task[t].deleted
          /\ \A u \in Tasks \ {t} : task'[u] = task[u]
<1>1. PICK t \in Tasks, h \in Holder : t = call[p].task /\ h = call[p].row.holder
  BY CallOf DEF WriteHolder, At, Fits
<1>2. PICK k : k = KindOf(h)
  OBVIOUS
<1>3. task' = [task EXCEPT ![t].holder = h, ![t].kind = k]
  BY <1>1, <1>2 DEF WriteHolder
<1>4. PICK y \in TaskRow : y = task[t]
  BY DEF IInv, TypeOK
<1>5. PICK r : r = [y EXCEPT !.holder = h, !.kind = k]
  OBVIOUS
<1>6. r.holder = h /\ r.kind = k /\ r.status = y.status /\ r.deleted = y.deleted
  BY <1>4, <1>5 DEF TaskRow
<1>7. task'[t] = r /\ \A u \in Tasks \ {t} : task'[u] = task[u]
  BY <1>3, <1>4, <1>5 DEF IInv, TypeOK
<1> QED
  BY <1>1, <1>2, <1>4, <1>6, <1>7

LEMMA SaveIs ==
  ASSUME IInv, NEW p \in Procs, SaveTask(p)
  PROVE LET t == call[p].task IN
          /\ At(p, "save") /\ t \in Tasks /\ Return(p)
          /\ task'[t] = IF Live(t) THEN call[p].row ELSE task[t]
          /\ \A u \in Tasks \ {t} : task'[u] = task[u]
<1>1. PICK t \in Tasks : t = call[p].task
  BY CallOf DEF SaveTask, At, Fits
<1> QED
  BY <1>1 DEF SaveTask, IInv, TypeOK

LEMMA CurrentKept ==
  ASSUME IInv, NEW p \in Procs, Current(p), Begin(p) \/ Step(p)
  PROVE Current(p)'
<1>1. ASSUME UNCHANGED call, Idle(p) PROVE Current(p)'
  BY <1>1, NothingRead DEF Idle, At
<1>2. ASSUME Return(p) PROVE Current(p)'
  BY <1>2, ReturnIs, NothingRead
<1>3. ASSUME GoesTo(p, "next") PROVE Current(p)'
  BY <1>3, GoesToIs, NothingRead
<1>4. ASSUME NEW t \in Tasks, NEW r, NEW s \in {"close", "again", "save", "cancel"},
             Start(p, s, t, r),
             s = "save" => r.status \in TaskNext[task[t].status] \cup {task[t].status},
             s = "cancel" => r.status \in TaskNext[task[t].status]
      PROVE Current(p)'
  BY <1>4, StartIs DEF Current, At, tables
<1>5. ASSUME Begin(p) PROVE Current(p)'
  <2>1. ASSUME NEW t \in Tasks, NEW s \in Moves, NEW b \in BOOLEAN, NEW k \in Kinds,
               UpdateTask(p, t, s, b, k)
        PROVE Current(p)'
    BY <1>4, <2>1, UpdatedIs DEF UpdateTask, MayMove
  <2>2. ASSUME NEW t \in Tasks, CancelTask(p, t) PROVE Current(p)'
    <3>1. [task[t] EXCEPT !.status = "cancelled"].status = "cancelled"
      BY DEF IInv, TypeOK, TaskRow
    <3> QED
      BY <1>4, <2>2, <3>1 DEF CancelTask
  <2>3. ASSUME NEW t \in Tasks, UnblockDependents(p, t) PROVE Current(p)'
    <3>1. PICK x : x = [NoCall EXCEPT !.at = "next", !.task = t,
                                      !.todo = {u \in Tasks : <<u, t>> \in deps}]
      OBVIOUS
    <3>2. x.at = "next" /\ Goes(p, x)
      BY <2>3, <3>1 DEF NoCall, UnblockDependents
    <3>3. call'[p] = x
      BY <3>2, GoesIs
    <3> QED
      BY <3>2, <3>3, NothingRead
  <2> QED
    BY <1>1, <1>4, <1>5, <2>1, <2>2, <2>3
      DEF Begin, CreateTask, AssignTask, AssignTaskToHolder, UnassignTask, UnblockTask,
          DeleteTask, Depend, Undepend, Relate
<1>6. CASE CloseStretch(p)
  BY <1>6, GoesToIs DEF CloseStretch, Current, At
<1>7. CASE WriteHolder(p)
  <2>1. CASE GoesTo(p, "insert")
    <3>1. PICK t : t = call[p].task /\ task'[t].status = task[t].status
      BY <1>7, WriteHolderIs
    <3>2. call[p].was = task[t].status
      BY <1>7, <3>1 DEF WriteHolder, Current, At
    <3> QED
      BY <2>1, <3>1, <3>2, GoesToIs DEF Current, At
  <2> QED
    BY <1>2, <1>7, <2>1 DEF WriteHolder
<1>8. CASE InsertStretch(p)
  <2>1. CASE GoesTo(p, "deps")
    BY <1>8, <2>1, GoesToIs DEF InsertStretch, Current, At
  <2> QED
    BY <1>2, <1>8, <2>1 DEF InsertStretch
<1>9. CASE CheckDeps(p)
  <2>1. CASE /\ GoesTo(p, "block") /\ "blocked" \in TaskNext[call[p].was]
             /\ Unmet(call[p].task) # {}
    <3>1. UNCHANGED <<task, deps>>
      BY <1>9 DEF CheckDeps
    <3>2. call[p].was = task[call[p].task].status
      BY <1>9 DEF CheckDeps, Current, At
    <3> QED
      BY <2>1, <3>1, <3>2, GoesToIs DEF Current, At, Unmet, Finished, Live, Exists
  <2> QED
    BY <1>2, <1>9, <2>1 DEF CheckDeps
<1>10. ASSUME NEW u \in Tasks, ReadDependent(p, u) PROVE Current(p)'
  <2>1. UNCHANGED task
    BY <1>10 DEF ReadDependent, tables
  <2> QED
    BY <1>10, <2>1, ReadDependentIs, NothingRead DEF Current, At
<1>11. CASE CheckReady(p)
  <2>1. CASE GoesTo(p, "release") /\ Unmet(call[p].task) = {}
    <3>1. UNCHANGED <<task, deps>>
      BY <1>11 DEF CheckReady, tables
    <3> QED
      BY <1>11, <2>1, <3>1, GoesToIs DEF CheckReady, Current, At, Unmet, Finished, Live, Exists
  <2> QED
    BY <1>3, <1>11, <2>1 DEF CheckReady
<1>12. CASE ReadAgain(p)
  <2>1. UNCHANGED task
    BY <1>12 DEF ReadAgain, tables
  <2> QED
    BY <1>2, <1>12, <2>1, ReadAgainIs DEF MayMove, Current, At
<1> QED
  BY <1>2, <1>3, <1>5, <1>6, <1>7, <1>8, <1>9, <1>10, <1>11, <1>12
    DEF Step, BlockTask, Release, DependentsDone, SaveTask, WriteCancelled

\* A status that changes does so where CanTransitionTo allows it.
Legally ==
  \A t \in Tasks : Exists(t) /\ task'[t].status # task[t].status
    => task'[t].status \in TaskNext[task[t].status]

LEMMA ActsLegally ==
  ASSUME IInv, NEW p \in Procs, Current(p), Begin(p) \/ Step(p)
  PROVE Legally
<1>1. ASSUME NEW t \in Tasks, \A u \in Tasks \ {t} : task'[u].status = task[u].status,
             Exists(t) /\ task'[t].status # task[t].status
               => task'[t].status \in TaskNext[task[t].status]
      PROVE Legally
  BY <1>1 DEF Legally
<1>2. ASSUME \A t \in Tasks : task'[t].status = task[t].status PROVE Legally
  BY <1>2 DEF Legally
<1>3. ASSUME UNCHANGED tables PROVE Legally
  BY <1>2, <1>3 DEF tables
<1>4. ASSUME Begin(p) PROVE Legally
  <2>1. ASSUME NEW t \in Tasks, NEW h \in Holder, NEW b \in BOOLEAN, CreateTask(p, t, h, b)
        PROVE Legally
    BY <1>1, <2>1, Created
  <2>2. ASSUME NEW t \in Tasks, DeleteTask(p, t) PROVE Legally
    <3>1. \A u \in Tasks : task'[u].status = task[u].status
      BY <2>2 DEF DeleteTask, IInv, TypeOK, TaskRow
    <3> QED
      BY <1>2, <3>1
  <2>3. ASSUME NEW t \in Tasks, NEW a \in Agents, Relate(p, t, a) PROVE Legally
    <3>1. \A u \in Tasks : task'[u].status = task[u].status
      BY <2>3 DEF Relate, IInv, TypeOK, TaskRow
    <3> QED
      BY <1>2, <3>1
  <2>4. ASSUME NEW s, NEW t, NEW r, Start(p, s, t, r) PROVE Legally
    BY <1>3, <2>4 DEF Start
  <2>5. ASSUME UNCHANGED task PROVE Legally
    BY <1>2, <2>5
  <2> QED
    BY <1>4, <2>1, <2>2, <2>3, <2>4, <2>5
      DEF Begin, AssignTask, AssignTaskToHolder, UnassignTask, UnblockDependents, UpdateTask,
          UnblockTask, CancelTask, Depend, Undepend
<1>5. CASE WriteHolder(p)
  BY <1>1, <1>5, WriteHolderIs
<1>6. CASE BlockTask(p)
  <2>1. PICK t \in Tasks : t = call[p].task /\ "blocked" \in TaskNext[task[t].status]
    BY <1>6, CallOf DEF BlockTask, At, Fits, Current
  <2> QED
    BY <1>1, <1>6, <2>1, StatusIs DEF BlockTask
<1>7. CASE Release(p)
  <2>1. PICK t \in Tasks : t = call[p].task /\ task[t].status = "blocked"
    BY <1>7, CallOf DEF Release, At, Fits, Current
  <2>2. "pending" \in TaskNext["blocked"]
    BY DEF TaskNext, TaskStatus
  <2> QED
    BY <1>1, <1>7, <2>1, <2>2, StatusIs DEF Release
<1>8. CASE SaveTask(p)
  <2>1. PICK t \in Tasks : t = call[p].task
    BY <1>8, SaveIs
  <2>2. call[p].row.status \in TaskNext[task[t].status] \cup {task[t].status}
    BY <1>8, <2>1, SaveIs DEF Current, At
  <2> QED
    BY <1>1, <1>8, <2>1, <2>2, SaveIs
<1>9. CASE WriteCancelled(p)
  <2>1. PICK t \in Tasks : t = call[p].task
    BY <1>9, CallOf DEF WriteCancelled, At, Fits
  <2>2. call[p].row.status \in TaskNext[task[t].status]
    BY <1>9, <2>1 DEF WriteCancelled, Current, At
  <2>3. task'[t] = call[p].row /\ \A u \in Tasks \ {t} : task'[u] = task[u]
    BY <1>9, <2>1 DEF WriteCancelled, IInv, TypeOK
  <2> QED
    BY <1>1, <2>2, <2>3
<1>10. CASE CloseStretch(p) \/ InsertStretch(p) \/ CheckDeps(p)
  BY <1>2, <1>10 DEF CloseStretch, InsertStretch, CheckDeps
<1> QED
  BY <1>3, <1>4, <1>5, <1>6, <1>7, <1>8, <1>9, <1>10
    DEF Step, ReadDependent, CheckReady, DependentsDone, ReadAgain

\* Nobody is told of a task that still waits.
LEMMA ActsInTime ==
  ASSUME IInv, NEW p \in Procs, NothingEarly, Begin(p) \/ Step(p),
         At(p, "release") => Unmet(call[p].task) = {}
  PROVE NothingEarly'
<1>1. ASSUME Begin(p) PROVE UNCHANGED early
  BY <1>1 DEF Begin, CreateTask, AssignTask, AssignTaskToHolder, UnassignTask,
              UnblockDependents, UpdateTask, UnblockTask, CancelTask, DeleteTask, Depend,
              Undepend, Relate, Start, tables
<1>2. CASE Release(p) \/ CheckDeps(p)
  BY <1>2 DEF Release, CheckDeps, Dispatch, NothingEarly
<1> QED
  BY <1>1, <1>2 DEF NothingEarly, Step, CloseStretch, WriteHolder, InsertStretch, BlockTask,
                    ReadDependent, CheckReady, DependentsDone, ReadAgain, SaveTask,
                    WriteCancelled, tables

\* A step of p leaves the other calls alone.
LEMMA OthersKept ==
  ASSUME IInv, NEW p \in Procs, Begin(p) \/ Step(p)
  PROVE \A q \in Procs \ {p} : call'[q] = call[q]
<1>1. UNCHANGED call \/ \E x : Goes(p, x)
  BY DEF Begin, CreateTask, AssignTask, AssignTaskToHolder, UnassignTask,
         UnblockDependents, UpdateTask, UnblockTask, CancelTask, DeleteTask, Depend,
         Undepend, Relate, Start, Step, CloseStretch, WriteHolder, InsertStretch, CheckDeps,
         BlockTask, ReadDependent, CheckReady, Release, DependentsDone, ReadAgain, SaveTask,
         WriteCancelled, GoesTo, Return
<1> QED
  BY <1>1, GoesIs

\* A call comes to its release only from the look that found nothing unmet.
LEMMA ReleaseReady ==
  ASSUME IInv, NEW p \in Procs, Begin(p) \/ Step(p), call'[p].at = "release"
  PROVE (Unmet(call[p].task) = {})'
<1>1. ~Return(p) /\ ~GoesTo(p, "next")
  BY ReturnIs, GoesToIs
<1>2. ~Idle(p) \/ ~UNCHANGED call
  BY DEF Idle, At
<1>3. ASSUME NEW s \in {"close", "again", "save", "cancel"}, NEW t, NEW r PROVE ~Start(p, s, t, r)
  BY StartIs
<1>4. ~Begin(p)
  <2>1. ASSUME NEW t \in Tasks PROVE ~UnblockDependents(p, t)
    <3>1. PICK x : x = [NoCall EXCEPT !.at = "next", !.task = t,
                                      !.todo = {u \in Tasks : <<u, t>> \in deps}]
      OBVIOUS
    <3>2. x.at = "next"
      BY <3>1 DEF NoCall
    <3> QED
      BY <3>1, <3>2, GoesIs DEF UnblockDependents
  <2> QED
    BY <1>2, <1>3, <2>1
      DEF Begin, CreateTask, AssignTask, AssignTaskToHolder, UnassignTask, UpdateTask,
          UnblockTask, CancelTask, DeleteTask, Depend, Undepend, Relate
<1>5. CASE CheckReady(p)
  <2>1. Unmet(call[p].task) = {} /\ UNCHANGED <<task, deps>>
    BY <1>1, <1>5 DEF CheckReady, tables
  <2>2. call'[p].task = call[p].task
    BY <1>1, <1>5, GoesToIs DEF CheckReady
  <2> QED
    BY <2>1, <2>2 DEF Unmet, Finished, Live, Exists
<1>6. ~CloseStretch(p) /\ ~WriteHolder(p) /\ ~InsertStretch(p) /\ ~CheckDeps(p)
  BY <1>1, GoesToIs DEF CloseStretch, WriteHolder, InsertStretch, CheckDeps
<1>7. \A u \in Tasks : ~ReadDependent(p, u)
  BY ReadDependentIs
<1>8. ~ReadAgain(p)
  BY <1>1, ReadAgainIs
<1> QED
  BY <1>1, <1>4, <1>5, <1>6, <1>7, <1>8
    DEF Step, BlockTask, Release, DependentsDone, SaveTask, WriteCancelled

LEMMA NoCallCurrent == ASSUME NEW p, call'[p] = NoCall PROVE Current(p)'
BY NothingRead DEF NoCall

\* With one caller a status changes only where CanTransitionTo allows it, though
\* setTaskStatus and cancelTask never ask: what the call read still holds when it
\* writes, and a crash leaves nobody with what he read.
THEOREM TasksMoveLegally ==
  ASSUME \A p, q \in Procs : p = q
  PROVE Spec => LegalTaskSteps
<1> DEFINE Inv == IInv /\ \A p \in Procs : Current(p)
<1>1. Init => Inv
  BY InitOK DEF Init, Current, At, NoCall
<1>2. Inv /\ [Next]_vars => Inv'
  <2> SUFFICES ASSUME IInv, \A p \in Procs : Current(p), [Next]_vars
               PROVE \A p \in Procs : Current(p)'
    BY NextKeeps
  <2>1. CASE UNCHANGED vars
    BY <2>1 DEF vars, Current, At, Unmet, Finished, Live, Exists
  <2>2. CASE Crash
    BY <2>2, NoCallCurrent DEF Crash
  <2> QED
    BY <2>1, <2>2, CurrentKept DEF Next
<1>3. Inv /\ [Next]_vars => [Legally]_task
  BY ActsLegally DEF Next, Crash, tables, vars
<1> QED
  BY <1>1, <1>2, <1>3, PTL DEF Spec, LegalTaskSteps, Legally

\* "The AI must not run a task whose dependencies have not landed": with one
\* caller, no agent is told of a task that still waits (AssignTask,
\* maybeUnblockDependent).
THEOREM ToldInTime ==
  ASSUME \A p, q \in Procs : p = q
  PROVE Spec => []NothingEarly
<1> DEFINE Ready == \A p \in Procs : At(p, "release") => Unmet(call[p].task) = {}
<1>1. Init => Ready /\ NothingEarly
  BY DEF Init, At, NoCall, NothingEarly
<1>2. IInv /\ Ready /\ [Next]_vars => Ready'
  <2> SUFFICES ASSUME IInv, Ready, [Next]_vars PROVE Ready'
    OBVIOUS
  <2>1. CASE UNCHANGED vars
    BY <2>1 DEF vars, At, Unmet, Finished, Live, Exists
  <2>2. CASE Crash
    BY <2>2 DEF Crash, NoCall, At
  <2> QED
    BY <2>1, <2>2, ReleaseReady DEF Next, At
<1>3. IInv /\ Ready /\ NothingEarly /\ [Next]_vars => NothingEarly'
  BY ActsInTime DEF Next, Crash, tables, vars, NothingEarly
<1> QED
  BY <1>1, <1>2, <1>3, Invariant, PTL DEF Spec

\* In the checked scenarios of one caller only p1 acts.
LEMMA OneActs ==
  ASSUME [MCNext]_<<vars, scenario>>, scenario # "race"
  PROVE /\ scenario' = scenario
        /\ Acts(p1) \/ Crash \/ UNCHANGED vars
BY DEF MCNext

\* The same of the checked specification: in every scenario of one caller, with
\* cascades and crashes, statuses move along the lifecycle.
THEOREM CheckedTasksMoveLegally ==
  ASSUME p1 \in Procs
  PROVE MCSpec => OneCallerLegal
<1> DEFINE Inv == scenario # "race" => Current(p1)
<1>1. MCInit => Inv
  BY DEF MCInit, Init, Current, At, NoCall
<1>2. IInv /\ Inv /\ [MCNext]_<<vars, scenario>> => Inv'
  <2> SUFFICES ASSUME IInv, Current(p1), Acts(p1) \/ Crash \/ UNCHANGED vars
               PROVE Current(p1)'
    BY OneActs DEF MCNext
  <2>1. CASE UNCHANGED vars
    BY <2>1 DEF vars, Current, At, Unmet, Finished, Live, Exists
  <2>2. CASE Crash
    BY <2>2, NoCallCurrent DEF Crash
  <2> QED
    BY <2>1, <2>2, CurrentKept DEF Acts
<1>3. IInv /\ Inv /\ [MCNext]_<<vars, scenario>>
        => [scenario # "race" => Legally]_<<task, scenario>>
  BY OneActs, ActsLegally DEF Acts, Crash, tables, vars
<1> QED
  BY <1>1, <1>2, <1>3, MCInvariant, PTL DEF MCSpec, OneCallerLegal, Legally

\* And with two callers who leave what has finished finished and add no edge to a
\* task under way, still no agent is told of a task that waits.
THEOREM CheckedToldInTime ==
  ASSUME p1 \in Procs
  PROVE MCSpec => []NobodyTooEarly
<1> DEFINE Ready(p) == At(p, "release") => Unmet(call[p].task) = {}
           Inv == /\ scenario = "wait" => Ready(p1)
                  /\ scenario = "race" => \A p \in Procs : Ready(p)
           Told == scenario \in {"wait", "race"} => NothingEarly
<1>1. MCInit => Inv /\ Told
  BY DEF MCInit, Init, At, NoCall, NothingEarly
<1>2. IInv /\ Inv /\ [MCNext]_<<vars, scenario>> => Inv'
  <2> SUFFICES ASSUME IInv, Inv, [MCNext]_<<vars, scenario>> PROVE Inv'
    OBVIOUS
  <2>1. CASE UNCHANGED <<vars, scenario>>
    BY <2>1 DEF vars, At, Unmet, Finished, Live, Exists
  <2>2. CASE scenario = "wait" /\ Acts(p1) /\ UNCHANGED scenario
    BY <2>2, ReleaseReady DEF Acts, At
  <2>3. CASE scenario = "race" /\ (\E p \in Procs : Acts(p)) /\ Settled /\ UNCHANGED scenario
    <3>1. PICK q \in Procs : Acts(q)
      BY <2>3
    <3>2. ASSUME NEW p \in Procs, At(p, "release")', p # q PROVE (Unmet(call[p].task) = {})'
      <4>1. call'[p] = call[p]
        BY <3>1, <3>2, OthersKept DEF Acts
      <4>2. ~Idle(p) /\ Unmet(call[p].task) = {}
        BY <2>3, <3>2, <4>1 DEF Idle, At
      <4>3. deps' \subseteq deps /\ \A t \in Tasks : Finished(t) => Finished(t)'
        BY <2>3, <4>2 DEF Settled
      <4> QED
        BY <4>1, <4>2, <4>3 DEF Unmet
    <3>3. Ready(q)'
      BY <3>1, ReleaseReady DEF Acts, At
    <3>4. \A p \in Procs : Ready(p)'
      BY <3>2, <3>3
    <3> QED
      BY <2>3, <3>4
  <2>4. CASE scenario \in {"hands", "any"} /\ UNCHANGED scenario
    BY <2>4
  <2> QED
    BY <2>1, <2>2, <2>3, <2>4 DEF MCNext
<1>3. IInv /\ Inv /\ Told /\ [MCNext]_<<vars, scenario>> => Told'
  <2> SUFFICES ASSUME IInv, Inv, NothingEarly, scenario \in {"wait", "race"},
                      [MCNext]_<<vars, scenario>>
               PROVE NothingEarly'
    BY DEF MCNext
  <2>1. CASE UNCHANGED <<vars, scenario>>
    BY <2>1 DEF vars, NothingEarly
  <2>2. ASSUME NEW p \in Procs, Acts(p), Ready(p) PROVE NothingEarly'
    BY <2>2, ActsInTime DEF Acts
  <2> QED
    BY <2>1, <2>2 DEF MCNext
<1>4. Told => NobodyTooEarly
  BY DEF NobodyTooEarly
<1> QED
  BY <1>1, <1>2, <1>3, <1>4, MCInvariant, PTL DEF MCSpec
-----------------------------------------------------------------------------
(* The history of one caller *)

\* What one caller has read of the holder still holds, if its updates send the
\* kind they read.
LEMMA OwnerKept ==
  ASSUME IInv, NEW p \in Procs, Owner(p), Begin(p) \/ Step(p),
         Idle(p) /\ call'[p].at = "save" => call'[p].row.kind = task[call'[p].task].kind
  PROVE Owner(p)'
<1>1. ASSUME call'[p].at \in {"idle", "next"} PROVE Owner(p)'
  BY <1>1 DEF Owner, At
<1>2. ASSUME Return(p) PROVE Owner(p)'
  BY <1>1, <1>2, ReturnIs
<1>3. ASSUME GoesTo(p, "next") PROVE Owner(p)'
  BY <1>1, <1>3, GoesToIs
<1>4. ASSUME NEW t \in Tasks, NEW r, NEW s \in {"close", "again", "save", "cancel"},
             Start(p, s, t, r), Exists(t),
             s \in {"again", "save"} => r.holder = task[t].holder /\ r.kind = task[t].kind,
             s = "save" => r.status # "absent"
      PROVE Owner(p)'
  BY <1>4, StartIs DEF Owner, At, tables, Exists
<1>5. ASSUME Begin(p) PROVE Owner(p)'
  <2>1. ASSUME NEW t \in Tasks, NEW s \in Moves, NEW b \in BOOLEAN, NEW k \in Kinds,
               UpdateTask(p, t, s, b, k)
        PROVE Owner(p)'
    <3>1. PICK r : r = Updated(t, s, b, k)
      OBVIOUS
    <3>2. r.holder = task[t].holder /\ r.status = s /\ s # "absent"
      BY <3>1, UpdatedIs, Bounds DEF TaskStatus
    <3>3. Start(p, "save", t, r) /\ Exists(t)
      BY <2>1, <3>1 DEF UpdateTask, Live
    <3>4. r.kind = task[t].kind
      BY <3>3, StartIs DEF Idle, At
    <3> QED
      BY <1>4, <3>2, <3>3, <3>4
  <2>2. ASSUME NEW t \in Tasks, UnblockDependents(p, t) PROVE Owner(p)'
    <3>1. PICK x : x = [NoCall EXCEPT !.at = "next", !.task = t,
                                      !.todo = {u \in Tasks : <<u, t>> \in deps}]
      OBVIOUS
    <3>2. x.at = "next" /\ Goes(p, x)
      BY <2>2, <3>1 DEF NoCall, UnblockDependents
    <3> QED
      BY <1>1, <3>2, GoesIs
  <2>3. ASSUME UNCHANGED call, Idle(p) PROVE Owner(p)'
    BY <1>1, <2>3 DEF Idle, At
  <2> QED
    BY <1>4, <1>5, <2>1, <2>2, <2>3
      DEF Begin, CreateTask, AssignTask, AssignTaskToHolder, UnassignTask, UnblockTask,
          CancelTask, DeleteTask, Depend, Undepend, Relate, Live
<1>6. CASE CloseStretch(p)
  <2>1. PICK t \in Tasks : t = call[p].task /\ Exists(t)
    BY <1>6, CallOf DEF CloseStretch, At, Fits, Owner
  <2>2. \A h \in Holders : open'[t][h] = 0
    BY <1>6, <2>1 DEF CloseStretch, IInv, TypeOK
  <2>3. call'[p].at = "column" /\ call'[p].task = t /\ UNCHANGED task
    BY <1>6, <2>1, GoesToIs DEF CloseStretch
  <2> QED
    BY <2>1, <2>2, <2>3 DEF Owner, At, Exists
<1>7. CASE WriteHolder(p)
  <2>1. CASE GoesTo(p, "insert")
    <3>1. PICK t \in Tasks : /\ t = call[p].task /\ task'[t].status = task[t].status
                             /\ task'[t].holder = call[p].row.holder
      BY <1>7, WriteHolderIs
    <3>2. Exists(t) /\ (\A h \in Holders : open[t][h] = 0) /\ UNCHANGED open
      BY <1>7, <3>1 DEF WriteHolder, At, Owner
    <3>3. call'[p].at = "insert" /\ call'[p].task = t /\ call'[p].row = call[p].row
      BY <2>1, <3>1, GoesToIs
    <3> QED
      BY <3>1, <3>2, <3>3 DEF Owner, At, Exists
  <2> QED
    BY <1>2, <1>7, <2>1 DEF WriteHolder
<1>8. CASE InsertStretch(p)
  <2>1. CASE GoesTo(p, "deps")
    BY <1>8, <2>1, GoesToIs DEF InsertStretch, Owner, At, Exists
  <2> QED
    BY <1>2, <1>8, <2>1 DEF InsertStretch
<1>9. CASE CheckDeps(p)
  <2>1. CASE GoesTo(p, "block")
    BY <1>9, <2>1, GoesToIs DEF CheckDeps, Owner, At, Exists
  <2> QED
    BY <1>2, <1>9, <2>1 DEF CheckDeps
<1>10. ASSUME NEW u \in Tasks, ReadDependent(p, u) PROVE Owner(p)'
  <2>1. UNCHANGED task
    BY <1>10 DEF ReadDependent, tables
  <2> QED
    BY <1>1, <1>10, <2>1, ReadDependentIs DEF Owner, At, Live, Exists
<1>11. CASE CheckReady(p)
  <2>1. CASE GoesTo(p, "release")
    <3>1. UNCHANGED task
      BY <1>11 DEF CheckReady, tables
    <3> QED
      BY <1>11, <2>1, <3>1, GoesToIs DEF CheckReady, Owner, At, Exists
  <2> QED
    BY <1>3, <1>11, <2>1 DEF CheckReady
<1>12. CASE ReadAgain(p)
  <2>1. UNCHANGED task /\ call[p].row.kind = task[call[p].task].kind
    BY <1>12 DEF ReadAgain, tables, Owner, At
  <2> QED
    BY <1>2, <1>12, <2>1, ReadAgainIs DEF Owner, At, Live, Exists
<1> QED
  BY <1>2, <1>3, <1>5, <1>6, <1>7, <1>8, <1>9, <1>10, <1>11, <1>12
    DEF Step, BlockTask, Release, DependentsDone, SaveTask, WriteCancelled

\* The history is right, and no task that was never created has a holder.
Honest == HistoryNeverLies /\ AbsentUnheld

\* A step that leaves every holder, kind and stretch alone, and removes no row.
LEMMA HistorySame ==
  ASSUME Honest, UNCHANGED open,
         \A t \in Tasks : /\ task'[t].holder = task[t].holder /\ task'[t].kind = task[t].kind
                          /\ Exists(t) => task'[t].status # "absent"
  PROVE Honest'
BY DEF Honest, HistoryNeverLies, AbsentUnheld, Exists

\* A step that changes the holder, kind or stretches of t alone.
LEMMA HistoryOf ==
  ASSUME Honest, NEW t \in Tasks,
         \A u \in Tasks \ {t} : task'[u] = task[u] /\ open'[u] = open[u],
         \A h \in Holders : open'[t][h] > 0 => open'[t][h] = 1 /\ task'[t].holder = h,
         task'[t].kind = KindOf(task'[t].holder), task'[t].status # "absent"
  PROVE Honest'
BY DEF Honest, HistoryNeverLies, AbsentUnheld, Exists

\* Every step of one caller keeps the history right, as long as holders come from
\* hand-overs, updates send the kind they read and no cascade runs.
LEMMA HistoryKept ==
  ASSUME IInv, IInv', NEW p \in Procs, Honest, Owner(p), HandsOver, call[p].at # "cancel",
         Begin(p) \/ Step(p)
  PROVE Honest'
<1>1. ASSUME UNCHANGED <<task, open>> PROVE Honest'
  BY <1>1, HistorySame DEF Exists
<1>2. ASSUME Begin(p) PROVE Honest'
  <2>1. ASSUME NEW t \in Tasks, NEW h \in Holder, NEW b \in BOOLEAN, CreateTask(p, t, h, b)
        PROVE Honest'
    <3>1. h = NoOne
      BY <2>1 DEF HandsOver
    <3>2. /\ task'[t].holder = NoOne /\ task'[t].kind = KindOf(NoOne)
          /\ task'[t].status = "pending" /\ ~Exists(t)
          /\ \A u \in Tasks \ {t} : task'[u] = task[u]
      BY <2>1, <3>1, Created
    <3>3. UNCHANGED open
      BY <2>1 DEF CreateTask
    <3>4. \A h2 \in Holders : ~(open[t][h2] > 0)
      BY <3>2, NotIds DEF Honest, HistoryNeverLies, AbsentUnheld
    <3> QED
      BY <3>2, <3>3, <3>4, HistoryOf
  <2>2. ASSUME NEW t \in Tasks, DeleteTask(p, t) PROVE Honest'
    <3>1. \A u \in Tasks : /\ task'[u].holder = task[u].holder /\ task'[u].kind = task[u].kind
                           /\ task'[u].status = task[u].status
      BY <2>2 DEF DeleteTask, IInv, TypeOK, TaskRow
    <3>2. UNCHANGED open
      BY <2>2 DEF DeleteTask
    <3> QED
      BY <3>1, <3>2, HistorySame DEF Exists
  <2>3. ASSUME NEW s, NEW t, NEW r, Start(p, s, t, r) PROVE Honest'
    BY <1>1, <2>3 DEF Start, tables
  <2>4. \A t \in Tasks, a \in Agents : ~Relate(p, t, a)
    BY DEF HandsOver
  <2> QED
    BY <1>1, <1>2, <2>1, <2>2, <2>3, <2>4
      DEF Begin, AssignTask, AssignTaskToHolder, UnassignTask, UnblockDependents, UpdateTask,
          UnblockTask, CancelTask, Depend, Undepend
<1>3. CASE CloseStretch(p)
  <2>1. PICK t \in Tasks : t = call[p].task /\ Exists(t)
    BY <1>3, CallOf DEF CloseStretch, At, Fits, Owner
  <2>2. /\ \A h \in Holders : open'[t][h] = 0
        /\ \A u \in Tasks \ {t} : open'[u] = open[u]
        /\ UNCHANGED task
    BY <1>3, <2>1 DEF CloseStretch, IInv, TypeOK
  <2>3. task[t].kind = KindOf(task[t].holder)
    BY DEF Honest, HistoryNeverLies
  <2> QED
    BY <2>1, <2>2, <2>3, HistoryOf DEF Exists
<1>4. CASE WriteHolder(p)
  <2>1. PICK t \in Tasks, h \in Holder : t = call[p].task /\ h = call[p].row.holder
    BY <1>4, WriteHolderIs
  <2>2. /\ task'[t].holder = h /\ task'[t].kind = KindOf(h)
        /\ task'[t].status = task[t].status
        /\ \A u \in Tasks \ {t} : task'[u] = task[u]
    BY <1>4, <2>1, WriteHolderIs
  <2>3. Exists(t) /\ (\A h2 \in Holders : open[t][h2] = 0) /\ UNCHANGED open
    BY <1>4, <2>1 DEF WriteHolder, At, Owner
  <2> QED
    BY <2>2, <2>3, HistoryOf DEF Exists
<1>5. CASE InsertStretch(p)
  <2>1. PICK t \in Tasks, h \in Holders : t = call[p].task /\ h = call[p].row.holder
    BY <1>5, CallOf DEF InsertStretch, At, Fits
  <2>2. Exists(t) /\ task[t].holder = h /\ \A h2 \in Holders : open[t][h2] = 0
    BY <1>5, <2>1 DEF InsertStretch, At, Owner
  <2>3. PICK f : f = [open[t] EXCEPT ![h] = @ + 1]
    OBVIOUS
  <2>4. \A h2 \in Holders : f[h2] = IF h2 = h THEN 1 ELSE 0
    BY <2>2, <2>3 DEF IInv, TypeOK
  <2>5. open' = [open EXCEPT ![t] = f] /\ UNCHANGED task
    BY <1>5, <2>1, <2>3 DEF InsertStretch
  <2>6. open'[t] = f /\ \A u \in Tasks \ {t} : open'[u] = open[u]
    BY <2>5 DEF IInv, TypeOK
  <2>7. task[t].kind = KindOf(task[t].holder)
    BY DEF Honest, HistoryNeverLies
  <2> QED
    BY <2>2, <2>4, <2>5, <2>6, <2>7, HistoryOf DEF Exists
<1>6. ASSUME NEW s \in TaskStatus, SetTaskStatus(call[p].task, s), call[p].task \in Tasks,
             UNCHANGED open
      PROVE Honest'
  <2>1. PICK t \in Tasks : t = call[p].task /\ SetTaskStatus(t, s)
    BY <1>6
  <2>2. s # "absent"
    BY DEF TaskStatus
  <2>3. \A u \in Tasks : /\ task'[u].holder = task[u].holder /\ task'[u].kind = task[u].kind
                         /\ Exists(u) => task'[u].status # "absent"
    BY <2>1, <2>2, StatusIs DEF Exists
  <2> QED
    BY <1>6, <2>3, HistorySame
<1>7. CASE BlockTask(p)
  BY <1>6, <1>7, CallOf DEF BlockTask, At, Fits, TaskStatus
<1>8. CASE Release(p)
  BY <1>6, <1>8, CallOf DEF Release, At, Fits, TaskStatus
<1>9. CASE SaveTask(p)
  <2>1. PICK t \in Tasks : t = call[p].task
    BY <1>9, SaveIs
  <2>2. /\ call[p].row.holder = task[t].holder /\ call[p].row.kind = task[t].kind
        /\ call[p].row.status # "absent" /\ UNCHANGED open
    BY <1>9, <2>1 DEF SaveTask, At, Owner
  <2>3. \A u \in Tasks : /\ task'[u].holder = task[u].holder /\ task'[u].kind = task[u].kind
                         /\ Exists(u) => task'[u].status # "absent"
    BY <1>9, <2>1, <2>2, SaveIs DEF Exists
  <2> QED
    BY <2>2, <2>3, HistorySame
<1>10. CASE CheckDeps(p)
  BY <1>1, <1>10 DEF CheckDeps
<1>11. ~WriteCancelled(p)
  BY DEF WriteCancelled, At
<1> QED
  BY <1>1, <1>2, <1>3, <1>4, <1>5, <1>7, <1>8, <1>9, <1>10, <1>11
    DEF Step, ReadDependent, CheckReady, DependentsDone, ReadAgain, tables

LEMMA NoCallOwner == ASSUME NEW p, call'[p] = NoCall PROVE Owner(p)'
BY DEF Owner, At, NoCall

\* "Handing a task to somebody else closes the current stretch and opens a new
\* one": with one caller, at most one stretch of a task is open, that of the holder
\* the task names, wherever a crash cuts a hand-over short (handOver).
THEOREM CheckedHistoryNeverLies ==
  ASSUME p1 \in Procs
  PROVE MCSpec => []OneCallerHistory
<1> DEFINE Told == scenario = "hands" => Honest /\ Owner(p1) /\ call[p1].at # "cancel"
<1>1. MCInit => Told
  <2>1. Init => Honest
    <3>1. NoRow.holder = NoOne /\ NoRow.kind = KindOf(NoOne)
      BY NotIds, AgentsHold DEF NoRow, KindOf
    <3>2. ASSUME Init, NEW t \in Tasks
          PROVE task[t] = NoRow /\ \A h \in Holders : ~(open[t][h] > 0)
      BY <3>2 DEF Init
    <3> QED
      BY <3>1, <3>2 DEF Honest, HistoryNeverLies, AbsentUnheld
  <2>2. Init => Owner(p1) /\ call[p1].at # "cancel"
    BY DEF Init, NoCall, Owner, At
  <2> QED
    BY <2>1, <2>2 DEF MCInit
<1>2. IInv /\ IInv' /\ Told /\ [MCNext]_<<vars, scenario>> => Told'
  <2> SUFFICES ASSUME IInv, IInv', Honest, Owner(p1), call[p1].at # "cancel",
                      [MCNext]_<<vars, scenario>>, scenario = "hands"
               PROVE Honest' /\ Owner(p1)' /\ call'[p1].at # "cancel"
    BY DEF MCNext
  <2>1. CASE UNCHANGED <<vars, scenario>>
    <3>1. Honest'
      BY <2>1, HistorySame DEF vars, Exists
    <3> QED
      BY <2>1, <3>1 DEF vars, Owner, At, Exists
  <2>2. CASE Crash
    <3>1. Honest'
      BY <2>2, HistorySame DEF Crash, tables, Exists
    <3>2. call'[p1] = NoCall
      BY <2>2 DEF Crash
    <3> QED
      BY <3>1, <3>2, NoCallOwner DEF NoCall
  <2>3. CASE Acts(p1) /\ Careful
    <3>1. HandsOver
      BY <2>3, CarefulHandsOver
    <3>2. Honest'
      BY <2>3, <3>1, HistoryKept DEF Acts
    <3>3. call'[p1].at # "cancel"
      BY <2>3 DEF Careful
    <3>4. Idle(p1) /\ call'[p1].at = "save" => call'[p1].row.kind = task[call'[p1].task].kind
      BY <2>3 DEF Careful
    <3>5. Owner(p1)'
      BY <2>3, <3>4, OwnerKept DEF Acts
    <3> QED
      BY <3>2, <3>3, <3>5
  <2> QED
    BY <2>1, <2>2, <2>3 DEF MCNext
<1>3. Told => OneCallerHistory
  BY DEF OneCallerHistory, Honest
<1> QED
  BY <1>1, <1>2, <1>3, MCInvariant, PTL DEF MCSpec
-----------------------------------------------------------------------------
(* One caller leaves nobody waiting for what has finished *)

\* With one caller a blocked task keeps its agent, if no call blocks a task by
\* hand or takes it from its agent.
LEMMA AgentsKept ==
  ASSUME IInv, NEW p \in Procs, Owner(p), AgentsWait(p), Careful, Waiting,
         Begin(p) \/ Step(p)
  PROVE AgentsWait(p)'
<1> DEFINE Held == \A t \in Tasks : task'[t].status = "blocked" => task'[t].holder \in Agents
<1>1. Held
  <2>1. ASSUME \A t \in Tasks : /\ task'[t].holder = task[t].holder
                                /\ task'[t].status = "blocked" => task[t].status = "blocked"
        PROVE Held
    BY <2>1 DEF AgentsWait
  <2>2. ASSUME NEW t \in Tasks, \A u \in Tasks \ {t} : task'[u] = task[u],
               task'[t].status = "blocked" => task'[t].holder \in Agents
        PROVE Held
    BY <2>2 DEF AgentsWait
  <2>3. ASSUME Begin(p) PROVE Held
    <3>1. ASSUME NEW t \in Tasks, NEW h \in Holder, NEW b \in BOOLEAN, CreateTask(p, t, h, b)
          PROVE Held
      BY <2>2, <3>1, Created
    <3>2. ASSUME NEW t \in Tasks, DeleteTask(p, t) PROVE Held
      <4>1. \A u \in Tasks : task'[u].holder = task[u].holder /\ task'[u].status = task[u].status
        BY <3>2 DEF DeleteTask, IInv, TypeOK, TaskRow
      <4> QED
        BY <2>1, <4>1
    <3>3. ASSUME UNCHANGED task PROVE Held
      BY <2>1, <3>3
    <3>4. \A t \in Tasks, a \in Agents : ~Relate(p, t, a)
      BY CarefulHandsOver DEF HandsOver
    <3> QED
      BY <2>3, <3>1, <3>2, <3>3, <3>4
        DEF Begin, AssignTask, AssignTaskToHolder, UnassignTask, UnblockDependents,
            UpdateTask, UnblockTask, CancelTask, Depend, Undepend, Start, tables
  <2>4. CASE WriteHolder(p)
    BY <2>2, <2>4, WriteHolderIs DEF WriteHolder, At, AgentsWait
  <2>5. CASE BlockTask(p)
    <3>1. PICK t \in Tasks : t = call[p].task
      BY <2>5, CallOf DEF BlockTask, At, Fits
    <3>2. task[t].holder \in Agents
      BY <2>5, <3>1, CallOf DEF BlockTask, At, Fits, Owner
    <3> QED
      BY <2>2, <2>5, <3>1, <3>2, StatusIs DEF BlockTask
  <2>6. CASE Release(p)
    <3>1. PICK t \in Tasks : t = call[p].task
      BY <2>6, CallOf DEF Release, At, Fits
    <3> QED
      BY <2>2, <2>6, <3>1, StatusIs DEF Release
  <2>7. CASE SaveTask(p)
    <3>1. PICK t \in Tasks : t = call[p].task
      BY <2>7, SaveIs
    <3>2. call[p].row.status # "blocked"
      BY <2>7 DEF SaveTask, At, AgentsWait
    <3>3. task'[t].status = "blocked" => task'[t].holder \in Agents
      BY <2>7, <3>1, <3>2, SaveIs DEF AgentsWait
    <3> QED
      BY <2>2, <2>7, <3>1, <3>3, SaveIs
  <2>8. ~WriteCancelled(p)
    BY DEF WriteCancelled, At, AgentsWait
  <2>9. ASSUME UNCHANGED task PROVE Held
    BY <2>1, <2>9
  <2> QED
    BY <2>3, <2>4, <2>5, <2>6, <2>7, <2>8, <2>9
      DEF Step, CloseStretch, InsertStretch, CheckDeps, ReadDependent, CheckReady,
          DependentsDone, ReadAgain, tables
<1>2. /\ call'[p].at = "close" => call'[p].row.holder \in Agents
      /\ call'[p].at = "save" => call'[p].row.status # "blocked"
      /\ call'[p].at # "cancel"
  BY DEF Careful, Waiting
<1>3. ASSUME call'[p].at = "column" PROVE call'[p].row.holder \in Agents
  <2>1. CASE CloseStretch(p)
    BY <2>1, GoesToIs DEF CloseStretch, At, AgentsWait
  <2>2. ~Begin(p)
    <3>1. ASSUME NEW s \in {"close", "again", "save", "cancel"}, NEW t, NEW r
          PROVE ~Start(p, s, t, r)
      BY <1>3, StartIs
    <3>2. ASSUME NEW t \in Tasks PROVE ~UnblockDependents(p, t)
      <4>1. PICK x : x = [NoCall EXCEPT !.at = "next", !.task = t,
                                        !.todo = {u \in Tasks : <<u, t>> \in deps}]
        OBVIOUS
      <4>2. x.at = "next"
        BY <4>1 DEF NoCall
      <4> QED
        BY <1>3, <4>1, <4>2, GoesIs DEF UnblockDependents
    <3>3. ~(Idle(p) /\ UNCHANGED call)
      BY <1>3 DEF Idle, At
    <3> QED
      BY <3>1, <3>2, <3>3
        DEF Begin, CreateTask, AssignTask, AssignTaskToHolder, UnassignTask, UpdateTask,
            UnblockTask, CancelTask, DeleteTask, Depend, Undepend, Relate
  <2>3. ~Return(p) /\ \A s \in {"insert", "deps", "block", "next", "release"} : ~GoesTo(p, s)
    BY <1>3, ReturnIs, GoesToIs
  <2>4. ~ReadAgain(p) /\ \A u \in Tasks : ~ReadDependent(p, u)
    BY <1>3, <2>3, ReadAgainIs, ReadDependentIs
  <2> QED
    BY <2>1, <2>2, <2>3, <2>4
      DEF Step, WriteHolder, InsertStretch, CheckDeps, BlockTask, CheckReady, Release,
          DependentsDone, SaveTask, WriteCancelled
<1> QED
  BY <1>1, <1>2, <1>3 DEF AgentsWait, At

\* A step that blocks no task, finishes none and drops no edge, nor takes an event
\* off its way, of a call that releases nothing.
LEMMA WaitSame ==
  ASSUME ToBeReleased(p1), call[p1].at \notin {"next", "ready", "release"},
         deps \subseteq deps', completed \subseteq completed',
         \A t \in Tasks : /\ Finished(t)' => Finished(t)
                          /\ Live(t)' /\ task'[t].status = "blocked"
                               => Live(t) /\ task[t].status = "blocked"
  PROVE ToBeReleased(p1)'
<1> SUFFICES ASSUME NEW t \in Tasks, Live(t)', task'[t].status = "blocked", (Unmet(t) = {})'
             PROVE \E u \in completed' : <<t, u>> \in deps'
  BY DEF ToBeReleased
<1>1. Unmet(t) = {}
  BY DEF Unmet
<1> QED
  BY <1>1 DEF ToBeReleased

\* With one caller, a blocked task that waits for nothing is about to be released:
\* the task.completed of what it waited for last is on its way, or the call that
\* has it is to look at the task.
LEMMA WaitKept ==
  ASSUME IInv, IInv', p1 \in Procs, Current(p1), Owner(p1), AgentsWait(p1), ToBeReleased(p1),
         deps \subseteq deps', Begin(p1) \/ Step(p1)
  PROVE ToBeReleased(p1)'
<1>1. ASSUME call[p1].at \notin {"next", "ready", "release"}, deps \subseteq deps',
             completed \subseteq completed', UNCHANGED task
      PROVE ToBeReleased(p1)'
  BY <1>1, WaitSame DEF Finished, Live, Exists
<1>2. ASSUME Begin(p1) PROVE ToBeReleased(p1)'
  <2>1. ASSUME NEW t \in Tasks, NEW h \in Holder, NEW b \in BOOLEAN, CreateTask(p1, t, h, b)
        PROVE ToBeReleased(p1)'
    <3>1. \A u \in Tasks : /\ Finished(u)' => Finished(u)
                           /\ Live(u)' /\ task'[u].status = "blocked"
                                => Live(u) /\ task[u].status = "blocked"
      BY <2>1, Created DEF Finished, Live, Exists, TaskEnd
    <3>2. UNCHANGED <<deps, completed>> /\ call[p1].at = "idle"
      BY <2>1 DEF CreateTask, Idle, At
    <3> QED
      BY <3>1, <3>2, WaitSame
  <2>2. ASSUME NEW t \in Tasks, DeleteTask(p1, t) PROVE ToBeReleased(p1)'
    <3>1. \A u \in Tasks : /\ task'[u].status = task[u].status
                           /\ ~task'[u].deleted => ~task[u].deleted
      BY <2>2 DEF DeleteTask, IInv, TypeOK, TaskRow
    <3>2. UNCHANGED <<deps, completed>> /\ call[p1].at = "idle"
      BY <2>2 DEF DeleteTask, Idle, At
    <3> QED
      BY <3>1, <3>2, WaitSame DEF Finished, Live, Exists
  <2>3. ASSUME NEW t \in Tasks, NEW a \in Agents, Relate(p1, t, a) PROVE ToBeReleased(p1)'
    <3>1. \A u \in Tasks : /\ task'[u].status = task[u].status
                           /\ task'[u].deleted = task[u].deleted
      BY <2>3 DEF Relate, IInv, TypeOK, TaskRow
    <3>2. UNCHANGED <<deps, completed>> /\ call[p1].at = "idle"
      BY <2>3 DEF Relate, Idle, At
    <3> QED
      BY <3>1, <3>2, WaitSame DEF Finished, Live, Exists
  <2>4. ASSUME NEW d \in Tasks, UnblockDependents(p1, d) PROVE ToBeReleased(p1)'
    <3>1. PICK x : x = [NoCall EXCEPT !.at = "next", !.task = d,
                                      !.todo = {u \in Tasks : <<u, d>> \in deps}]
      OBVIOUS
    <3>2. x.at = "next" /\ x.todo = {u \in Tasks : <<u, d>> \in deps}
      BY <3>1 DEF NoCall
    <3>3. call'[p1] = x /\ UNCHANGED <<task, deps>> /\ completed' = completed \ {d}
      BY <2>4, <3>1, GoesIs DEF UnblockDependents
    <3>4. call[p1].at = "idle"
      BY <2>4 DEF UnblockDependents, Idle, At
    <3>5. ASSUME NEW t \in Tasks, Live(t)', task'[t].status = "blocked", (Unmet(t) = {})'
          PROVE \/ \E u \in completed' : <<t, u>> \in deps'
                \/ t \in call'[p1].todo
      <4>1. Live(t) /\ task[t].status = "blocked" /\ Unmet(t) = {}
        BY <3>3, <3>5 DEF Live, Exists, Unmet, Finished
      <4>2. PICK u \in completed : <<t, u>> \in deps
        BY <3>4, <4>1 DEF ToBeReleased
      <4> QED
        BY <3>2, <3>3, <4>2
    <3> QED
      BY <3>2, <3>3, <3>5 DEF ToBeReleased
  <2>5. ASSUME UNCHANGED <<task, completed>>, call[p1].at = "idle" PROVE ToBeReleased(p1)'
    BY <1>1, <2>5
  <2>6. ASSUME NEW s, NEW t, NEW r, Start(p1, s, t, r) PROVE ToBeReleased(p1)'
    BY <2>5, <2>6, StartIs DEF tables
  <2> QED
    BY <1>2, <2>1, <2>2, <2>3, <2>4, <2>5, <2>6
      DEF Begin, AssignTask, AssignTaskToHolder, UnassignTask, UpdateTask, UnblockTask,
          CancelTask, Depend, Undepend, Idle, At
<1>3. CASE CloseStretch(p1) \/ InsertStretch(p1) \/ CheckDeps(p1) \/ ReadAgain(p1)
  BY <1>1, <1>3 DEF CloseStretch, InsertStretch, CheckDeps, ReadAgain, At, tables
<1>4. CASE WriteHolder(p1)
  <2>1. \A u \in Tasks : /\ task'[u].status = task[u].status
                         /\ task'[u].deleted = task[u].deleted
    BY <1>4, WriteHolderIs
  <2>2. UNCHANGED <<deps, completed>> /\ call[p1].at = "column"
    BY <1>4 DEF WriteHolder, At
  <2> QED
    BY <2>1, <2>2, WaitSame DEF Finished, Live, Exists
<1>5. CASE BlockTask(p1)
  <2>1. PICK b \in Tasks : b = call[p1].task
    BY <1>5, CallOf DEF BlockTask, At, Fits
  <2>2. /\ call[p1].at = "block" /\ UNCHANGED <<deps, completed>>
        /\ Unmet(b) # {} /\ task'[b].status = "blocked"
        /\ \A u \in Tasks \ {b} : task'[u] = task[u]
    BY <1>5, <2>1, StatusIs DEF BlockTask, At, Current
  <2>3. \A u \in Tasks : Finished(u)' => Finished(u)
    BY <2>2 DEF Finished, Live, Exists, TaskEnd
  <2>4. ASSUME NEW t \in Tasks, Live(t)', task'[t].status = "blocked", (Unmet(t) = {})'
        PROVE \E u \in completed' : <<t, u>> \in deps'
    <3>1. Unmet(t) = {}
      BY <2>2, <2>3, <2>4 DEF Unmet
    <3>2. Live(t) /\ task[t].status = "blocked"
      BY <2>2, <2>4, <3>1 DEF Live, Exists
    <3> QED
      BY <2>2, <3>1, <3>2 DEF ToBeReleased
  <2> QED
    BY <2>4 DEF ToBeReleased
<1>6. ASSUME NEW d \in Tasks, ReadDependent(p1, d) PROVE ToBeReleased(p1)'
  <2>1. /\ UNCHANGED <<task, deps, completed>> /\ call[p1].at = "next"
        /\ call'[p1].todo = call[p1].todo \ {d}
        /\ call'[p1].at \in {"next", "ready"}
        /\ Live(d) /\ task[d].status = "blocked"
             => call'[p1].at = "ready" /\ call'[p1].task = d
    BY <1>6, ReadDependentIs DEF tables, At
  <2>2. ASSUME NEW t \in Tasks, Live(t)', task'[t].status = "blocked", (Unmet(t) = {})'
        PROVE \/ \E u \in completed' : <<t, u>> \in deps'
              \/ t \in call'[p1].todo
              \/ call'[p1].at = "ready" /\ t = call'[p1].task
    <3>1. Live(t) /\ task[t].status = "blocked" /\ Unmet(t) = {}
      BY <2>1, <2>2 DEF Live, Exists, Unmet, Finished
    <3>2. (\E u \in completed : <<t, u>> \in deps) \/ t \in call[p1].todo
      BY <2>1, <3>1 DEF ToBeReleased
    <3> QED
      BY <2>1, <3>1, <3>2
  <2> QED
    BY <2>1, <2>2 DEF ToBeReleased
<1>7. CASE CheckReady(p1)
  <2>1. UNCHANGED <<task, deps, completed>> /\ call[p1].at = "ready"
    BY <1>7 DEF CheckReady, tables, At
  <2>2. PICK d \in Tasks : d = call[p1].task
    BY <2>1, CallOf DEF Fits
  <2>3. call[p1].row.holder \in Agents
    BY <2>1, <2>2 DEF Current, Owner, AgentsWait
  <2>4. /\ call'[p1].task = d /\ call'[p1].todo = call[p1].todo
        /\ call'[p1].at \in {"next", "release"}
        /\ Unmet(d) = {} => call'[p1].at = "release"
    BY <1>7, <2>2, <2>3, GoesToIs DEF CheckReady
  <2>5. ASSUME NEW t \in Tasks, Live(t)', task'[t].status = "blocked", (Unmet(t) = {})'
        PROVE \/ \E u \in completed' : <<t, u>> \in deps'
              \/ t \in call'[p1].todo
              \/ call'[p1].at = "release" /\ t = call'[p1].task
    <3>1. Live(t) /\ task[t].status = "blocked" /\ Unmet(t) = {}
      BY <2>1, <2>5 DEF Live, Exists, Unmet, Finished
    <3>2. (\E u \in completed : <<t, u>> \in deps) \/ t \in call[p1].todo \/ t = d
      BY <2>2, <3>1 DEF ToBeReleased
    <3> QED
      BY <2>1, <2>4, <3>1, <3>2
  <2> QED
    BY <2>4, <2>5 DEF ToBeReleased
<1>8. CASE Release(p1)
  <2>1. UNCHANGED <<deps, completed>> /\ call[p1].at = "release"
    BY <1>8 DEF Release, At
  <2>2. PICK d \in Tasks : d = call[p1].task
    BY <2>1, CallOf DEF Fits
  <2>3. task'[d].status = "pending" /\ \A u \in Tasks \ {d} : task'[u] = task[u]
    BY <1>8, <2>2, StatusIs DEF Release
  <2>4. call'[p1].at = "next" /\ call'[p1].todo = call[p1].todo
    BY <1>8, GoesToIs DEF Release
  <2>5. \A u \in Tasks : Finished(u)' => Finished(u)
    BY <2>3 DEF Finished, Live, Exists, TaskEnd
  <2>6. ASSUME NEW t \in Tasks, Live(t)', task'[t].status = "blocked", (Unmet(t) = {})'
        PROVE \/ \E u \in completed' : <<t, u>> \in deps'
              \/ t \in call'[p1].todo
    <3>1. t # d /\ Live(t) /\ task[t].status = "blocked"
      BY <2>3, <2>6 DEF Live, Exists
    <3>2. Unmet(t) = {}
      BY <2>1, <2>5, <2>6 DEF Unmet
    <3>3. (\E u \in completed : <<t, u>> \in deps) \/ t \in call[p1].todo
      BY <2>2, <3>1, <3>2 DEF ToBeReleased
    <3> QED
      BY <2>1, <2>4, <3>3
  <2> QED
    BY <2>4, <2>6 DEF ToBeReleased
<1>9. CASE DependentsDone(p1)
  <2>1. /\ UNCHANGED <<task, deps, completed>>
        /\ call[p1].at = "next" /\ call[p1].todo = {}
    BY <1>9 DEF DependentsDone, tables, At
  <2>2. ASSUME NEW t \in Tasks, Live(t)', task'[t].status = "blocked", (Unmet(t) = {})'
        PROVE \E u \in completed' : <<t, u>> \in deps'
    <3>1. Live(t) /\ task[t].status = "blocked" /\ Unmet(t) = {}
      BY <2>1, <2>2 DEF Live, Exists, Unmet, Finished
    <3> QED
      BY <2>1, <3>1 DEF ToBeReleased
  <2> QED
    BY <2>2 DEF ToBeReleased
<1>10. CASE SaveTask(p1)
  <2>1. PICK d \in Tasks : d = call[p1].task
    BY <1>10, SaveIs
  <2>2. call[p1].at = "save" /\ UNCHANGED deps
    BY <1>10 DEF SaveTask, At
  <2>3. \A u \in Tasks \ {d} : task'[u] = task[u]
    BY <1>10, <2>1, SaveIs
  <2>4. call[p1].row.status # "blocked" /\ call[p1].was = task[d].status
    BY <2>1, <2>2 DEF Current, AgentsWait, At
  <2>5. CASE Live(d)
    <3>1. task'[d] = call[p1].row
      BY <1>10, <2>1, <2>5, SaveIs
    <3>2. \A u \in Tasks : Live(u)' /\ task'[u].status = "blocked"
                             => Live(u) /\ task[u].status = "blocked"
      BY <2>3, <2>4, <3>1 DEF Live, Exists
    <3>3. CASE ~Finished(d) /\ call[p1].row.status \in TaskEnd
      <4>1. completed' = completed \cup {d}
        BY <1>10, <2>1, <2>4, <2>5, <3>3 DEF SaveTask, Finished
      <4>2. ASSUME NEW t \in Tasks, Live(t)', task'[t].status = "blocked", (Unmet(t) = {})'
            PROVE \E u \in completed' : <<t, u>> \in deps'
        <5>1. CASE <<t, d>> \in deps
          BY <2>2, <4>1, <5>1
        <5>2. CASE <<t, d>> \notin deps
          <6>1. Unmet(t) = {}
            BY <2>2, <2>3, <4>2, <5>2 DEF Unmet, Finished, Live, Exists
          <6>2. Live(t) /\ task[t].status = "blocked"
            BY <3>2, <4>2
          <6> QED
            BY <2>2, <4>1, <6>1, <6>2 DEF ToBeReleased
        <5> QED
          BY <5>1, <5>2
      <4> QED
        BY <4>2 DEF ToBeReleased
    <3>4. CASE Finished(d) \/ call[p1].row.status \notin TaskEnd
      <4>1. \A u \in Tasks : Finished(u)' => Finished(u)
        BY <2>3, <3>1, <3>4 DEF Finished, Live, Exists
      <4>2. completed \subseteq completed'
        BY <1>10 DEF SaveTask
      <4> QED
        BY <2>2, <3>2, <4>1, <4>2, WaitSame
    <3> QED
      BY <3>3, <3>4
  <2>6. CASE ~Live(d)
    BY <1>1, <1>10, <2>1, <2>2, <2>6 DEF SaveTask
  <2> QED
    BY <2>5, <2>6
<1>11. ~WriteCancelled(p1)
  BY DEF WriteCancelled, At, AgentsWait
<1> QED
  BY <1>2, <1>3, <1>4, <1>5, <1>6, <1>7, <1>8, <1>9, <1>10, <1>11 DEF Step

\* "When every blocking dependency eventually reaches a terminal status,
\* UnblockDependents flips blocked -> pending": with one caller who blocks no task
\* by hand and drops no edge, once every task.completed was handled no agent's task
\* is blocked with all it waits for finished.
THEOREM CheckedWaitersReleased ==
  ASSUME p1 \in Procs
  PROVE MCSpec => []NobodyWaits
<1> DEFINE Waits == /\ Current(p1) /\ Owner(p1) /\ AgentsWait(p1) /\ ToBeReleased(p1)
           Inv == scenario = "wait" => Waits
<1>1. MCInit => Inv
  <2>1. ASSUME Init PROVE Waits
    <3>1. call[p1].at = "idle" /\ \A t \in Tasks : task[t].status = "absent"
      BY <2>1 DEF Init, NoCall, NoRow
    <3> QED
      BY <3>1 DEF Current, Owner, AgentsWait, ToBeReleased, At
  <2> QED
    BY <2>1 DEF MCInit
<1>2. IInv /\ IInv' /\ Inv /\ [MCNext]_<<vars, scenario>> => Inv'
  <2> SUFFICES ASSUME IInv, IInv', Waits, [MCNext]_<<vars, scenario>>, scenario = "wait"
               PROVE Waits'
    BY DEF MCNext
  <2>1. CASE UNCHANGED <<vars, scenario>>
    <3>1. Current(p1)' /\ Owner(p1)' /\ AgentsWait(p1)'
      BY <2>1 DEF vars, Current, Owner, AgentsWait, At, Unmet, Finished, Live, Exists
    <3>2. ToBeReleased(p1)'
      BY <2>1 DEF vars, ToBeReleased, Unmet, Finished, Live, Exists
    <3> QED
      BY <3>1, <3>2
  <2>2. CASE Acts(p1) /\ Careful /\ Waiting
    <3>1. Current(p1)'
      BY <2>2, CurrentKept DEF Acts
    <3>2. Idle(p1) /\ call'[p1].at = "save" => call'[p1].row.kind = task[call'[p1].task].kind
      BY <2>2 DEF Careful
    <3>3. Owner(p1)'
      BY <2>2, <3>2, OwnerKept DEF Acts
    <3>4. AgentsWait(p1)'
      BY <2>2, AgentsKept DEF Acts
    <3>5. ToBeReleased(p1)'
      BY <2>2, WaitKept DEF Acts, Waiting
    <3> QED
      BY <3>1, <3>3, <3>4, <3>5
  <2> QED
    BY <2>1, <2>2 DEF MCNext
<1>3. Inv => NobodyWaits
  BY DEF NobodyWaits, WaitersReleased, ToBeReleased, Idle, At
<1> QED
  BY <1>1, <1>2, <1>3, MCInvariant, PTL DEF MCSpec
=============================================================================
