-------------------------- MODULE ImportJobProofs --------------------------
(***************************************************************************)
(* For documents of every size, and any number of jobs and callers: a job  *)
(* that says completed has made everything, and one that says cancelled    *)
(* creates no more than what it was committing.                            *)
(***************************************************************************)
EXTENDS ImportJob, TLAPS

LEMMA DocFacts ==
  /\ Size \in Nat /\ Size >= 1 /\ Len(Deps) \in Nat
  /\ EdgesTo(0) = {}
  /\ \A d \in 1 .. Len(Deps) : /\ EdgesTo(d) = EdgesTo(d - 1) \cup {Deps[d]}
                               /\ EdgesTo(d) \subseteq EdgesTo(Len(Deps))
BY DocValid DEF EdgesTo, Valid

\* The two ways a step writes a field of a row are assignments of a row.
LEMMA SetStatusIs ==
  ASSUME TypeOK, NEW j \in Jobs, NEW s \in Statuses, SetStatus(j, s)
  PROVE  \E r \in JobRow : /\ job' = [job EXCEPT ![j] = r] /\ r.status = s
                           /\ r.tasks = job[j].tasks /\ r.deps = job[j].deps
<1> DEFINE r == [job[j] EXCEPT !.status = s]
<1>1. job[j] \in JobRow
  BY DEF TypeOK
<1>2. r \in JobRow /\ r.status = s /\ r.tasks = job[j].tasks /\ r.deps = job[j].deps
  BY <1>1 DEF JobRow
<1>3. job' = [job EXCEPT ![j] = r]
  BY DEF SetStatus, TypeOK
<1>4. QED BY <1>2, <1>3

LEMMA GoesIs ==
  ASSUME TypeOK, NEW j \in Jobs, NEW s \in Steps, Goes(j, s)
  PROVE  \E w \in Work : /\ worker' = [worker EXCEPT ![j] = w] /\ w.at = s
                         /\ w.task = worker[j].task /\ w.dep = worker[j].dep
<1> DEFINE w == [worker[j] EXCEPT !.at = s]
<1>1. worker[j] \in Work
  BY DEF TypeOK
<1>2. w \in Work /\ w.at = s /\ w.task = worker[j].task /\ w.dep = worker[j].dep
  BY <1>1 DEF Work
<1>3. worker' = [worker EXCEPT ![j] = w]
  BY DEF Goes, TypeOK
<1>4. QED BY <1>2, <1>3

\* A row that stays is assigned as well.
LEMMA Stays ==
  ASSUME TypeOK, NEW j \in Jobs
  PROVE  /\ job[j] \in JobRow /\ job = [job EXCEPT ![j] = job[j]]
         /\ worker[j] \in Work /\ worker = [worker EXCEPT ![j] = worker[j]]
         /\ made[j] \in Things /\ made = [made EXCEPT ![j] = made[j]]
BY DEF TypeOK

\* A step of a goroutine leaves alone the other jobs and every call.
LEMMA WorkerStep ==
  ASSUME IInv, NEW j \in Jobs, ~At(j, "gone"), UNCHANGED <<ctx, call>>,
         entry' \subseteq Jobs, \A i \in Jobs \ {j} : i \in entry' <=> i \in entry,
         NEW r \in JobRow, job' = [job EXCEPT ![j] = r], r.status # "none",
         NEW w \in Work, worker' = [worker EXCEPT ![j] = w],
         NEW t \in Things, made' = [made EXCEPT ![j] = t],
         r.status = "completed" => t = All /\ r.tasks = Size /\ r.deps = Len(Deps),
         InOrder(j)', Stopped(j)'
  PROVE  IInv'
<1>1. TypeOK'
  BY DEF IInv, TypeOK
<1>2. /\ job'[j] = r /\ made'[j] = t
      /\ \A i \in Jobs \ {j} : job'[i] = job[i] /\ worker'[i] = worker[i] /\ made'[i] = made[i]
  BY DEF IInv, TypeOK
<1>3. CallsOK'
  <2> SUFFICES ASSUME NEW p \in Procs
               PROVE  /\ call[p].at = "idle" <=> call[p].job = NoJob
                      /\ call[p].at # "idle" => job'[call[p].job].status # "none"
                      /\ call[p].at \in {"launch", "launchAndPoll"} =>
                           /\ worker'[call[p].job].at = "gone" /\ made'[call[p].job] = Nothing
                           /\ job'[call[p].job].status = "pending"
                           /\ \A q \in Procs \ {p} : call[q].job # call[p].job
                      /\ call[p].at = "mark" => call[p].job \in ctx \/ worker'[call[p].job].at = "gone"
    BY DEF CallsOK, At
  <2>1. call[p] \in CallRow
    BY DEF IInv, TypeOK
  <2>2. CASE call[p].job = j
    BY <2>1, <2>2, <1>2, JobsValid, SMTT(60) DEF IInv, CallsOK, At, CallRow
  <2>3. CASE call[p].job # j
    BY <2>1, <2>3, <1>2, JobsValid, SMTT(60) DEF IInv, CallsOK, At, CallRow
  <2>4. QED BY <2>2, <2>3
<1>4. CompletedMeansAll'
  BY <1>2 DEF IInv, CompletedMeansAll, All, EdgesTo
<1>5. \A i \in Jobs : InOrder(i)' /\ Stopped(i)'
  BY <1>2 DEF IInv, InOrder, Stopped, At, EdgesTo, Nothing
<1>6. QED BY <1>1, <1>3, <1>4, <1>5 DEF IInv
-----------------------------------------------------------------------------
(* The steps of a goroutine *)

\* A step that creates rows: what it makes, and where it goes.
LEMMA CreatesIs ==
  ASSUME IInv, NEW j \in Jobs, NEW s \in Steps \ {"gone"}, NEW things \in Things, NEW next \in Work,
         Creates(j, s, things, next)
  PROVE  \E t \in Things, w \in Work :
           /\ made' = [made EXCEPT ![j] = t] /\ worker' = [worker EXCEPT ![j] = w]
           /\ j \in ctx => w.at = "fail"
           /\ j \notin ctx => t = things /\ w = next
<1>1. TypeOK
  BY DEF IInv
<1>2. PICK t \in Things : made' = [made EXCEPT ![j] = t] /\ (j \notin ctx => t = things)
  BY <1>1, Stays DEF Creates
<1>3. PICK w \in Work : /\ worker' = [worker EXCEPT ![j] = w]
                        /\ (j \in ctx => w.at = "fail") /\ (j \notin ctx => w = next)
  <2>1. CASE j \in ctx
    BY <2>1, <1>1, GoesIs DEF Creates, Steps
  <2>2. CASE j \notin ctx
    BY <2>2 DEF Creates
  <2>3. QED BY <2>1, <2>2
<1>4. QED BY <1>2, <1>3

\* Where a goroutine that creates has its task and edge.
LEMMA CreatesKeeps ==
  ASSUME IInv, NEW j \in Jobs, NEW s \in {"project", "task", "member", "dep"},
         NEW things \in Things, NEW next \in Work, Creates(j, s, things, next),
         next.at \notin {"gone", "begin", "project"},
         next.at \in {"check", "task", "member", "dep", "finish"} =>
           /\ things.project
           /\ things.tasks = 1 .. (IF next.at = "member" THEN next.task ELSE next.task - 1)
           /\ things.members = 1 .. next.task - 1
           /\ things.edges = EdgesTo(next.dep - 1),
         next.at \in {"check", "task", "member"} => next.dep = 1 /\ next.task \in 1 .. Size,
         next.at \in {"dep", "finish"} => next.task = Size + 1,
         next.at = "dep" => next.dep \in 1 .. Len(Deps),
         next.at = "finish" => next.dep = Len(Deps) + 1
  PROVE  IInv'
<1>1. PICK t \in Things, w \in Work :
        /\ made' = [made EXCEPT ![j] = t] /\ worker' = [worker EXCEPT ![j] = w]
        /\ j \in ctx => w.at = "fail"
        /\ j \notin ctx => t = things /\ w = next
  BY CreatesIs DEF Steps
<1>2. job[j] \in JobRow /\ job' = [job EXCEPT ![j] = job[j]] /\ UNCHANGED <<ctx, call, entry>>
  BY Stays DEF IInv, Creates
<1>3. made'[j] = t /\ worker'[j] = w /\ job'[j] = job[j]
  BY <1>1, <1>2 DEF IInv, TypeOK
<1>4. /\ ~At(j, "gone") /\ worker[j].at = s /\ j \in entry
      /\ job[j].status \notin {"none", "completed"}
      /\ job[j].status = "cancelled" => j \in ctx
  BY DEF Creates, At, IInv, InOrder, Stopped
<1>5. Stopped(j)'
  BY <1>2, <1>3, <1>4 DEF Stopped
<1>6. InOrder(j)'
  <2>1. CASE j \in ctx
    BY <2>1, <1>1, <1>2, <1>3, <1>4 DEF InOrder, At
  <2>2. CASE j \notin ctx
    BY <2>2, <1>1, <1>2, <1>3, <1>4 DEF InOrder, At, EdgesTo
  <2>3. QED BY <2>1, <2>2
<1>7. entry' \subseteq Jobs
  BY <1>2 DEF IInv, TypeOK
<1>8. QED BY <1>1, <1>2, <1>4, <1>5, <1>6, <1>7, WorkerStep

LEMMA CreateProjectKeeps ==
  ASSUME IInv, NEW j \in Jobs, CreateProject(j) PROVE IInv'
<1> DEFINE things == [made[j] EXCEPT !.project = TRUE]
           next == [at |-> "check", task |-> 1, dep |-> 1]
<1>1. made[j] \in Things /\ made[j] = Nothing
  BY Stays DEF IInv, InOrder, CreateProject, Creates, At
<1>2. made[j].tasks = {} /\ made[j].members = {} /\ made[j].edges = {}
  BY <1>1 DEF Nothing
<1>3. things \in Things /\ things.project /\ things.tasks = {} /\ things.members = {} /\ things.edges = {}
  BY <1>1, <1>2 DEF Things
<1>4. next \in Work
  BY DocFacts DEF Work, Steps
<1>5. Creates(j, "project", things, next)
  BY DEF CreateProject
<1>6. things.tasks = 1 .. 0 /\ things.members = 1 .. 0 /\ things.edges = EdgesTo(0)
  <2>1. 1 .. 0 = {}
    OBVIOUS
  <2> HIDE DEF things
  <2>2. QED BY <1>3, <2>1, DocFacts
<1>7. /\ next.at = "check" /\ next.task = 1 /\ next.dep = 1
      /\ next.task - 1 = 0 /\ next.dep - 1 = 0 /\ next.task \in 1 .. Size
  BY DocFacts
<1> HIDE DEF things, next
<1>8. QED BY <1>3, <1>4, <1>5, <1>6, <1>7, CreatesKeeps

LEMMA CreateTaskKeeps ==
  ASSUME IInv, NEW j \in Jobs, CreateTask(j) PROVE IInv'
<1> DEFINE n == worker[j].task
           things == [made[j] EXCEPT !.tasks = @ \cup {n}]
           next == [worker[j] EXCEPT !.at = "member"]
<1>1. /\ made[j] \in Things /\ made[j].project /\ made[j].tasks = 1 .. n - 1
      /\ made[j].members = 1 .. n - 1 /\ made[j].edges = EdgesTo(worker[j].dep - 1)
      /\ worker[j].dep = 1 /\ n \in 1 .. Size /\ worker[j] \in Work
  BY Stays DEF IInv, InOrder, CreateTask, Creates, At
<1>2. things \in Things /\ things.project /\ things.tasks = 1 .. n
      /\ things.members = 1 .. n - 1 /\ things.edges = EdgesTo(worker[j].dep - 1)
  BY <1>1, DocFacts DEF Things
<1>3. next \in Work /\ next.at = "member" /\ next.task = n /\ next.dep = worker[j].dep
  BY <1>1 DEF Work, Steps
<1>4. Creates(j, "task", things, next)
  BY DEF CreateTask
<1> HIDE DEF things, next
<1>5. QED BY <1>1, <1>2, <1>3, <1>4, CreatesKeeps

LEMMA AddTaskToProjectKeeps ==
  ASSUME IInv, NEW j \in Jobs, AddTaskToProject(j) PROVE IInv'
<1> DEFINE n == worker[j].task
           things == [made[j] EXCEPT !.members = @ \cup {n}]
           next == [at |-> IF n = Size THEN DepsFrom(1) ELSE "check", task |-> n + 1, dep |-> 1]
<1>1. /\ made[j] \in Things /\ made[j].project /\ made[j].tasks = 1 .. n
      /\ made[j].members = 1 .. n - 1 /\ made[j].edges = EdgesTo(worker[j].dep - 1)
      /\ worker[j].dep = 1 /\ n \in 1 .. Size /\ worker[j] \in Work
  BY Stays DEF IInv, InOrder, AddTaskToProject, Creates, At
<1>2. things \in Things /\ things.project /\ things.tasks = 1 .. n
      /\ things.members = 1 .. n /\ things.edges = EdgesTo(worker[j].dep - 1)
  BY <1>1, DocFacts DEF Things
<1>3. /\ next \in Work /\ next.task = n + 1 /\ next.dep = 1
      /\ next.at = IF n = Size THEN DepsFrom(1) ELSE "check"
  BY <1>1, DocFacts DEF Work, Steps, DepsFrom
<1>4. Creates(j, "member", things, next)
  BY DEF AddTaskToProject
<1> HIDE DEF things, next
<1>5. next.task - 1 = n /\ next.dep - 1 = worker[j].dep - 1 /\ n \in Nat
  BY <1>1, <1>3, DocFacts
<1>6. CASE next.at = "check"
  BY <1>1, <1>2, <1>3, <1>4, <1>5, <1>6, DocFacts, CreatesKeeps DEF DepsFrom
<1>7. CASE next.at # "check"
  BY <1>1, <1>2, <1>3, <1>4, <1>5, <1>7, DocFacts, CreatesKeeps DEF DepsFrom
<1>8. QED BY <1>6, <1>7

LEMMA AddDependencyKeeps ==
  ASSUME IInv, NEW j \in Jobs, AddDependency(j) PROVE IInv'
<1> DEFINE d == worker[j].dep
           things == [made[j] EXCEPT !.edges = @ \cup {Deps[d]}]
<1>1. /\ made[j] \in Things /\ made[j].project /\ made[j].tasks = 1 .. Size
      /\ made[j].members = 1 .. Size /\ made[j].edges = EdgesTo(d - 1)
      /\ d \in 1 .. Len(Deps) /\ worker[j].task = Size + 1 /\ worker[j] \in Work
  BY Stays, DocFacts DEF IInv, InOrder, AddDependency, Creates, At
<1>2. things \in Things /\ things.project /\ things.tasks = 1 .. Size
      /\ things.members = 1 .. Size /\ things.edges = EdgesTo(d)
  BY <1>1, DocFacts DEF Things
<1>3. /\ NextEdge(j) \in Work /\ NextEdge(j).task = Size + 1 /\ NextEdge(j).dep = d + 1
      /\ NextEdge(j).at = DepsFrom(d + 1)
  BY <1>1, DocFacts DEF NextEdge, Work, Steps, DepsFrom
<1>4. Creates(j, "dep", things, NextEdge(j))
  BY DEF AddDependency
<1> DEFINE next == NextEdge(j)
<1>5. /\ next \in Work /\ next.task - 1 = Size /\ next.task = Size + 1 /\ next.dep - 1 = d
      /\ next.at \in {"dep", "finish"}
      /\ next.at = "dep" => next.dep \in 1 .. Len(Deps)
      /\ next.at = "finish" => next.dep = Len(Deps) + 1
  BY <1>1, <1>3, DocFacts DEF DepsFrom
<1> HIDE DEF things, next, d
<1>6. QED BY <1>2, <1>4, <1>5, CreatesKeeps DEF next

\* A step that creates nothing: it leaves the row as it is, or sets its status.
LEMMA OtherStepKeeps ==
  ASSUME IInv, NEW j \in Jobs, ~At(j, "gone"), UNCHANGED <<made, entry, ctx, call>>,
         NEW r \in JobRow, job' = [job EXCEPT ![j] = r], r.status # "none",
         NEW s \in Steps \ {"gone", "begin", "member", "dep", "finish"}, Goes(j, s),
         s = "project" => made[j] = Nothing,
         s \in {"check", "task"} => At(j, "check"),
         r.status = "completed" =>
           s = "leave" /\ made[j] = All /\ r.tasks = Size /\ r.deps = Len(Deps),
         r.status = "cancelled" => j \in ctx \/ s = "leave"
  PROVE  IInv'
<1>1. PICK w \in Work : /\ worker' = [worker EXCEPT ![j] = w] /\ w.at = s
                        /\ w.task = worker[j].task /\ w.dep = worker[j].dep
  BY GoesIs DEF IInv
<1>2. made[j] \in Things /\ made' = [made EXCEPT ![j] = made[j]] /\ j \in entry /\ entry' \subseteq Jobs
  BY Stays DEF IInv, InOrder, TypeOK
<1>3. job'[j] = r /\ worker'[j] = w /\ made'[j] = made[j]
  BY <1>1, <1>2 DEF IInv, TypeOK
<1>4. Stopped(j)'
  BY <1>1, <1>3 DEF Stopped
<1>5. InOrder(j)'
  BY <1>1, <1>2, <1>3 DEF IInv, InOrder, At, EdgesTo, Nothing, Steps
<1>6. QED BY <1>1, <1>2, <1>4, <1>5, WorkerStep

\* What the row says while a goroutine is at work.
LEMMA AtWork ==
  ASSUME IInv, NEW j \in Jobs, ~At(j, "gone"), ~At(j, "leave")
  PROVE  /\ job[j].status \notin {"none", "completed"}
         /\ job[j].status = "cancelled" => j \in ctx
BY DEF IInv, InOrder, Stopped, At

LEMMA MarkRunningKeeps ==
  ASSUME IInv, NEW j \in Jobs, MarkRunning(j) PROVE IInv'
<1>1. /\ ~At(j, "gone") /\ ~At(j, "leave") /\ made[j] = Nothing
      /\ UNCHANGED <<made, entry, ctx, call>>
  BY DEF MarkRunning, At, IInv, InOrder
<1>2. CASE j \in ctx
  <2>1. job[j] \in JobRow /\ job' = [job EXCEPT ![j] = job[j]]
    BY <1>2, Stays DEF MarkRunning, IInv
  <2>2. Goes(j, "leave")
    BY <1>2 DEF MarkRunning
  <2>3. QED BY <1>1, <1>2, <2>1, <2>2, AtWork, OtherStepKeeps DEF Steps
<1>3. CASE j \notin ctx
  <2>1. PICK r \in JobRow : job' = [job EXCEPT ![j] = r] /\ r.status = "running"
    BY <1>3, SetStatusIs DEF MarkRunning, IInv, Statuses
  <2>2. Goes(j, "project")
    BY <1>3 DEF MarkRunning
  <2>3. QED BY <1>1, <2>1, <2>2, OtherStepKeeps DEF Steps
<1>4. QED BY <1>2, <1>3

\* A step that leaves the row as it is.
LEMMA QuietStepKeeps ==
  ASSUME IInv, NEW j \in Jobs, ~At(j, "gone"), ~At(j, "leave"), UNCHANGED <<job, made, entry, ctx, call>>,
         NEW s \in {"task", "cancelled", "fail", "leave"}, Goes(j, s), s = "task" => At(j, "check")
  PROVE  IInv'
<1>1. job[j] \in JobRow /\ job' = [job EXCEPT ![j] = job[j]]
  BY Stays DEF IInv
<1>2. QED BY <1>1, AtWork, OtherStepKeeps DEF Steps

LEMMA QuietStepsKeep ==
  ASSUME IInv, NEW j \in Jobs, Check(j) \/ Refused(j) \/ StatusLost(j) PROVE IInv'
<1>1. CASE Check(j)
  BY <1>1, QuietStepKeeps DEF Check, At, rows
<1>2. CASE Refused(j)
  BY <1>2, QuietStepKeeps DEF Refused, At, rows
<1>3. CASE StatusLost(j)
  BY <1>3, QuietStepKeeps DEF StatusLost, At, rows
<1>4. QED BY <1>1, <1>2, <1>3

LEMMA FinishKeeps ==
  ASSUME IInv, NEW j \in Jobs, Finish(j) PROVE IInv'
<1> DEFINE r == [status |-> "completed", tasks |-> worker[j].task - 1, deps |-> worker[j].dep - 1]
<1>1. /\ worker[j].task = Size + 1 /\ worker[j].dep = Len(Deps) + 1 /\ ~At(j, "gone")
      /\ made[j].project /\ made[j].tasks = 1 .. worker[j].task - 1
      /\ made[j].members = 1 .. worker[j].task - 1 /\ made[j].edges = EdgesTo(worker[j].dep - 1)
  BY DEF Finish, IInv, InOrder, At
<1>2. worker[j].task - 1 = Size /\ worker[j].dep - 1 = Len(Deps)
  BY <1>1, DocFacts
<1>3. made[j].project = TRUE /\ made[j].tasks = 1 .. Size /\ made[j].members = 1 .. Size
      /\ made[j].edges = EdgesTo(Len(Deps))
  BY <1>1, <1>2
<1>4. made[j] = All
  BY <1>3, Stays DEF IInv, All, Things
<1>5. r \in JobRow /\ r.status = "completed" /\ r.tasks = Size /\ r.deps = Len(Deps)
  BY <1>2, DocFacts DEF JobRow, Statuses, Ended
<1>6. job' = [job EXCEPT ![j] = r] /\ Goes(j, "leave") /\ UNCHANGED <<made, entry, ctx, call>>
  BY DEF Finish
<1> HIDE DEF r
<1>7. QED BY <1>1, <1>4, <1>5, <1>6, OtherStepKeeps DEF Steps

LEMMA EndKeeps ==
  ASSUME IInv, NEW j \in Jobs, FailImportJob(j) \/ WriteCancelled(j) PROVE IInv'
<1>1. PICK s \in {"failed", "cancelled"} : SetStatus(j, s)
  BY DEF FailImportJob, WriteCancelled, EndWith
<1>2. PICK r \in JobRow : job' = [job EXCEPT ![j] = r] /\ r.status = s
  BY <1>1, SetStatusIs DEF IInv, Statuses, Ended
<1>3. ~At(j, "gone") /\ Goes(j, "leave") /\ UNCHANGED <<made, entry, ctx, call>>
  BY DEF FailImportJob, WriteCancelled, EndWith, At
<1>4. QED BY <1>2, <1>3, OtherStepKeeps DEF Steps

LEMMA LeaveKeeps ==
  ASSUME IInv, NEW j \in Jobs, Leave(j) PROVE IInv'
<1>1. /\ job[j] \in JobRow /\ job' = [job EXCEPT ![j] = job[j]] /\ UNCHANGED <<ctx, call>>
      /\ made[j] \in Things /\ made' = [made EXCEPT ![j] = made[j]]
      /\ entry' = entry \ {j} /\ entry' \subseteq Jobs /\ NoWork \in Work
      /\ worker' = [worker EXCEPT ![j] = NoWork]
  BY Stays, DocFacts DEF IInv, TypeOK, Leave, rows, NoWork, Work, Steps
<1>2. /\ ~At(j, "gone") /\ job[j].status # "none"
      /\ job[j].status = "completed" => made[j] = All /\ job[j].tasks = Size /\ job[j].deps = Len(Deps)
  BY DEF Leave, At, IInv, InOrder, CompletedMeansAll
<1>3. job'[j] = job[j] /\ worker'[j] = NoWork /\ made'[j] = made[j]
  BY <1>1 DEF IInv, TypeOK
<1>4. InOrder(j)' /\ Stopped(j)'
  BY <1>1, <1>2, <1>3 DEF InOrder, Stopped, At, NoWork
<1>5. QED BY <1>1, <1>2, <1>4, WorkerStep
-----------------------------------------------------------------------------
(* The steps of the callers *)

\* A step of one call that leaves the jobs alone.
LEMMA CallStepKeeps ==
  ASSUME IInv, NEW p \in Procs, UNCHANGED <<job, made, entry, worker>>,
         ctx' = ctx \/ \E j \in Jobs : ctx' = ctx \cup {j},
         NEW c \in CallRow, call' = [call EXCEPT ![p] = c],
         c.at = "idle" <=> c.job = NoJob, c.at \notin {"launch", "launchAndPoll"},
         c.at # "idle" => job[c.job].status # "none",
         \A q \in Procs \ {p} : call[q].at \in {"launch", "launchAndPoll"} => call[q].job # c.job,
         c.at = "mark" => c.job \in ctx' \/ At(c.job, "gone")
  PROVE  IInv'
<1>1. TypeOK'
  BY DEF IInv, TypeOK
<1>2. call'[p] = c /\ \A q \in Procs \ {p} : call'[q] = call[q]
  BY DEF IInv, TypeOK
<1>3. CallsOK'
  BY <1>2 DEF IInv, CallsOK, At, Nothing
<1>4. CompletedMeansAll'
  BY DEF IInv, CompletedMeansAll, All, EdgesTo
<1>5. \A i \in Jobs : InOrder(i)' /\ Stopped(i)'
  BY DEF IInv, InOrder, Stopped, At, EdgesTo, Nothing
<1>6. QED BY <1>1, <1>3, <1>4, <1>5 DEF IInv

LEMMA NoCallIs == NoCall \in CallRow /\ NoCall.at = "idle" /\ NoCall.job = NoJob
BY DEF NoCall, CallRow

LEMMA ReturnsKeeps ==
  ASSUME IInv, NEW p \in Procs, Poll(p) \/ GiveUp(p) PROVE IInv'
<1>1. call' = [call EXCEPT ![p] = NoCall] /\ UNCHANGED <<job, made, entry, worker, ctx>>
  BY DEF Poll, GiveUp, Returns, rows, mem
<1>2. \A q \in Procs \ {p} : call[q].at \in {"launch", "launchAndPoll"} => call[q].job # NoJob
  BY DEF IInv, CallsOK
<1>3. QED BY <1>1, <1>2, NoCallIs, CallStepKeeps, ZenonT(60)

LEMMA CancelKeeps ==
  ASSUME IInv, NEW p \in Procs, NEW j \in Jobs, CancelImportProject(p, j) PROVE IInv'
<1> DEFINE c == [at |-> "signal", job |-> j]
<1>1. c \in CallRow /\ c.at = "signal" /\ c.job = j /\ j # NoJob
  BY JobsValid DEF CallRow
<1>2. call' = [call EXCEPT ![p] = c] /\ UNCHANGED <<job, made, entry, worker, ctx>>
  BY DEF CancelImportProject, Calls, rows, mem
<1>3. job[j].status # "none" /\ \A q \in Procs : call[q].at \in {"launch", "launchAndPoll"} => call[q].job # j
  BY DEF CancelImportProject
<1> HIDE DEF c
<1>4. QED BY <1>1, <1>2, <1>3, CallStepKeeps

LEMMA SignalKeeps ==
  ASSUME IInv, NEW p \in Procs, Signal(p) PROVE IInv'
<1> DEFINE j == call[p].job
           c == [at |-> "mark", job |-> j]
<1>1. call[p] \in CallRow /\ call[p].at = "signal"
  BY DEF IInv, TypeOK, Signal
<1>2. j \in Jobs /\ job[j].status # "none" /\ j # NoJob
  BY <1>1, JobsValid DEF IInv, CallsOK, CallRow
<1>3. c \in CallRow /\ c.at = "mark" /\ c.job = j
  BY <1>2 DEF CallRow
<1>4. call' = [call EXCEPT ![p] = c] /\ UNCHANGED <<job, made, entry, worker>>
  BY DEF Signal, Calls, rows
<1>5. \A q \in Procs \ {p} : call[q].at \in {"launch", "launchAndPoll"} => call[q].job # j
  BY DEF IInv, CallsOK
<1>6. /\ ctx' = ctx \/ \E i \in Jobs : ctx' = ctx \cup {i}
      /\ j \in ctx' \/ At(j, "gone")
  BY <1>2 DEF Signal, IInv, InOrder
<1> HIDE DEF c, j
<1>7. QED BY <1>2, <1>3, <1>4, <1>5, <1>6, CallStepKeeps, ZenonT(60)

LEMMA MarkKeeps ==
  ASSUME IInv, NEW p \in Procs, Mark(p) PROVE IInv'
<1> DEFINE j == call[p].job
<1>1. call[p] \in CallRow /\ call[p].at = "mark"
  BY DEF IInv, TypeOK, Mark
<1>2. j \in Jobs /\ job[j].status # "none" /\ (j \in ctx \/ At(j, "gone"))
  BY <1>1, JobsValid DEF IInv, CallsOK, CallRow
<1>3. \A q \in Procs : call[q].at \in {"launch", "launchAndPoll"} => call[q].job # j
  BY <1>1 DEF IInv, CallsOK
<1> HIDE DEF j
<1>4. PICK r \in JobRow : job' = [job EXCEPT ![j] = r] /\ r.status = "cancelled"
  BY <1>2, SetStatusIs DEF Mark, IInv, Statuses, Ended, j
<1>5. call' = [call EXCEPT ![p] = NoCall] /\ UNCHANGED <<made, entry, worker, ctx>>
  BY DEF Mark, Returns, mem
<1>6. /\ job'[j] = r /\ \A i \in Jobs \ {j} : job'[i] = job[i]
      /\ call'[p] = NoCall /\ \A q \in Procs \ {p} : call'[q] = call[q]
  BY <1>2, <1>4, <1>5 DEF IInv, TypeOK
<1>7. TypeOK'
  BY <1>4, <1>5, NoCallIs DEF IInv, TypeOK
<1>8. CallsOK'
  <2>1. \A q \in Procs : call[q].at # "idle" => job'[call[q].job].status # "none"
    <3> SUFFICES ASSUME NEW q \in Procs, call[q].at # "idle" PROVE job'[call[q].job].status # "none"
      OBVIOUS
    <3>1. call[q] \in CallRow /\ call[q].job \in Jobs /\ job[call[q].job].status # "none"
      BY JobsValid DEF IInv, TypeOK, CallRow, CallsOK
    <3>2. QED BY <3>1, <1>4, <1>6
  <2>2. \A q \in Procs : call[q].at \in {"launch", "launchAndPoll"} => job'[call[q].job] = job[call[q].job]
    <3> SUFFICES ASSUME NEW q \in Procs, call[q].at \in {"launch", "launchAndPoll"}
                 PROVE job'[call[q].job] = job[call[q].job]
      OBVIOUS
    <3>1. call[q].job \in Jobs /\ call[q].job # j
      BY <1>3, JobsValid DEF IInv, TypeOK, CallRow, CallsOK
    <3>2. QED BY <3>1, <1>6
  <2>3. QED BY <2>1, <2>2, <1>5, <1>6, NoCallIs DEF IInv, CallsOK, At, Nothing
<1>9. CompletedMeansAll'
  BY <1>4, <1>5, <1>6 DEF IInv, CompletedMeansAll, All, EdgesTo
<1>10. \A i \in Jobs : InOrder(i)' /\ Stopped(i)'
  BY <1>2, <1>4, <1>5, <1>6 DEF IInv, InOrder, Stopped, At, EdgesTo, Nothing
<1>11. QED BY <1>7, <1>8, <1>9, <1>10 DEF IInv

LEMMA StartKeeps ==
  ASSUME IInv, NEW p \in Procs, NEW j \in Jobs, NEW wait \in BOOLEAN, StartImportProject(p, j, wait)
  PROVE  IInv'
<1>1. PICK s \in {"launch", "launchAndPoll"} : Calls(p, s, j)
  BY DEF StartImportProject
<1> DEFINE c == [at |-> s, job |-> j]
<1>2. c \in CallRow /\ c.at = s /\ c.job = j /\ call' = [call EXCEPT ![p] = c]
  BY <1>1 DEF CallRow, Calls
<1> HIDE DEF c
<1>3. PICK r \in JobRow : job' = [job EXCEPT ![j] = r] /\ r.status = "pending"
  BY SetStatusIs DEF StartImportProject, IInv, Statuses
<1>4. /\ UNCHANGED <<made, entry, worker, ctx>> /\ call[p] = NoCall
      /\ job[j].status = "none"
  BY DEF StartImportProject, mem, NewRow
<1>5. At(j, "gone") /\ made[j] = Nothing
  BY <1>4 DEF IInv, InOrder
<1>6. /\ job'[j] = r /\ \A i \in Jobs \ {j} : job'[i] = job[i]
      /\ call'[p] = c /\ \A q \in Procs \ {p} : call'[q] = call[q]
  BY <1>2, <1>3 DEF IInv, TypeOK
<1>7. TypeOK'
  BY <1>2, <1>3, <1>4 DEF IInv, TypeOK
<1>8. \A q \in Procs : call[q].job # j
  <2> SUFFICES ASSUME NEW q \in Procs, call[q].job = j PROVE FALSE
    OBVIOUS
  <2>1. call[q].at # "idle"
    BY JobsValid DEF IInv, CallsOK
  <2>2. QED BY <2>1, <1>4 DEF IInv, CallsOK
<1>9. \A q \in Procs : call[q].at # "idle" => job'[call[q].job] = job[call[q].job]
  <2> SUFFICES ASSUME NEW q \in Procs, call[q].at # "idle" PROVE job'[call[q].job] = job[call[q].job]
    OBVIOUS
  <2>1. call[q].job \in Jobs \ {j}
    BY <1>8, JobsValid DEF IInv, TypeOK, CallRow, CallsOK
  <2>2. QED BY <2>1, <1>6
<1>10. CallsOK'
  <2>1. c.at # "idle" /\ c.job # NoJob /\ c.at # "mark"
    BY <1>2, JobsValid
  <2>2. QED BY <2>1, <1>2, <1>3, <1>4, <1>5, <1>6, <1>8, <1>9 DEF IInv, CallsOK, At, Nothing
<1>11. CompletedMeansAll'
  BY <1>3, <1>4, <1>6 DEF IInv, CompletedMeansAll, All, EdgesTo
<1>12. \A i \in Jobs : InOrder(i)' /\ Stopped(i)'
  BY <1>3, <1>4, <1>5, <1>6 DEF IInv, InOrder, Stopped, At, EdgesTo, Nothing
<1>13. QED BY <1>7, <1>10, <1>11, <1>12 DEF IInv

LEMMA LaunchKeeps ==
  ASSUME IInv, NEW p \in Procs, Launch(p) PROVE IInv'
<1> DEFINE j == call[p].job
<1>1. call[p] \in CallRow /\ call[p].at \in {"launch", "launchAndPoll"}
  BY DEF IInv, TypeOK, Launch
<1>2. /\ j \in Jobs /\ At(j, "gone") /\ made[j] = Nothing /\ job[j].status = "pending"
      /\ \A q \in Procs \ {p} : call[q].job # j
  BY <1>1, JobsValid DEF IInv, CallsOK, CallRow
<1>3. PICK c \in CallRow : /\ call' = [call EXCEPT ![p] = c] /\ c.at \in {"idle", "poll"}
                           /\ c.at = "idle" <=> c.job = NoJob
                           /\ c.at = "poll" => c.job = j
  <2>1. CASE call[p].at = "launch"
    BY <2>1, NoCallIs DEF Launch, Returns
  <2>2. CASE call[p].at = "launchAndPoll"
    <3> DEFINE c == [at |-> "poll", job |-> j]
    <3>1. call' = [call EXCEPT ![p] = c]
      BY <2>2 DEF Launch, Calls
    <3>2. c \in CallRow /\ c.at = "poll" /\ c.job = j /\ j # NoJob
      BY <1>2, JobsValid DEF CallRow
    <3> HIDE DEF c
    <3>3. QED BY <3>1, <3>2
  <2>3. QED BY <2>1, <2>2, <1>1
<1>4. entry' = entry \cup {j} /\ Goes(j, "begin") /\ UNCHANGED <<job, made, ctx>>
  BY DEF Launch, rows
<1> HIDE DEF j
<1>5. PICK w \in Work : worker' = [worker EXCEPT ![j] = w] /\ w.at = "begin"
  BY <1>2, <1>4, GoesIs DEF IInv, Steps
<1>6. /\ worker'[j] = w /\ \A i \in Jobs \ {j} : worker'[i] = worker[i]
      /\ call'[p] = c /\ \A q \in Procs \ {p} : call'[q] = call[q]
  BY <1>2, <1>3, <1>5 DEF IInv, TypeOK
<1>7. TypeOK'
  BY <1>2, <1>3, <1>4, <1>5 DEF IInv, TypeOK
<1>8. \A q \in Procs \ {p} : call[q].at # "idle" => worker'[call[q].job] = worker[call[q].job]
  <2> SUFFICES ASSUME NEW q \in Procs \ {p}, call[q].at # "idle"
               PROVE worker'[call[q].job] = worker[call[q].job]
    OBVIOUS
  <2>1. call[q].job \in Jobs \ {j}
    BY <1>2, JobsValid DEF IInv, TypeOK, CallRow, CallsOK
  <2>2. QED BY <2>1, <1>6
<1>9. \A q \in Procs \ {p} : call[q].at \in {"launch", "launchAndPoll"} => call[q].job # c.job
  BY <1>2, <1>3 DEF IInv, CallsOK
<1>10. CallsOK'
  BY <1>2, <1>3, <1>4, <1>6, <1>8, <1>9 DEF IInv, CallsOK, At, Nothing
<1>11. CompletedMeansAll'
  BY <1>4 DEF IInv, CompletedMeansAll, All, EdgesTo
<1>12. \A i \in Jobs : InOrder(i)' /\ Stopped(i)'
  BY <1>2, <1>4, <1>5, <1>6 DEF IInv, InOrder, Stopped, At, EdgesTo, Nothing
<1>13. QED BY <1>7, <1>10, <1>11, <1>12 DEF IInv

LEMMA CrashKeeps ==
  ASSUME IInv, Crash PROVE IInv'
<1>1. /\ entry' = {} /\ ctx' = {} /\ worker' = [j \in Jobs |-> NoWork]
      /\ call' = [p \in Procs |-> NoCall] /\ UNCHANGED <<job, made>>
  BY DEF Crash, rows
<1>2. NoWork \in Work /\ NoWork.at = "gone"
  BY DocFacts DEF NoWork, Work, Steps
<1>3. TypeOK'
  BY <1>1, <1>2, NoCallIs DEF IInv, TypeOK
<1>4. /\ \A j \in Jobs : worker'[j] = NoWork
      /\ \A p \in Procs : call'[p] = NoCall
  BY <1>1
<1>5. CallsOK'
  BY <1>4, NoCallIs DEF CallsOK
<1>6. CompletedMeansAll'
  BY <1>1 DEF IInv, CompletedMeansAll, All, EdgesTo
<1>7. \A i \in Jobs : InOrder(i)' /\ Stopped(i)'
  BY <1>1, <1>2, <1>4 DEF IInv, InOrder, Stopped, At, Nothing
<1>8. QED BY <1>3, <1>5, <1>6, <1>7 DEF IInv
-----------------------------------------------------------------------------
LEMMA InitHolds == Init => IInv
<1> SUFFICES ASSUME Init PROVE IInv
  OBVIOUS
<1>1. /\ NewRow \in JobRow /\ NewRow.status = "none" /\ NoWork \in Work /\ NoWork.at = "gone"
      /\ Nothing \in Things
  BY DocFacts DEF NewRow, JobRow, Statuses, NoWork, Work, Steps, Nothing, Things
<1>2. TypeOK
  BY <1>1, NoCallIs DEF Init, TypeOK
<1>3. /\ \A j \in Jobs : job[j] = NewRow /\ worker[j] = NoWork /\ made[j] = Nothing
      /\ \A p \in Procs : call[p] = NoCall
  BY DEF Init
<1>4. CallsOK
  BY <1>3, NoCallIs DEF CallsOK
<1>5. CompletedMeansAll
  BY <1>1, <1>3 DEF CompletedMeansAll
<1>6. \A i \in Jobs : InOrder(i) /\ Stopped(i)
  BY <1>1, <1>3 DEF Init, InOrder, Stopped, At
<1>7. QED BY <1>2, <1>4, <1>5, <1>6 DEF IInv

\* Nothing the callers, the goroutines and the failures do breaks the invariant.
LEMMA StepKeeps == IInv /\ [Next]_vars => IInv'
<1> SUFFICES ASSUME IInv, [Next]_vars PROVE IInv'
  OBVIOUS
<1>1. CASE \E p \in Procs : Begins(p) \/ Runs(p) \/ GiveUp(p)
  BY <1>1, StartKeeps, CancelKeeps, LaunchKeeps, ReturnsKeeps, SignalKeeps, MarkKeeps DEF Begins, Runs
<1>2. CASE \E j \in Jobs : Works(j) \/ Refused(j) \/ StatusLost(j)
  BY <1>2, MarkRunningKeeps, CreateProjectKeeps, QuietStepsKeep, CreateTaskKeeps,
     AddTaskToProjectKeeps, AddDependencyKeeps, FinishKeeps, EndKeeps, LeaveKeeps DEF Works
<1>3. CASE Crash
  BY <1>3, CrashKeeps
<1>4. CASE UNCHANGED vars
  BY <1>4 DEF vars, IInv, TypeOK, CallsOK, CompletedMeansAll, InOrder, Stopped, At, All, Nothing, EdgesTo
<1>5. QED BY <1>1, <1>2, <1>3, <1>4 DEF Next

\* For every document, however many jobs and callers: the goroutines work through
\* their documents in order, and whoever cancels one has stopped it (import.go:194).
THEOREM Invariant == Spec => []IInv
<1>1. QED BY InitHolds, StepKeeps, PTL DEF Spec

\* A job that says completed has made all of its document (import.go:282).
THEOREM Completed == Spec => []CompletedMeansAll
<1>1. IInv => CompletedMeansAll
  BY DEF IInv
<1>2. QED BY <1>1, Invariant, PTL

\* A job that says cancelled creates at most what it was committing (import.go:186).
THEOREM Cancelled == Spec => CancelledStops
<1> DEFINE Stops == \A j \in Jobs : job[j].status = "cancelled" /\ made'[j] # made[j]
                                     => j \in ctx /\ worker'[j].at = "fail"
<1>1. IInv /\ [Next]_vars => [Stops]_vars
  <2> SUFFICES ASSUME IInv, Next, NEW j \in Jobs, job[j].status = "cancelled", made'[j] # made[j]
               PROVE  j \in ctx /\ worker'[j].at = "fail"
    BY DEF Stops
  <2>1. made' # made
    OBVIOUS
  <2>2. PICK i \in Jobs : CreateProject(i) \/ CreateTask(i) \/ AddTaskToProject(i) \/ AddDependency(i)
    BY <2>1 DEF Next, Begins, Runs, Works, StartImportProject, CancelImportProject, Launch, Poll,
       Signal, Mark, GiveUp, MarkRunning, Check, Finish, FailImportJob, WriteCancelled, EndWith,
       Leave, Refused, StatusLost, Crash, rows, mem
  <2>3. i = j
    BY <2>2 DEF CreateProject, CreateTask, AddTaskToProject, AddDependency, Creates, IInv, TypeOK
  <2>4. ~At(j, "gone") /\ ~At(j, "leave")
    BY <2>2, <2>3 DEF CreateProject, CreateTask, AddTaskToProject, AddDependency, Creates, At
  <2>5. j \in ctx
    BY <2>4, AtWork
  <2>6. Goes(j, "fail")
    BY <2>2, <2>3, <2>5 DEF CreateProject, CreateTask, AddTaskToProject, AddDependency, Creates
  <2>7. PICK w \in Work : worker' = [worker EXCEPT ![j] = w] /\ w.at = "fail"
    BY <2>6, GoesIs DEF IInv, Steps
  <2>8. QED BY <2>5, <2>7 DEF IInv, TypeOK
<1>2. QED BY <1>1, Invariant, PTL DEF Spec, CancelledStops
=============================================================================
