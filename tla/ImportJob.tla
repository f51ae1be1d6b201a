----------------------------- MODULE ImportJob -----------------------------
(***************************************************************************)
(* Importing a project (import.go): a job's row in the database, the       *)
(* goroutine that makes its project, tasks and edges, the process's map of *)
(* the jobs it runs, and the callers that start, watch and cancel them.    *)
(* A goroutine's step is one call of the rest of the package, which fails  *)
(* once its context has been cancelled: the rows it creates are there then *)
(* only if their commit was under way.  A caller's step is one statement   *)
(* or one access to the map.                                               *)
(***************************************************************************)
EXTENDS Naturals, Sequences

CONSTANTS
  Procs,   \* callers
  Jobs,    \* the ids of the jobs
  NoJob,
  Size,    \* how many tasks a document has
  Deps     \* the edges it asks for, by the positions of the tasks

\* validateImportDoc: a document has tasks, under different references, and an
\* edge leads to one of them.
ASSUME JobsValid == NoJob \notin Jobs
Valid(n, deps) == n \in Nat \ {0} /\ deps \in Seq((1 .. n) \X (1 .. n))
ASSUME DocValid == Valid(Size, Deps)

Ended    == {"completed", "failed", "cancelled"}
Statuses == {"none", "pending", "running"} \cup Ended

VARIABLES
  job,     \* the import_job rows: status and the counts of a completed one
  entry,   \* importJobs: the jobs with an entry
  ctx,     \* the jobs whose context has been cancelled
  worker,  \* per job: the goroutine's next step, the task and edge it is at
  made,    \* what each job has created: its project, tasks, members, edges
  call     \* per caller: the call under way and its job

rows == <<job, made>>
mem  == <<entry, ctx, worker>>
vars == <<job, entry, ctx, worker, made, call>>

NewRow == [status |-> "none", tasks |-> 0, deps |-> 0]
NoWork == [at |-> "gone", task |-> 0, dep |-> 0]
Nothing == [project |-> FALSE, tasks |-> {}, members |-> {}, edges |-> {}]
NoCall == [at |-> "idle", job |-> NoJob]

EdgesTo(n) == {Deps[d] : d \in 1 .. n}

SetStatus(j, s) == job' = [job EXCEPT ![j].status = s]
Goes(j, s)      == worker' = [worker EXCEPT ![j].at = s]
Calls(p, s, j)  == call' = [call EXCEPT ![p] = [at |-> s, job |-> j]]
Returns(p)      == call' = [call EXCEPT ![p] = NoCall]
-----------------------------------------------------------------------------
(* The callers *)

\* StartImportProject: the row; then the entry, the goroutine and the answer. The
\* synchronous ImportProject goes on to poll.
StartImportProject(p, j, wait) ==
  /\ call[p] = NoCall /\ job[j] = NewRow
  /\ SetStatus(j, "pending")
  /\ Calls(p, IF wait THEN "launchAndPoll" ELSE "launch", j)
  /\ UNCHANGED <<mem, made>>

Launch(p) ==
  /\ call[p].at \in {"launch", "launchAndPoll"}
  /\ LET j == call[p].job
     IN  /\ entry' = entry \cup {j}
         /\ Goes(j, "begin")
         /\ IF call[p].at = "launch" THEN Returns(p) ELSE Calls(p, "poll", j)
  /\ UNCHANGED <<rows, ctx>>

\* ImportProject's poll returns once the job has ended. A caller whose context is
\* done returns too: its CancelImportProject reads with the same context, which
\* fails, and cancels nothing.
Poll(p) ==
  /\ call[p].at = "poll" /\ job[call[p].job].status \in Ended
  /\ Returns(p)
  /\ UNCHANGED <<rows, mem>>

GiveUp(p) ==
  /\ call[p].at = "poll"
  /\ Returns(p)
  /\ UNCHANGED <<rows, mem>>

\* CancelImportProject: the read, the signal and the write. The id of a job is
\* known from its start's answer.
CancelImportProject(p, j) ==
  /\ call[p] = NoCall
  /\ job[j].status \in {"pending", "running"}
  /\ \A q \in Procs : call[q].job = j => call[q].at \notin {"launch", "launchAndPoll"}
  /\ Calls(p, "signal", j)
  /\ UNCHANGED <<rows, mem>>

Signal_Never(p) ==
  call[p].at = "signal" /\ Calls(p, "mark", call[p].job) /\ UNCHANGED <<rows, mem>>
Signal(p) ==
  /\ call[p].at = "signal"
  /\ ctx' = IF call[p].job \in entry THEN ctx \cup {call[p].job} ELSE ctx
  /\ Calls(p, "mark", call[p].job)
  /\ UNCHANGED <<rows, entry, worker>>

Mark_OnlyStranded(p) ==
  /\ call[p].at = "mark"
  /\ IF call[p].job \in ctx THEN UNCHANGED job ELSE SetStatus(call[p].job, "cancelled")
  /\ Returns(p)
  /\ UNCHANGED <<mem, made>>
Mark(p) ==
  /\ call[p].at = "mark"
  /\ SetStatus(call[p].job, "cancelled")
  /\ Returns(p)
  /\ UNCHANGED <<mem, made>>
-----------------------------------------------------------------------------
(* The goroutine *)

At(j, s) == worker[j].at = s

\* With a cancelled context the first write fails, and the goroutine leaves.
MarkRunning(j) ==
  /\ At(j, "begin")
  /\ IF j \in ctx THEN Goes(j, "leave") /\ UNCHANGED job
                  ELSE Goes(j, "project") /\ SetStatus(j, "running")
  /\ UNCHANGED <<entry, ctx, made, call>>

\* A step that creates rows, done, cut off by the cancel, or cut off when its rows
\* were being committed. It was started before the cancel: the step before fails or
\* looks first.
Creates(j, step, things, next) ==
  /\ At(j, step)
  /\ \/ made' = [made EXCEPT ![j] = things]
     \/ j \in ctx /\ made' = made
  /\ IF j \in ctx THEN Goes(j, "fail") ELSE worker' = [worker EXCEPT ![j] = next]
  /\ UNCHANGED <<job, entry, ctx, call>>

CreateProject(j) ==
  Creates(j, "project", [made[j] EXCEPT !.project = TRUE],
          [at |-> "check", task |-> 1, dep |-> 1])

\* Before each task the goroutine looks whether it has been cancelled.
Check(j) ==
  /\ At(j, "check")
  /\ Goes(j, IF j \in ctx THEN "cancelled" ELSE "task")
  /\ UNCHANGED <<rows, entry, ctx, call>>

CreateTask(j) ==
  Creates(j, "task", [made[j] EXCEPT !.tasks = @ \cup {worker[j].task}],
          [worker[j] EXCEPT !.at = "member"])

\* The step at edge d: to create it, or the end.
DepsFrom(d) == IF d > Len(Deps) THEN "finish" ELSE "dep"

AddTaskToProject(j) ==
  Creates(j, "member", [made[j] EXCEPT !.members = @ \cup {worker[j].task}],
          [at |-> IF worker[j].task = Size THEN DepsFrom(1) ELSE "check",
           task |-> worker[j].task + 1, dep |-> 1])

NextEdge(j) == [at |-> DepsFrom(worker[j].dep + 1), task |-> worker[j].task,
                dep |-> worker[j].dep + 1]

AddDependency_Skips(j) ==
  /\ At(j, "dep")
  /\ worker' = [worker EXCEPT ![j] = NextEdge(j)]
  /\ made' = IF j \in ctx THEN made ELSE [made EXCEPT ![j].edges = @ \cup {Deps[worker[j].dep]}]
  /\ UNCHANGED <<job, entry, ctx, call>>
AddDependency(j) ==
  Creates(j, "dep", [made[j] EXCEPT !.edges = @ \cup {Deps[worker[j].dep]}], NextEdge(j))

\* The last writes name the job and nothing else, on a context that is not
\* cancelled.
Finish(j) ==
  /\ At(j, "finish")
  /\ job' = [job EXCEPT ![j] = [status |-> "completed", tasks |-> worker[j].task - 1,
                                deps |-> worker[j].dep - 1]]
  /\ Goes(j, "leave")
  /\ UNCHANGED <<entry, ctx, made, call>>

EndWith(j, s) ==
  /\ At(j, s[1])
  /\ SetStatus(j, s[2])
  /\ Goes(j, "leave")
  /\ UNCHANGED <<entry, ctx, made, call>>
FailImportJob(j)  == EndWith(j, <<"fail", "failed">>)
WriteCancelled(j) == EndWith(j, <<"cancelled", "cancelled">>)

Leave(j) ==
  /\ At(j, "leave")
  /\ entry' = entry \ {j}
  /\ worker' = [worker EXCEPT ![j] = NoWork]
  /\ UNCHANGED <<rows, ctx, call>>
-----------------------------------------------------------------------------
(* What goes wrong *)

\* The database refuses what a step asks for.
Refused(j) ==
  /\ worker[j].at \in {"project", "task", "member", "dep"}
  /\ Goes(j, "fail")
  /\ UNCHANGED <<rows, entry, ctx, call>>

\* It refuses a write of the status, whose error nobody looks at.
StatusLost(j) ==
  /\ worker[j].at \in {"begin", "finish", "fail", "cancelled"}
  /\ Goes(j, "leave")
  /\ UNCHANGED <<rows, entry, ctx, call>>

\* The process dies: its goroutines, its map and its calls.
Crash ==
  /\ \E j \in Jobs : worker[j] # NoWork
  /\ entry' = {} /\ ctx' = {}
  /\ worker' = [j \in Jobs |-> NoWork] /\ call' = [p \in Procs |-> NoCall]
  /\ UNCHANGED rows
-----------------------------------------------------------------------------
Init ==
  /\ job = [j \in Jobs |-> NewRow] /\ made = [j \in Jobs |-> Nothing]
  /\ entry = {} /\ ctx = {} /\ worker = [j \in Jobs |-> NoWork]
  /\ call = [p \in Procs |-> NoCall]

Begins(p) == \E j \in Jobs : \/ \E wait \in BOOLEAN : StartImportProject(p, j, wait)
                             \/ CancelImportProject(p, j)

Runs(p) == Launch(p) \/ Poll(p) \/ Signal(p) \/ Mark(p)

Works(j) == \/ MarkRunning(j) \/ CreateProject(j) \/ Check(j) \/ CreateTask(j)
            \/ AddTaskToProject(j) \/ AddDependency(j) \/ Finish(j)
            \/ FailImportJob(j) \/ WriteCancelled(j) \/ Leave(j)

Next == \/ \E p \in Procs : Begins(p) \/ Runs(p) \/ GiveUp(p)
        \/ \E j \in Jobs : Works(j) \/ Refused(j) \/ StatusLost(j)
        \/ Crash

Spec == Init /\ [][Next]_vars
-----------------------------------------------------------------------------
(* Properties *)

Steps == {"gone", "begin", "project", "check", "task", "member", "dep", "finish",
          "fail", "cancelled", "leave"}

JobRow == [status : Statuses, tasks : 0 .. Size, deps : 0 .. Len(Deps)]
Work   == [at : Steps, task : 0 .. Size + 1, dep : 0 .. Len(Deps) + 1]
Things == [project : BOOLEAN, tasks : SUBSET (1 .. Size), members : SUBSET (1 .. Size),
           edges : SUBSET EdgesTo(Len(Deps))]

CallRow == [at : {"idle", "launch", "launchAndPoll", "poll", "signal", "mark"},
            job : Jobs \cup {NoJob}]

TypeOK ==
  /\ job \in [Jobs -> JobRow] /\ worker \in [Jobs -> Work] /\ made \in [Jobs -> Things]
  /\ entry \subseteq Jobs /\ ctx \subseteq Jobs
  /\ call \in [Procs -> CallRow]

\* A goroutine has made what lies before its step, in the document's order; the
\* map names exactly the goroutines (import.go:141, :195).
InOrder(j) ==
  /\ j \in entry <=> ~At(j, "gone")
  /\ job[j].status = "none" => At(j, "gone")
  /\ job[j].status = "none" \/ worker[j].at \in {"begin", "project"} => made[j] = Nothing
  /\ worker[j].at \in {"check", "task", "member", "dep", "finish"} =>
       /\ made[j].project
       /\ made[j].tasks = 1 .. (IF At(j, "member") THEN worker[j].task ELSE worker[j].task - 1)
       /\ made[j].members = 1 .. worker[j].task - 1
       /\ made[j].edges = EdgesTo(worker[j].dep - 1)
  /\ worker[j].at \in {"check", "task", "member"} => worker[j].dep = 1 /\ worker[j].task \in 1 .. Size
  /\ worker[j].at \in {"dep", "finish"} => worker[j].task = Size + 1
  /\ At(j, "dep") => worker[j].dep \in 1 .. Len(Deps)
  /\ At(j, "finish") => worker[j].dep = Len(Deps) + 1

\* The goroutine of a job that says how it ended has no more to do, or has been
\* cancelled.
Stopped(j) ==
  /\ job[j].status = "completed" => worker[j].at \in {"leave", "gone"}
  /\ job[j].status = "cancelled" => j \in ctx \/ worker[j].at \in {"leave", "gone"}

\* A call that launches a job is alone with it; one that cancels it has stopped
\* its goroutine when it writes.
CallsOK ==
  \A p \in Procs :
    /\ call[p].at = "idle" <=> call[p].job = NoJob
    /\ call[p].at # "idle" => job[call[p].job].status # "none"
    /\ call[p].at \in {"launch", "launchAndPoll"} =>
         /\ At(call[p].job, "gone") /\ made[call[p].job] = Nothing
         /\ job[call[p].job].status = "pending"
         /\ \A q \in Procs \ {p} : call[q].job # call[p].job
    /\ call[p].at = "mark" => call[p].job \in ctx \/ At(call[p].job, "gone")

All == [project |-> TRUE, tasks |-> 1 .. Size, members |-> 1 .. Size,
        edges |-> EdgesTo(Len(Deps))]

\* A job that says completed has made all of its document, the tasks as members
\* of the project, and counts it; whatever was cancelled, refused or lost on the
\* way (import.go:282).
CompletedMeansAll ==
  \A j \in Jobs : job[j].status = "completed" =>
    made[j] = All /\ job[j].tasks = Size /\ job[j].deps = Len(Deps)

IInv == /\ TypeOK /\ CallsOK /\ CompletedMeansAll
        /\ \A j \in Jobs : InOrder(j) /\ Stopped(j)

\* A job that says cancelled creates at most what it was committing, and then ends:
\* who writes that has stopped the goroutine first, or is it (import.go:186, :225).
CancelledStops ==
  [][\A j \in Jobs : job[j].status = "cancelled" /\ made'[j] # made[j]
                        => j \in ctx /\ worker'[j].at = "fail"]_vars

\* While no write is lost and the process lives, every import ends: the goroutine
\* ends it, or leaves it to the caller that has cancelled it (import.go:201).
EveryImportEnds ==
  \A j \in Jobs : job[j].status \in {"pending", "running"} ~> job[j].status \in Ended
=============================================================================
