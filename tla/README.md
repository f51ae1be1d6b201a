# The task manager, specified

TLA+ modules of this repository's own logic, TLC configurations that check them
on small instances, and TLAPS proofs of what matters most for any number of
callers, runs, tasks and cases.

Paths below are relative to the repository's root. `PROJECT.json` maps every
definition to the lines it stands for.

## 1. The system

A Go library (`package mwanachamataskmanager`, with HTTP routes in `routes/`)
over one SQL database. It keeps no state of its own but a map of running
imports: every call is a handful of SQL statements, most of them outside a
transaction, so what can go wrong is what happens **between the statements of a
call**: another caller's statements, or the end of the process.

Three idioms recur, and each has its own hazard:

* *read, decide, save the whole row* (`saveRun`, `cancelTask`, `UpdateTask`):
  the row written may be older than the row it replaces;
* *read, decide, write under a condition* (`closeCaseIfSettled`, `EndCase`,
  `IncrementFailureBudget`, `recordVote`): the condition must cover what was
  decided on;
* *write one row, then walk over others* (cascades, `EndCase`, the rollback):
  the walk may be cut short, or work from a list that is out of date.

### Inventory

| Component | State | Operations | Interacts with | Hard part | Correct when |
|---|---|---|---|---|---|
| Lifecycles (`models/workflowrun.go`, `models/task.go`) | - | `CanTransitionTo`, `IsTerminal` | everything | paths that bypass the table | a status moves along the table or by a named exception |
| Workflow runs (`workflow_run*.go`) | `workflow_run` table | open, status, cancel, finalize, stop (restart), begin/answer step, close past limit, roll back, time out | tasks (cascade), cancel runs, budget columns of the same row | stale whole-row saves; crash between row and cascade | columns agree with the status; a closed run names its cancel run; an ended run is not revived; a rolled back run holds nothing |
| Tasks (`task_impl_task.go`) | `task` table | create, update, delete, list | runs, cases, assignments | the write re-checks `deleted` and nothing else | finished and deleted tasks stay so |
| Failure budget (`workflow_run_failure_budget.go`) | budget columns of a root run | set, charge, create recovery run | whole-row saves of the run calls | compare-and-swap with retries | a child is charged once; the budget, once settled, is frozen; an alarm is true |
| Cases (`case.go`) | `case`, `case_task` | open, link, close when settled, end | every call that writes a task | two tasks settle together; end against settle; crash inside `EndCase` | ends once, announced once, the last task to settle closes it |
| Case votes (`case_vote.go`) | `case_vote` | vote, take back, rank | cases | two callers cast one vote | the first `cast_by` stands |
| Assignments (`assignment.go`, `assignee.go`) | `assignment`, task columns | assign, hand over, unassign | runs, dependencies | three writes without a transaction | the history and the task agree |
| Dependencies (`assignment_unblock.go`, `relationship_impl.go`) | `depends_on` edges, `blocked` | block on assign, unblock dependents | tasks, assignments | lost wake-up between check and block | a task whose dependencies finished is not blocked |
| Keyed creation (`repeating_store.go`, `sourced.go`, `generated.go`; `upsertTagByName`, `agent.go`) | key tables, held events | start, stop, make due, open, generate, upsert | tasks, events | lost insert race; batches in opposite orders; a commit whose reply is lost; events after the commit | one thing per key, all answered alike; nothing announced that was undone |
| Code sequence (`codesequence.go`) | counter rows | `nextCode` | tags, todos | calls that race, or are undone | no code twice, none skipped |
| Import job (`import.go`) | `import_job`, map of running jobs | start, wait, cancel, the goroutine | projects, tasks, relationships | cancel against completion; restart | a completed job has made all; a cancelled one stops; it ends |
| Task rank (`task_rank.go`) | `rank` column | `PlaceTask` | tasks | no rank left between two cards | a card lands where it was put, the others keep their order |
| Task states (`task_state*.go`) | two layers of a setting | define, override, clear, move a card to a state | tasks | a search over the lifecycle table | the walk is legal and shortest |
| Projects, todos, tags, deliverables, agents | their tables | plain reads and writes | tasks | - | - |
| Overdue, failure recovery lists | - | reads | - | - | - |
| Events (`events.go`) | - | publish | everything | at most once, after the write | see cases |
| Store, schema, routes | - | construction, encoding, addresses | - | - | - |

`PROJECT.json` lists the same components with what is modelled of each, and the
hazards with the line where each bites.

## 2. Plan

The order is that of what the program would least survive getting wrong.

1. `Lifecycle`: the two status tables. **Done.**
2. `WorkflowRuns` (runs, their tasks, their cascades, rollback), its instances
   and `WorkflowRunsProofs`. **Done.**
3. `FailureBudget`, the abstract `BudgetCounter` it implements, and
   `FailureBudgetProofs`. **Done.**
4. `Cases` (with votes) and `CasesProofs`. **Done.**
5. `Assignments` (holders, their history, dependencies) and
   `AssignmentsProofs`. **Done.**
6. `KeyRegistry`, what claiming a key promises, and `KeyedCreation`, which
   implements it, with the code counters and the held events, and
   `KeyedCreationProofs`. **Done.**
7. `ImportJob`, the job's status against its goroutine, with a restart, and
   `ImportJobProofs`. **Done.**
8. `CardList`, what a board promises of its order, and `Board`: ranks, task
   states and the walk to a state; `BoardProofs`, and `WalkProofs` for the walk.
   **Done.**
9. Left: the watchdog's lists with a small page; overdue tasks.

Every module keeps parameters as CONSTANTS with named assumptions, and none has a
RECURSIVE operator.

## 3. The modules

### `Lifecycle`

The statuses, the two transition tables as functions from a status to the set
of next ones (`RunNext`, `TaskNext`), the end statuses, and the statuses that
only a rollback may ask for.

### `WorkflowRuns`

*State.* `run`, `task` and `todos` are the tables. A call under way is a frame:
which call (`op`), the statement it is about to run (`pc`), the run it is about
(`id`), the row it will write (`row`) and the task rows it listed (`seen`). The
frame is what the Go function holds in local variables, stale or not.

*Actions.* One action per statement. The first action of a call makes its read
and its early returns (`SetStatus`, `CancelRun`, `FinalizeCancel`, `StopRun`,
`BeginStep`, `AnswerStep`, `Sweep`, `RollbackRun`, `PurgeArtifacts`,
`RunTimeout`, `CreateTask`, `UpdateTask`, `TaskTimeout`, `OpenRun`), the others
(`Step`) carry on: `SaveRun` is `saveRun`; `ListTasks` and `CancelTask` are the
cascade; `FindCancelRun`, `InsertCancelRun` the cancel run of a closing;
`AcquireRollback`, `EnterArtifacts`, `CheckArtifacts`, `CommitArtifacts`,
`FinishRollback`, `FailRollback` the rollback and its transaction; `ExpireRun`,
`FailTask` the timeout; `WriteTask`, `LinkAgain` the end of an update. `Crash`
ends a call anywhere: what it wrote stays, an open transaction is undone.

*Folded.* `CheckArtifacts` is the list and the dependency reads of the
transaction in one step. `DeleteTask`, `LinkTask` and `LinkTodo` are a read and
a write that depends on nothing but it, in one step. The sweep's list is one
due run: its rows are treated independently, each a call from a row read
earlier. `LinkTaskToRun` inside the timeout's cascade rewrites the value just
written. Calls on a run id that names no run are left out: they return an error
and change nothing. Times are a flag: a step has a limit (`due`) or not; that
the limit has passed is the sweep's caller's choice of instant. Free text,
`paused_at` and the columns of the budget (see below) are left out, and so is
`closeCaseIfSettled` after a task's write (see `Cases`).

*One caller.* The last section of the module states what a call may rely on as
long as no other runs beside it (`Undisturbed`): the row it will save is the
table's but for what it sets, its list is the table's, a rollback's guard still
holds when it commits.

### `FailureBudget`, `BudgetCounter`

*State.* `run` holds the lineage and budget columns (`parent`, `root`,
`budget`, `used`, `counted`); per caller `pc`, `id`, `arg`, the row read
(`snap`), the compare-and-swaps lost (`attempt`) and the last `answer`.

*Actions.* `SetFailureBudget`/`WriteBudget`; `IncrementFailureBudget`,
`ReadCounter`, `Swap`; `Recover`, `MintChild`, `StampParentage` for
`CreateRecoveryWorkflowRun`; `ReadRow`/`SaveRow` stand for any call of
`WorkflowRuns`, which saves these columns too. `MaxAttempts` is
`maxBudgetAttempts` (16 in the code).

`BudgetCounter` is what a budget promises: a child is charged to a root at most
once, in one indivisible step. `CountsLikeACounter` states that `FailureBudget`
implements it.

### `Cases`

*State.* `cases`, `tasks`, `link` (`case_task`), `votes`; `announced` counts the
`case.closed` events; `call` is the frame of each caller. Two history variables
record what the code leaves undone: `unasked`, the tasks that settled and no call
asks for their case (settled before they were linked, or by an edit over a status
it had not read, or by a call that a crash cut off before it asked), and `untold`,
the ended cases whose announcement a crash dropped.

*Actions.* `OpenCase`; `LinkCaseTask`, `CheckTask`, `InsertLink`; every call that
writes a task and then asks whether its case is settled: `UpdateTask`/`WriteTask`,
`DeleteTask`/`DropTask`, `Cascade`/`CancelTask`, and `ResetTask`, which does not
ask; the question itself: `CaseOfTask`, `CaseLinks`, `ReadTask`, `CloseCase`;
`EndCase`, `MoveCase`, `CascadeDone`; the votes; `Crash`, which stops the whole
process.

*Folded.* The order in which the linked tasks are read is arbitrary. A cascade
works on any set of live unfinished tasks, since which tasks a run holds is
`WorkflowRuns`' matter; `Cascade` and `WorkflowRuns!CancelTask` are the two views
of one loop. A publication is one step with the write it follows: it is what the
write decides. The case of a call under way is one field, shared by `EndCase` and
the `closeCaseIfSettled` of the tasks it cancels; `Fits` proves they are the
same case. Tasks exist from the start: creating one touches no case.

*One caller.* `Undisturbed` is what a call may rely on when no other runs beside
it: `EndedHasNoOpenTask`, and for each statement that what was read still holds
(`Steady`).

### `Assignments`

*State.* `task` (status, holder, its kind, whether `held_by` is set, deleted),
`deps` (the `depends_on` edges), the `assignment` table as `open`, the number of
open stretches of each task and holder, and `past`, the holders whose stretch
has ended; `completed` are the `task.completed` events whose handler has not
run. `dispatched` and `early` are history variables: whom `task.assigned` was
published to, and which tasks it was published for while a dependency was open.

*Actions.* The three calls that hand a task over (`AssignTask`,
`AssignTaskToHolder`, `UnassignTask`) share `CloseStretch` and `WriteHolder`; the
first two go on to `InsertStretch`, and `AssignTask` to `CheckDeps` and
`BlockTask`. `UnblockDependents` walks the dependents: `ReadDependent`,
`CheckReady`, `Release`, `DependentsDone`. Every other write of a task is here
too, for it may undo what these wrote: `CreateTask`, `UpdateTask`/`SaveTask`,
`UnblockTask`/`ReadAgain`, `CancelTask`/`WriteCancelled`, `DeleteTask`, and the
`assigned_to` edge (`Relate`).

*Folded.* `findUnmetDependencies` and `findActiveBlockers` only read and are one
step each. A publication is one step with the write it follows. Persons and
roles are one kind, `other`: nothing here tells them apart. The handler that
calls `UnblockDependents` is outside this repository; that it does so for each
`task.completed` is what `assignment_unblock.go:17` says of it.

*One caller.* `Current(p)` says that the statuses and dependencies p has read
still hold, `Owner(p)` the same of the holder and that a hand-over finds no
stretch open; `AgentsWait` and `ToBeReleased` that a blocked task has an agent
and, if it waits for nothing, is about to be released.

### `KeyRegistry`, `KeyedCreation`

*State.* `row` is the committed thing of each key, whatever its kind (a
repeating task's period, a sourced item, a generated subject, a tag, an agent, a
todo); `code` and `counter` the codes; `tasks`, `template` the tables beside
them; `call` the call under way with what its transaction has inserted and not
committed. `told`, `opened`, `answers`, `lost` are history variables: the events
published, who was told it made a thing, what callers were answered, and the
tasks whose events a crash or an unheard commit dropped.

*Actions.* `MakeRepeatingTaskDue`, `OpenSourcedTasks`, `GenerateTasks`,
`UpsertTag`, `UpsertAgent`, `CreateTaskTodo` begin; `Find`, `Number`, `Create`,
`Insert`, `Commit`, `Tell`, `Again` are their statements. `Fail` is a refused
statement, `CommitUnheard` a commit whose reply is lost, `Crash` the end of the
process. Uncommitted rows are in the call's record, so undoing a transaction is
dropping it. The database is modelled from how the code uses it: whoever inserts
a key that an uncommitted transaction holds, or advances its counter, waits
(`WaitsFor`), and one of the calls that wait in a circle is undone (`Victim`).

*Abstract.* In `KeyRegistry` a call takes all the free keys it names in one
step. `KeepsRegistry` states that `KeyedCreation` implements it.

*Folded.* `CreateTask` and `AssignTaskToHolder` inside a transaction are one
step, since nobody sees between them. `nextCode`'s three statements are one: the
first of them takes the lock. The schedule's period comes from another
repository and is the key itself. A caller that begins again after its
transaction was undone may take the same id, which no row has kept. The update
of an agent that exists, and the seed of the counter left behind by no commit,
are not told apart from nothing.

### `ImportJob`

*State.* `job` (the rows), `made` (what each import has created), and what lives
in the process: `entry` (the map), `ctx` (the cancelled contexts), `worker` (the
goroutine's next step) and `call` (the callers).

*Actions.* `StartImportProject`/`Launch`, `Poll`, `GiveUp`,
`CancelImportProject`/`Signal`/`Mark` for callers; `MarkRunning`,
`CreateProject`, `Check`, `CreateTask`, `AddTaskToProject`, `AddDependency`,
`Finish`, `FailImportJob`, `WriteCancelled`, `Leave` for the goroutine.
`Creates` is a step that commits rows: once the context is cancelled it may
still have committed. `Refused` and `StatusLost` are errors of the database,
`Crash` empties the process. A document is a number of tasks and a list of
edges; `DocValid` is what `validateImportDoc` lets through.

### `Ordering`, `CardList`, `Board`

*State.* `card` (status and rank of each task), `older` (the order of
`created_at` and id, as pairs), `definition` and `override` (the layers of the
setting `task_states`), `call`.

*Actions.* `CreateTask`, `DeleteTask`, `UpdateTask`/`Save`;
`PlaceTask`/`WriteRanks`, the transaction's read and its commit;
`MoveTaskToState`/`Step`/`Save`, an update per status of the walk;
`DefineTaskStates`, `OverrideTaskStates`, `ClearTaskStatesOverride`. The pure
parts are operators. For ranks: `Before` is `taskOrder`, `Preceding` the cards
that `insertionIndex` puts before the one that moves, `RankAt` the rank between
those and the rest when there is `Room`, `Renumbered` the rows that `renumber`
writes, each with its `Place` times `Gap`. For states: `Parses`, `Mapping`,
`StatusPathToState`, whose loop is `Search`, a function from the number of a round
to what is known after it (`Round`: each status found, the one it was found from, and
those of the last round in their order), and which ends with `Best` and `WalkBack`. The list of cards in the
code is here the relation that sorts it, and an index in it the set of the cards
before it: that is what lets the ranks be reasoned about for any number of cards.
`Ordering` says what a linear order is, and how a member is put in or taken out.

`Sent` are the ranks that a caller may send in the row of an update besides the
one the card has: a caller that updates a row it read sends the same, a caller
that builds the row itself sends any, and `UpdateTask` writes it.

*Abstract.* `CardList` is a list, as which card comes before which, in which a
card goes directly beside the one that was named; `KeepsCardList` states that
`Board`'s order implements it. `WalksAreShortest` compares the search with a
definition by reachability (`Within`, the statuses within so many transitions), and
`ShortestWalk` says it of one status and one list of statuses.

## 4. The runs

| Run | Module | Shows |
|---|---|---|
| `runs_serial` | `MCWorkflowRuns` | every operation, one caller, crashes anywhere: legal status moves, a rolled back run is clean |
| `runs_concurrent` | `MCWorkflowRuns` | two callers at every statement, crashes: the inductive invariant, kept versions, `closed` from the sweep alone |
| `runs_settle` | `MCWorkflowRuns` | two runs, two dependent tasks, fair, a page of one task: a rollback always settles; foreign dependencies are kept; what a cascade leaves is beyond a full page |
| `budget` | `MCFailureBudget` | three scenarios (below): charged once, refinement, every charge returns, no false alarm, what has settled stays |
| `cases` | `MCCases` | four scenarios (below) |
| `assignments` | `MCAssignments` | four scenarios (below) |
| `creation` | `MCKeyedCreation` | ten scenarios: the kinds of key at stake, with and without crashes and unheard commits: the invariant, the registry, gapless codes, events published, every call returns |
| `imports` | `MCImportJob` | one import of three tasks, three callers: the invariant; a cancelled import stops; every import ends |
| `board` | `MCBoard` | one caller placing three cards, or one card and its states: the list, the walks |
| `runs_closed_final` | `MCWorkflowRuns` | violated: a stale save revives a closed run |
| `assign_dependents_waiting` | `MCAssignments` | violated: a task waits for good for one that a cascade cancelled |
| `board_update_moves_card` | `MCBoard` | violated: an update moves a card |

`CHECK_DEADLOCK` is off everywhere: names are finite, runs and cases end, and a
program nobody calls stops.

### Bounds, and why they are enough

* *Callers.* Two in most runs: each hazard found or excluded is between a call that read and
  one that wrote since. `budget` has three, so that a charge can lose twice, `creation`
  three where items or tags are at stake, so that calls wait in a circle of three
  and the loser of a race meets a second winner, and `imports` three, so that two
  cancel while one waits.
* *Runs.* A run and its cancel run; two ordinary runs for dependencies; a chain
  of three for the lineage (root, child, grandchild). `CancelName` gives a
  cancel name to one run only, so the closing of cancel runs is cut off there.
* *Tasks.* One per run suffices for the cascade, whose steps do not depend on
  each other; two where tasks depend on each other, settle together or are more than
  a page.
* *`PageSize`.* 1 in `runs_settle`, which has two tasks: the page is full with a finished
  task or an unfinished one, and either may be left out. Elsewhere 3, above the number
  of tasks: see "a page" in section 7.
* *`MaxAttempts`.* 3 in place of 16: the third loss is the refusal.
* *`TaskMoves`, `Moves`, `OpenNames`, `Budgets`, `Children`, `Ops`.* What callers
  ask for; each `.cfg` lists them, and the passing runs together issue every
  operation. `Ops` is how a run that is about races leaves out the operations
  whose races are counterexamples already shown.
* `MCCases` chooses a scenario at the start: `settle` (two callers, one case, two
  tasks), `upset` (the same over one task, with crashes, resets and edits),
  `vote` (two callers voting on and ending one case) and `one` (one caller, two
  cases, crashes anywhere). `MCFailureBudget` has `race` (three callers
  charge one root while it gets its budget), `lineage` (one caller, every operation) and
  `budgets` (two callers with two budgets, recoveries and saves, no charges: a save would
  lose them).

* `MCAssignments` chooses among `wait` (one caller, two tasks, one of which may
  wait for the other; nobody blocks by hand, takes a task from its holder or
  drops an edge), `hands` (one caller over one task, crashes anywhere), `race`
  (two callers; a finished dependency stays so, and edges are added between
  calls) and `any` (one caller, every operation). `Careful`, `Waiting` and
  `Settled` name what each leaves out, and section 7 what happens without it.
  One holder that is an agent and one that is not are enough: what the code asks
  of a holder is whether it is an agent.

* `MCKeyedCreation` has two periods of one repeating task, two tags, two todos, an
  agent, a subject and three items in batches of two that name them in opposite
  orders and in a circle. With three callers each begins at an item of its own,
  which leaves out only renamings.
* `MCImportJob` has one job (jobs share nothing; the proof is for any number),
  three tasks and two edges. `lossy` says whether status writes are lost and the
  process dies.
* `MCBoard` has a `Gap` of 2 in place of 65536, so that a second card between two
  finds no room, and ranks within `MaxRank`, which leaves room for three
  placements beyond each end. The cards' names follow `created_at` in `order`,
  which leaves out renamings. `MCValues` are a refused value and two legal ones
  whose states lie on different ways. `states` reaches every status, so walks are
  checked from all of them.

### Fairness

In `WorkflowRuns` and `FailureBudget`, `FairSpec` has `WF_vars(Step(p))` for each caller: the Go scheduler and the
database serve the next statement of a call that is under way. No caller owes a
call, so no `Call` is fair. Liveness is checked where it is claimed: a rollback
leaves `rolling_back` (`runs_settle`, without crash: after one nothing takes the
call up) and a charge returns (`budget`).

`ImportJob` has weak fairness for each caller's `Runs` and each goroutine's
`Works`. `KeyedCreation` has strong fairness for each caller's statements, since a
statement that waits for a lock is enabled and disabled as the lock changes hands:
the database serves those that wait for a lock in the order they came. Its deadlock
detection is weakly fair (`Victim`). Calls, refused statements and crashes are
nowhere fair.

## 5. The properties

* `IInv` of `WorkflowRuns` (`RowsCoherent`, `CancelRunExists`): whatever stale row is saved, `under_way`
  agrees with the status, the limit comes with its cancel workflow, and a closed
  run names a run that exists under its own `-closed` name.
* `VersionKept`, `ClosedOnlyBySweep`: no save changes what a run runs, and no
  call but the sweep closes one.
* `CascadeComplete`: one caller. A cascade that has ended left nothing unfinished, or
  only what lies beyond a full page of the tasks the run holds (`BeyondPage`): it skips
  no task it could see, and a list that is not full has them all.
* `LegalRunSteps`, `RolledBackIsClean`: one caller (section 6 says
  what they rest on). Several
  operations set a status without consulting `CanTransitionTo`; together they
  still only move along it, but for `StopWorkflowRun`, the named exception.
* `RollbackSettles`, `ForeignDependencyKept`.
* `ChargedOnce`, `RetryMeansProgress`, `CountsLikeACounter`, `ChargeReturns`,
  `AlarmsAreTrue`, `OneCallerRootsAlone`. The last two hold as the run bounds callers: one
  value of the budget where calls charge, one caller for the lineage. `RetryMeansProgress`: a charge
  loses no more often than the counter moved. `AlarmsAreTrue`: an answer that says
  `exhausted` is true of the counter and the budget in the table, whatever was written
  since the charge read them, and only a charge that read no budget misses an alarm.
* `BudgetSettles`: two callers, two budgets, recoveries and saves. A budget that is set
  can be overwritten, and a child can get one, but only by a call that read the row
  before: `Settled` says that no such call is left, and from then on the budget is what
  it is for good. `BudgetFrozen`, the sentence of `SetFailureBudget`'s comment, is stronger
  and false of racing calls (section 7); no run checks it, and section 6 proves it for
  one caller.
* `EndedStaysEnded`, `AnnouncedOnce`: any calls, crashes included.
* `NothingLeftOpen`: the last task to settle closes its case
  (`SettledCaseIsClosed`), and a closed case is told (`EndIsTold`), in every
  scenario; the exceptions are named: an `unasked` task, an `untold` case. The
  argument: each call writes its task before it reads the others, so of two calls
  the one that writes last reads the other's task settled.
* `OneCallerLeavesNoOpenTask` (`EndedHasNoOpenTask` in `one`): a case that ended and
  was told has no open task, wherever a crash falls. `FirstVoteStands`.

* `NobodyWaits` (`WaitersReleased` in `wait`): with no call under way and every
  `task.completed` handled, no task that an agent holds is blocked with all its
  dependencies finished, whatever order assigning, finishing and delivery took.
* `NobodyTooEarly`: no agent is told of a task with an open dependency, also when
  two callers race.
* `HolderInHistory` (`HolderRecorded`): whoever a task names, and whoever was told
  of it, is in its history or about to be; the stale rows of updates, releases
  and cascades name nobody the history does not know.
* `OneCallerHistory` (`HistoryNeverLies`): one caller, crashes anywhere: at most
  one open stretch, and it is the named holder's.
* `HeldWhileBlocked` (`HeldOnlyWhileBlocked`), `OneCallerLegal`: `setTaskStatus`
  and `cancelTask` write a status without asking `CanTransitionTo`; with one
  caller the statuses still move along it.

* `IInv` of `KeyedCreation` (`AnsweredAlike`): however many callers ask for a key,
  and however their transactions end, one is told it made the thing and all are
  answered with the row in the table. `TasksHaveKeys`: no task without its key, no
  key without its task. `LostRaceFindsRow`: who lost a race finds the winner's row
  at its second look.
* `TaskEventsPublished`: an undone transaction announces nothing, and nothing is
  announced twice (`ToldOfCommitted`); each event of a task in the table was published,
  is held by the call that committed it, or was dropped with `lost` (`NothingUnsaid`).
* `CodesGapless`: the codes in the tables are 1, 2, 3 and so on, each once.
* `KeepsRegistry`, `CallsReturn`: a batch takes effect in one step, also when others
  race for some of its keys, and no call waits for good.
* `IInv` of `ImportJob` (`CompletedMeansAll`): an import that says it is completed has
  created all of the document and counts it. `CancelledStops`, `ImportsEnd`.
* `KeepsCardList`, `WalksAreShortest`: see above. `OwnStateIsHere`: a card moved to the
  state it reads as stays where it is.

## 6. The proofs

All for any finite or infinite sets of callers, runs, tasks, cases, keys, jobs
and members (but for `CascadesComplete`, which counts tasks), from the named assumptions
on the constants alone. Each is an
inductive invariant (stated in the component's module, checked by TLC there or as
its parts), one lemma per action, and PTL at the end. Every invariant, action property
and refinement that a passing run checks is a theorem; only liveness is not.

Two kinds of hypothesis come up, and each is what the code needs, not what the
prover needs. *One caller* (`\A p, q \in Procs : p = q`, or a scenario of the
checked specification in which only `p1` calls) stands wherever the code reads,
decides and then writes without a condition: section 7 lists the race that breaks
each such property. *An operation left out* (`"save" \notin Ops` and the like)
stands where that one call breaks the property, and section 7 says how.

**`WorkflowRunsProofs`.** For any callers: `Invariant`, `TypeCorrect`,
`RowsStayCoherent`, `CancelRunIsOpened`, `VersionIsKept`, `OnlyTheSweepCloses`.
`RowsCoherent` is not inductive: the rows callers hold matter as much as the
table. `FramesOK` says of each call, by the statement it has reached, that the row
it will write is coherent in itself (`Sound`), has the workflow and the version of
the row it will replace (`ReadFrom`), and, if closed, names a run that exists
(`OpenedFor`). A frame stays right while others run because the table only
`Grows`: no step removes a run or changes its workflow or version
(`FrameStable`).

For one caller, crashes included: `RunsMoveLegally`, `CascadesComplete`,
`RolledBackRunsAreClean`, `ForeignDependenciesKept`. None of them follows from what
a call checks where it writes: it checked the row it read, at an earlier statement.
`Undisturbed` carries the check forward: the row about to be saved is a legal move
of the row in the table (`SavesLegally`), the rows listed are of tasks that exist
(`SeesRows`), the cascade has every unfinished task of its run, each as it is, but for those beyond
a full page (`SeesUnfinished`), the guard of a compensation holds when it commits
(`GuardHolds`). `CascadesComplete` is for any page size and any finite set of tasks:
what a page leaves out can then be counted (`MissingBeyond`). `ClosedStaysClosed` proves
for one caller the sentence that `runs_closed_final` refutes for two: the fault is the
race and nothing else.

**`FailureBudgetProofs`.** For any callers: `Invariant`, `TypeCorrect`,
`EachChildOnce`. Every row, in the table or in a caller's hands, is `Tallied`: its
counter is the number of its counted children. A charge never holds a row that
counts its child, so the swap adds one to both sides.

Where no call saves whole rows (`"save"` is not among `Ops`): `ImplementsCounter`
and `Progress`. What a charge has read is contained in what the table holds
(`Behind`); if the counters are equal then so are the sets, and the swap is one
`Charge`. Beside it, `Paced`: the attempts a charge has lost are no more than the
counter it read, which is why the attempts run out only if as many other charges
went through.

`ExhaustedMeansIt` proves `AlarmsAreTrue`, for any callers and with saves, from
`BudgetFrozen`: a charge that has read a row has read its budget or read that there is
none (`BudgetSeen`), and its swap wins only over the counter it read. What the flag
leaves open is the budget that is set between the read and the swap: that one charge
answers as if there were none. `BudgetFrozen` itself is proved for one caller, below; two
callers with two budgets break it (section 7).

`BudgetsSettle` proves `BudgetSettles` for any callers, any budgets and every operation,
with no hypothesis. What makes it hold is that every way to write a budget starts with
a read (`SetFailureBudget` refuses on it, a save writes it back), so a call that begins
after the budget is settled cannot change it (`SettledWrite`), nor become one that can
(`SettledKept`). For a child the stamp must stay: who stamps has a parent to stamp
(`HasParent`).

For one caller: `BudgetStays`, saves included (`HeldRow`: what was read is in the
table until it is written back), and `ChildrenHaveNoBudget` (`RootsAlone`, which the
run checks in the scenario of one caller), where `LineageOK`
makes the property inductive and `ToStamp` says that nobody names a child its root
before it is stamped. The latter assumes that the coordinator finds the root itself
(`GivenRoots = {}`): `CreateRecoveryWorkflowRun` believes a root it is given.

**`CasesProofs`.** For any callers, crashes anywhere: `TypeCorrect`,
`CaseAnnouncedOnce`, `CasesEndOnce`, `NoCaseLeftOpen`, `VotesStand`.
`AnnouncedOnce` speaks of the calls that owe an announcement, which makes it nearly
inductive: a case moves out of `open` once, under a condition, and the call that
moved it either tells at once or owes it. `Fits` adds that the tasks an `EndCase`
reads and cancels serve its case, so that the settle inside its cascade does not
lose what it owes.

`NoCaseLeftOpen` is the argument a reviewer would have with the code. `Settling`
says that a case that is open with all its tasks settled always has a call on the
way that will close it (`Checks`): one that has yet to look up the case, or to list
its tasks, or is reading them and has met none open. Reading goes by the tasks left
to read, so a task that settles behind the reader is no matter, because the call
that settled it is then itself a `Checks`. The exceptions are named in the
property (`unasked`, `untold`), each at a line of the code.

For one caller without a rollback's reset: `EndedCasesHaveNoOpenTask`, and the same
of the checked specification, `OneCallerEndsCleanly`. `Undisturbed` says for each
statement that what was read still holds, and that the tasks an `EndCase` found open
stay on its list until they are cancelled.

**`AssignmentsProofs`.** `TypeCorrect` for any callers: `Fits` says what a call
holds at each statement. The others come as a theorem about `Spec` with its
hypothesis spelled out, or about the specification that TLC checks (`MCSpec`, over
tables of any size, from `p1 \in Procs`), or both.

* `HeldLivesInBlocked`, `CheckedHeldLivesInBlocked`: inductive beside `Fits`,
  because the row an update saves obeys it by itself. The cascade (`"cancel"`) and
  tasks created held are left out, which break it.
* `EveryHolderRecorded`, `CheckedHolderRecorded`, for any racing callers: `Knows`
  says that a holder a call has read, or is about to tell, is already in the
  history, and `KnownStays` that a holder in the history stays there, since closing
  a stretch keeps its holder and the caller that owes a stretch pays it.
  `HandedOverOnly` names what is left out: tasks created with a holder, the
  `assigned_to` edge, and crashes.
* `TasksMoveLegally`, `CheckedTasksMoveLegally`, one caller: `setTaskStatus` and
  `cancelTask` never ask `CanTransitionTo`, and `Current` says that the status they
  went by is still the task's. `ToldInTime`, `CheckedToldInTime`: no agent is told of
  a task while a dependency is unmet, with one caller, or with several that leave
  finished tasks alone and add no edge under a task on its way.
* `CheckedHistoryNeverLies`, one caller: `Honest` alone is not inductive; `Owner`
  says that a hand-over that is past its first write finds no stretch open, and that
  an update carries the holder and the kind the table has.
* `CheckedWaitersReleased`, one caller: a blocked task that waits for nothing has a
  `task.completed` on its way, or is on the list of the call that handles one
  (`ToBeReleased`), and whoever reaches it finds an agent (`AgentsWait`), so it is
  released and not refused. `Current` closes the window between the read of the
  dependencies and the write of `blocked`, which is the lost wake-up of section 7.

**`KeyedCreationProofs`.** For any callers, crashes, refusals and unheard commits:
`Invariant`, `TasksAndKeys`, `LostRaces`, `EventsPublished`, `Codes`, `Registers`.
The invariant is the `IInv` that the run checks: the rows of a call that has not
committed are its own (`KeysExclusive`: the keys two calls hold are disjoint, which
the unique index gives), what it has found or made is what the table has or will
have (`OutcomesOK`, `RowsOfKeys`), its tasks are in nobody's table (`TasksOK`), its
events are those of what it made (`EventsHeld`), and its number is the next of its
counter (`NumbersOK`), which one call at a time can hold. The proof regroups these by
call: `CallOK` says everything about one call, `Apart` everything about two, and
`TablesOK` the rest, so that a step has to be followed for the one call that takes
it and its pairs. `Registers` is the refinement: a commit is one claim of
`KeyRegistry`, of all the keys the call inserted, and the keys of its request that it
did not insert were taken (`CommitClaims`); every other step leaves the registry
alone. That no two callers are told they opened the same thing, and that all are
answered with the same one, is `AnsweredAlike` in the invariant.

**`ImportJobProofs`** (`Invariant`, `Completed`, `Cancelled`), from `JobsValid` and
`DocValid`: any number of tasks and any list of edges between them. What completion
promises is about the last write, so the invariant follows the goroutine: `InOrder`
says that at each step it has made exactly what lies before it in the document.
`Stopped` and `CallsOK` make the cancel right: a call that is about to write
`cancelled` has cancelled the context, or found no goroutine; and none can appear
later, because a job is launched by the one call that inserted its row, before
anybody knows its id. `Cancelled` then follows step by step: with the context
cancelled the only step that creates rows is the one under way, and it leads to
`fail`.

**`BoardProofs`** (`Invariant`, `OwnState`, `ListKept`), from `RanksAreNumbers` and
`NoCardIsNone`: any gap, any number of cards, any ranks given at creation. By rank and
then by age the cards are in a linear order (`OrderLinear`), whatever ranks are equal,
because ages are (`IInv`). A finite set of cards in that order has a first and a last
(`LastExists`, `FirstExists`: the one with the largest set before it), so `RankAt` has
something to lie between. `OwnState` follows from what `ParseTaskStates` refuses:
a name or a status that appears twice (`SettingsParse`; `DefaultParses` for the list
that is in force before anything is stored).

`ListKept` is the refinement. The cards of `Preceding` are a cut of the order
(`PrecedingCut`). With room, the rank is between the last of the cut and the first of
the rest (`RankBetween`); without, the new ranks ascend along the cut, the card and the
rest (`PlacesAscend`, from `AheadGrows`: a later card has more before it). Either way
the order afterwards is the old one with the card taken out and put at the cut
(`WriteRanksMoves`), which is `CardList`'s `Place`. All else leaves the order alone, or
adds or drops one card. Two hypotheses are in the theorem, and the code needs both:
`OneCaller`, because `place` reads the cards and writes ranks computed from what it
read, and no row is locked in between, so that another placement's ranks may already
be written when its own are; and no rank
in `Sent`, because an update writes the rank its caller sends
(`board_update_moves_card`). Under them a call's read still holds at its write
(`Current`). TLC finds `IInv` and `Current` true on the instance of `board` as well;
the run does not list them, since what they are for is `KeepsCardList`.

**`WalkProofs`** (`ShortestWalks`, `SearchIsOver`), from `ValuesAreLists` alone: whatever states an
owner names, and whatever a card's status, `MoveTaskToState` takes a shortest legal
walk, or refuses because there is none. The graph of transitions is the code's
(`models/task.go:58`); the lists of states are any. The search is a recursive function
over rounds, and induction over it is done with sets: `Induction` says that a set of
numbers that has 0, and n + 1 with each n, has them all (from the least number it would
lack), and each lemma applies it to the set of the rounds that are as they should be.

The argument is that of a breadth-first search. `Layers`: what takes n + 1
transitions and no fewer is what those that take n lead to, less what is within n.
`RoundSearched`: a round goes from one layer to the next (`Searched`: `previous` has
exactly the statuses within n, `last` lists exactly those of the n-th layer, and each
status has its predecessor one layer before). The order of `last` must not lose any:
`SortedHas` says that a finite set sorted by keys that are all different has every
member in the list, since the number of smaller keys is an injection into as many
numbers. `SearchEnds`: the rounds stop at the first layer that has a status of the
target, or go through all of them. `SearchIsOver` says that eight rounds are all there
are, as the loop in the code has no count: a layer that is not empty adds a status, and
there are eight (`LastLayerEmpty`). `WalksBack`: from a status of the n-th layer,
following `previous` gives a legal walk of n steps. `BestIs` adds that the last status
is the one of that layer that the target lists first.

Only model-checked: liveness (`RollbackSettles`, `ChargeReturns`, `CallsReturn`,
`ImportsEnd`), which is out of the prover's reach, as `ENABLED` is.

## 7. Where code and documents disagree

Three runs keep a counterexample to a sentence of the documents; `findings` in
`PROJECT.json` quotes each. Others met while modelling, kept here in prose:

* **A rollback that is answered.** `AnswerWorkflowRunStep` accepts a run that is
  `rolling_back` and saves the row it read after the rollback wrote `rolled_back`:
  the run is rolling back for good, which
  `documentation/2. design/concurrency-and-sequence.md:115-118` says nothing in the
  API can produce. `RollbackSettles` is therefore of one caller.
* **A cancel run of another workflow.** `step-time-limit.md:54-58` takes a cancel run's
  name that exists for one an earlier sweep opened before it failed. If that sweep
  died, and the run then began another step with another cancel workflow, the next
  sweep reuses the run of the old one (`workflow_run_step_limit.go:147`).
* **A deleted task comes back.** `cancelTask` writes the listed row whole, `deleted`
  included, `WHERE id = ?` alone: a task deleted since the list was read is there
  again, cancelled; one completed since is cancelled too.
* **A task is linked to a case that ended** between `LinkCaseTask`'s check
  (`case.go:108`) and its insert, although `cases.md:57` says that is refused.
* **A cancelled import is called failed.** `CancelImportProject` cancels the context
  and writes `cancelled`; the goroutine's step then fails and it writes `failed` over
  it, or it was at its last write and says `completed`, against the order given at
  `models/importjob.go:26-29`. A cancelled import may also still commit the rows it
  was creating.

* **A finished task moves.** `UpdateTask` checks the transition on the row it
  read (`task_impl_task.go:96`) and writes `WHERE id = ? AND deleted = false`:
  of two callers that read `in_progress`, one completes the task, the other then
  cancels it.
* **Two rollbacks at once.** `RollbackWorkflowRun` takes `rolling_back` as a
  lock, but by a read and a later unconditional save: both pass.
* **A charge is lost.** Any `saveRun` writes back the budget columns it read:
  a charge made in between disappears (counter and counted children together,
  which is why `ChargedOnce` still holds).
* **`Exhausted` may be old.** It is computed from the budget of the read, while
  `SetFailureBudget` may write one before the swap: that charge misses an alarm. The
  opposite does not happen as long as a set budget stays (`ExhaustedMeansIt`).
* **A page.** The cascade lists `maxListPage` (500) tasks whatever their status, so a
  run with more of them may keep unfinished ones when it has ended, even if fewer than a
  page are unfinished. `CascadeComplete` excepts what lies beyond the page.
* **A child taken for a root.** Between `CreateWorkflowRun` and the stamp of the
  parent a recovery run looks like a root; `SetFailureBudget` may give it a
  budget, as may a call that read it before the stamp, and no other (`BudgetsSettle`).
* **A run past its timeout that may not fail.** `HandleRunTimeout` asks for
  `failed`, which a pending or cancelling run refuses: the handler returns the
  error and the run and its tasks stay as they are.
* **An edit writes an old status back.** `UpdateTask` with an unchanged status
  writes `completed` over a task reopened since, and asks no case, because the
  status did not change as far as it read. The case stays open with all its
  tasks settled; so it does when a settled task is linked to it (`unasked`).
* **A crash inside `EndCase`** after the move leaves open tasks under a
  cancelled case, unannounced, and `EndCase` again is refused (`untold`).
* **A timeout leaves tasks.** `workflow_run_watchdog.go:69-70` says it cascades to
  the tasks that have not ended; `UpdateTask` refuses `failed` for a task that is
  pending, blocked or awaiting direction, and the loop skips it.
* **A frozen budget** (`workflow_run_failure_budget.go:16-17`) is refused on a
  read and written without a condition: of two callers that set one at once the
  second overwrites the first, and a save of a row read before it was set undoes it.
  Once those calls are through it is frozen (`BudgetsSettle`).
* **A lost wake-up.** `AssignTask` reads the dependencies, then writes `blocked`.
  If the last of them finishes in between, its `UnblockDependents` finds no
  blocked task, and nothing looks again. So it is for a task that is given an
  agent only after its dependencies finished while it was blocked and held by
  nobody: `AssignTask` publishes `task.assigned` and leaves it `blocked`.
* **A deleted dependency** is unmet for good, and a cycle of `depends_on` edges is
  not refused.
* **A hand-over cut short** (a crash after `assignee.go:49`) leaves a holder
  without a stretch; two at once may leave two open stretches. An `assigned_to`
  edge writes the column with no stretch and no kind, although
  `documentation/2. design/assignees.md:46` says every hand-over writes an
  `assignment` row.
* **`assignee_kind` comes from the argument** of `UpdateTask`, `assigned_to` from
  the row: an update by a caller that read the task before a hand-over leaves
  the new holder with the old kind.
* **`held_by` survives** `cancelTask` and the rollback's reset, and `CreateTask`
  stores one on a pending task; `held-by.md` says any write that leaves the task
  in another status clears it.
* **A dependent held by a role** is "released but not dispatched" in
  `assignees.md:54`; `GetAgent` fails before the status is written, and it stays
  blocked.
* **`UnblockTask`** accepts a task in progress, although its comment says it is
  refused unless blocked.
* **`AssignTask` with a run that is unknown** writes the task's run before
  `LinkTaskToRun` refuses it.
* **`ImportProject` given up** (`import.go:93`) means to cancel the import, but
  `CancelImportProject` first reads the job with the context that is done: the read
  fails, and the import goes on.
* **Imports and restarts.** The map of jobs is one process's: cancelling in another, or
  after a restart, writes `cancelled` and stops nothing there; a job whose process died
  stays `pending` or `running`. The answer of `ImportProject` is the project found by
  name, which need not be the one imported.
* **Lost races that are errors.** `UpsertAgent`, `OpenSourcedTasks` and `GenerateTasks` do
  not look again when an insert lost to another's: the call fails as a whole, and
  succeeds when it is made again.
* **A tick that read a running template** makes its period's task also when the
  template is stopped before it commits.
* **Held events are lost** when the process dies, or the commit's reply does, after the
  commit.
* **New cards are not at the bottom.** `taskmanager.blueprint.json:155` has a rank minted
  at the bottom on creation; `CreateTask` stores the caller's rank, and nothing calls
  `nextRank` (`task_rank.go:21`). With the default 0 a card is at the top, or among
  those that were never placed.
* **Two placements at once** each compute from the order they read; when both
  renumber, the order may be neither's.
* **Votes** are checked and cast in two statements, as links are: a vote may
  land on a case that ended.

## 8. Not modelled

Two details are simplified, and no property tells them apart. `CheckDeps` of
`Assignments` is one step with the publish that follows it. In `ImportJob` a commit
that goes through although its context was cancelled while it ran (`Creates`) leads to
the failure path; in the code the statement after it takes over: it fails, the loop's
check writes `cancelled`, or, after the last edge, the job is called completed.

Events other than `case.closed` and those a transaction holds back (the others are
published after the write they tell of); `TouchWorkflowRunLastEventAt` and
`MarkTimeoutPublished` (one column each that nothing here reads); lists, filters,
traversals and lineage walks, the ranking of cases by votes, overdue tasks and the
failure recovery template (reads, which nothing races with); the updates of one
project, todo, deliverable or acceptance criterion by its id; the calendar of a
schedule (another repository's); encoding of rows, table names and schema; HTTP
routes. Statements that fail (a lost connection) are modelled in `KeyedCreation` and
`ImportJob`; elsewhere only as crashes between statements. The watchdog's lists, which
cut at 500 rows before they drop the runs that have ended
(`workflow_run_watchdog.go:24`), are left out as reads; a model of them needs more
rows than the page.
