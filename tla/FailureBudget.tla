---------------------------- MODULE FailureBudget ----------------------------
(***************************************************************************)
(* The failure budget of a run's lineage (workflow_run_failure_budget.go): *)
(* recovery runs are children of a root run, and every recovery is charged *)
(* to the root's counter under a compare-and-swap.                         *)
(*                                                                         *)
(* Each call is its statements, as in WorkflowRuns.  SaveRow stands for    *)
(* the calls of that module: they read the run, these columns included,    *)
(* and write the whole row back.                                           *)
(***************************************************************************)
EXTENDS Integers, FiniteSets

CONSTANTS
  Procs,        \* concurrent callers
  Runs,         \* run ids
  Children,     \* the child run ids that charges name
  Budgets,      \* the budgets callers set
  MaxAttempts,  \* maxBudgetAttempts
  NoRun,        \* the empty run id
  GivenRoots,   \* the root ids callers pass to CreateRecoveryWorkflowRun (a bound)
  Ops           \* the operations callers issue (a bound)

ASSUME EmptyId == NoRun \notin Runs
ASSUME BudgetsAreInts == Budgets \subseteq Int
ASSUME Attempts == MaxAttempts \in Nat \ {0}
ASSUME Bounds ==
  /\ GivenRoots \subseteq Runs
  /\ Ops \subseteq {"open", "recover", "budget", "charge", "save"}

VARIABLES
  run,     \* the lineage and budget columns of the workflow_run table
  pc,      \* per caller: the statement it is about to run
  id,      \* per caller: the run the call is about
  arg,     \* per caller: what it writes or charges
  snap,    \* per caller: the row it read
  attempt, \* per caller: the compare-and-swaps it lost
  answer   \* per caller: what its last charge returned

frame == <<pc, id, arg, snap, attempt>>
vars  == <<run, pc, id, arg, snap, attempt, answer>>
-----------------------------------------------------------------------------
Row == [opened: BOOLEAN, parent: Runs \cup {NoRun}, root: Runs \cup {NoRun},
        budget: Int, used: Nat, counted: SUBSET Children]

NoRow == [opened |-> FALSE, parent |-> NoRun, root |-> NoRun,
          budget |-> 0, used |-> 0, counted |-> {}]

Answer == [ok: BOOLEAN, used: Nat, budget: Int, exhausted: BOOLEAN]

NoAnswer == [ok |-> FALSE, used |-> 0, budget |-> 0, exhausted |-> FALSE]

Arg == [child: Children \cup {NoRun}, parent: Runs \cup {NoRun},
        root: Runs \cup {NoRun}, budget: Int]

NoArg == [child |-> NoRun, parent |-> NoRun, root |-> NoRun, budget |-> 0]

\* exhaustedAt: a budget of zero or less is not configured.
Exhausted_AtTheCap(u, b) == b > 0 /\ u >= b
Exhausted(u, b) == b > 0 /\ u > b

IsRoot(r) == run[r].opened /\ run[r].parent = NoRun

Idle(p) == pc[p] = "idle"

GoOn(p, c, r, a, x, n) ==
  /\ pc'      = [pc EXCEPT ![p] = c]
  /\ id'      = [id EXCEPT ![p] = r]
  /\ arg'     = [arg EXCEPT ![p] = a]
  /\ snap'    = [snap EXCEPT ![p] = x]
  /\ attempt' = [attempt EXCEPT ![p] = n]

Return(p) == GoOn(p, "idle", NoRun, NoArg, NoRow, 0)

Reply(p, u, b) ==
  answer' = [answer EXCEPT ![p] =
               [ok |-> TRUE, used |-> u, budget |-> b, exhausted |-> Exhausted(u, b)]]

Init ==
  /\ run     = [r \in Runs |-> NoRow]
  /\ pc      = [p \in Procs |-> "idle"]
  /\ id      = [p \in Procs |-> NoRun]
  /\ arg     = [p \in Procs |-> NoArg]
  /\ snap    = [p \in Procs |-> NoRow]
  /\ attempt = [p \in Procs |-> 0]
  /\ answer  = [p \in Procs |-> NoAnswer]
-----------------------------------------------------------------------------
(* The lineage *)

\* CreateWorkflowRun, as the other runs of the table are opened.
OpenRun(p, r) ==
  /\ "open" \in Ops
  /\ Idle(p) /\ ~run[r].opened
  /\ run' = [run EXCEPT ![r] = [NoRow EXCEPT !.opened = TRUE]]
  /\ UNCHANGED <<frame, answer>>

\* CreateRecoveryWorkflowRun up to its first write. A root that is given is
\* taken as it is, and then the parent is not looked up at all.
RootFor(parent, root) ==
  CASE root # NoRun             -> root
    [] run[parent].root # NoRun -> run[parent].root
    [] OTHER                    -> parent

Recover(p, r, parent, root) ==
  /\ "recover" \in Ops
  /\ Idle(p)
  /\ root = NoRun => run[parent].opened
  /\ GoOn(p, "mint", r, [NoArg EXCEPT !.parent = parent, !.root = RootFor(parent, root)],
          NoRow, 0)
  /\ UNCHANGED <<run, answer>>

\* Its CreateWorkflowRun, refused when the name is taken.
MintChild(p) ==
  /\ pc[p] = "mint"
  /\ IF run[id[p]].opened
       THEN Return(p) /\ UNCHANGED run
       ELSE /\ run' = [run EXCEPT ![id[p]] = [NoRow EXCEPT !.opened = TRUE]]
            /\ GoOn(p, "stamp", id[p], arg[p], NoRow, 0)
  /\ UNCHANGED answer

\* ... and its second write, of the parent and root columns.
StampParentage(p) ==
  /\ pc[p] = "stamp"
  /\ run' = [run EXCEPT ![id[p]].parent = arg[p].parent, ![id[p]].root = arg[p].root]
  /\ Return(p)
  /\ UNCHANGED answer
-----------------------------------------------------------------------------
(* The budget *)

\* SetFailureBudget: read, refuse, then write two columns.
SetFailureBudget_Overwrites(p, r, b) ==
  /\ "budget" \in Ops
  /\ Idle(p)
  /\ IsRoot(r)
  /\ GoOn(p, "setBudget", r, [NoArg EXCEPT !.budget = b], NoRow, 0)
  /\ UNCHANGED <<run, answer>>
SetFailureBudget_AnyRun(p, r, b) ==
  /\ "budget" \in Ops
  /\ Idle(p)
  /\ run[r].opened
  /\ run[r].budget = 0
  /\ GoOn(p, "setBudget", r, [NoArg EXCEPT !.budget = b], NoRow, 0)
  /\ UNCHANGED <<run, answer>>
SetFailureBudget(p, r, b) ==
  /\ "budget" \in Ops
  /\ Idle(p)
  /\ IsRoot(r)
  /\ run[r].budget = 0
  /\ GoOn(p, "setBudget", r, [NoArg EXCEPT !.budget = b], NoRow, 0)
  /\ UNCHANGED <<run, answer>>

WriteBudget(p) ==
  /\ pc[p] = "setBudget"
  /\ run' = [run EXCEPT ![id[p]].budget = arg[p].budget, ![id[p]].root = id[p]]
  /\ Return(p)
  /\ UNCHANGED answer
-----------------------------------------------------------------------------
(* Charging it *)

\* IncrementFailureBudget.
IncrementFailureBudget(p, r, c) ==
  /\ "charge" \in Ops
  /\ Idle(p)
  /\ GoOn(p, "read", r, [NoArg EXCEPT !.child = c], NoRow, 0)
  /\ answer' = [answer EXCEPT ![p] = NoAnswer]
  /\ UNCHANGED run

\* The read of an attempt: no such run or not a root is an error, a child
\* already counted is answered at once.
ReadCounter_NoDedup(p) ==
  /\ pc[p] = "read"
  /\ IF IsRoot(id[p])
       THEN GoOn(p, "swap", id[p], arg[p], run[id[p]], attempt[p])
       ELSE Return(p)
  /\ UNCHANGED <<run, answer>>
ReadCounter(p) ==
  /\ pc[p] = "read"
  /\ LET x == run[id[p]] IN
       CASE ~IsRoot(id[p]) -> Return(p) /\ UNCHANGED answer
         [] IsRoot(id[p]) /\ arg[p].child \in x.counted
                           -> Return(p) /\ Reply(p, x.used, x.budget)
         [] OTHER          -> /\ GoOn(p, "swap", id[p], arg[p], x, attempt[p])
                              /\ UNCHANGED answer
  /\ UNCHANGED run

\* UPDATE ... WHERE failure_pipelines_used = the counter that was read. The
\* caller that loses reads again, at most MaxAttempts times in all.
Retry_SameRead(p) ==
  GoOn(p, "swap", id[p], arg[p], snap[p], attempt[p] + 1)
Retry(p) ==
  GoOn(p, "read", id[p], arg[p], NoRow, attempt[p] + 1)

Swap_Blind(p) ==
  /\ pc[p] = "swap"
  /\ run' = [run EXCEPT ![id[p]].used = snap[p].used + 1,
                        ![id[p]].counted = snap[p].counted \cup {arg[p].child}]
  /\ Reply(p, snap[p].used + 1, snap[p].budget)
  /\ Return(p)
Swap_NeverRereads(p) ==
  /\ pc[p] = "swap"
  /\ run[id[p]].used = snap[p].used
  /\ run' = [run EXCEPT ![id[p]].used = snap[p].used + 1,
                        ![id[p]].counted = snap[p].counted \cup {arg[p].child}]
  /\ Reply(p, snap[p].used + 1, snap[p].budget)
  /\ Return(p)
Swap(p) ==
  /\ pc[p] = "swap"
  /\ IF run[id[p]].used = snap[p].used
       THEN /\ run' = [run EXCEPT ![id[p]].used = snap[p].used + 1,
                                  ![id[p]].counted = snap[p].counted \cup {arg[p].child}]
            /\ Reply(p, snap[p].used + 1, snap[p].budget)
            /\ Return(p)
       ELSE /\ IF attempt[p] + 1 < MaxAttempts THEN Retry(p) ELSE Return(p)
            /\ UNCHANGED <<run, answer>>
-----------------------------------------------------------------------------
(* The calls of WorkflowRuns *)

ReadRow(p, r) ==
  /\ "save" \in Ops
  /\ Idle(p) /\ run[r].opened
  /\ GoOn(p, "save", r, NoArg, run[r], 0)
  /\ UNCHANGED <<run, answer>>

SaveRow(p) ==
  /\ pc[p] = "save"
  /\ run' = [run EXCEPT ![id[p]] = snap[p]]
  /\ Return(p)
  /\ UNCHANGED answer
-----------------------------------------------------------------------------
Call(p) ==
  \/ \E r \in Runs : OpenRun(p, r)
  \/ \E r, parent \in Runs, root \in GivenRoots \cup {NoRun} : Recover(p, r, parent, root)
  \/ \E r \in Runs, b \in Budgets : SetFailureBudget(p, r, b)
  \/ \E r \in Runs, c \in Children : IncrementFailureBudget(p, r, c)
  \/ \E r \in Runs : ReadRow(p, r)

Step(p) ==
  \/ MintChild(p)
  \/ StampParentage(p)
  \/ WriteBudget(p)
  \/ ReadCounter(p)
  \/ Swap(p)
  \/ SaveRow(p)

Next == \E p \in Procs : Call(p) \/ Step(p)

Spec == Init /\ [][Next]_vars

\* Every statement of a call under way is served.
FairSpec == Spec /\ \A p \in Procs : WF_vars(Step(p))
-----------------------------------------------------------------------------
(* Properties *)

\* The table and every call frame hold values of their type.
TypeOK ==
  /\ run     \in [Runs -> Row]
  /\ pc      \in [Procs -> {"idle", "mint", "stamp", "setBudget", "read", "swap", "save"}]
  /\ id      \in [Procs -> Runs \cup {NoRun}]
  /\ arg     \in [Procs -> Arg]
  /\ snap    \in [Procs -> Row]
  /\ attempt \in [Procs -> 0..(MaxAttempts - 1)]
  /\ answer  \in [Procs -> Answer]

\* "A failure budget is charged once": however the compare-and-swaps of
\* concurrent charges fall, the counter is the number of children counted.
ChargedOnce == \A r \in Runs : run[r].used = Cardinality(run[r].counted)

\* "Every retry means another caller's increment landed": no charge loses more
\* often than the counter moved, so a stream of charges always progresses.
RetryMeansProgress ==
  \A p \in Procs : pc[p] \in {"read", "swap"} => attempt[p] <= run[id[p]].used

\* Without whole-row saves the compare-and-swap implements a counter that is
\* charged in one step.
Counter == INSTANCE BudgetCounter
  WITH used <- [r \in Runs |-> run[r].used], counted <- [r \in Runs |-> run[r].counted]
CountsLikeACounter == Counter!Spec

\* Every charge returns: the retries are capped (maxBudgetAttempts).
ChargeReturns ==
  \A p \in Procs : pc[p] = "swap" ~> pc[p] = "idle"

\* "The budget is frozen for the lifetime of the run": a budget that is set
\* never changes (the refusal in SetFailureBudget).
BudgetFrozen ==
  [][\A r \in Runs : run[r].budget # 0 => run'[r].budget = run[r].budget]_run

\* The budget of a run, or that a child has none, is settled when the calls that
\* read the run before are through: none of them is about to set a budget, or to save
\* a row that has another.
Settled(r) ==
  /\ run[r].budget # 0 \/ run[r].parent # NoRun
  /\ \A p \in Procs : id[p] = r =>
       /\ pc[p] # "setBudget"
       /\ pc[p] = "save" => /\ snap[p].budget = run[r].budget
                            /\ snap[p].budget # 0 \/ snap[p].parent # NoRun

\* However calls race to set two budgets, to set one on a child before it is stamped
\* or to save rows without it, what is settled stays: SetFailureBudget refuses from
\* then on, and every row that is read has the budget.
BudgetSettles ==
  [][\A r \in Runs : Settled(r) => Settled(r)' /\ run'[r].budget = run[r].budget]_vars

\* "exhausted is true iff used > budget after the increment": every answer counts what
\* the table counts; an alarm is true of the budget in the table, and if one is
\* missing, the charge had read the row when no budget was set.
AlarmsAreTrue ==
  [][\A p \in Procs : answer'[p] # answer[p] /\ answer'[p].ok =>
       LET x == run'[id[p]]
           over == x.budget > 0 /\ x.used > x.budget
       IN  /\ answer'[p].used = x.used
           /\ answer'[p].exhausted => over
           /\ over => answer'[p].exhausted \/ answer'[p].budget = 0]_vars

\* "The child carries parent_workflow_run_id and root_workflow_run_id but no
\* budget of its own", and root_workflow_run_id is the top of the chain: budgets
\* and charges are on roots alone, and every run's root can be charged.
RootsAlone ==
  \A r \in Runs :
    /\ run[r].parent # NoRun => run[r].budget = 0 /\ run[r].used = 0
    /\ run[r].root # NoRun => run[run[r].root].parent = NoRun
-----------------------------------------------------------------------------
(* Why a child is charged once: what holds of a row wherever it is *)

\* The counter of a row is the number of its counted children.
Tallied(x) == IsFiniteSet(x.counted) /\ x.used = Cardinality(x.counted)

FrameOK(p) ==
  /\ pc[p] # "idle" => id[p] \in Runs
  /\ pc[p] \in {"stamp", "setBudget", "swap", "save"} => run[id[p]].opened
  /\ pc[p] \in {"read", "swap"} => arg[p].child \in Children
  /\ pc[p] = "swap" => arg[p].child \notin snap[p].counted
  /\ pc[p] = "save" => snap[p].opened

\* The inductive invariant: the rows of the table and the rows callers hold,
\* stale or not, are tallied, and a charge never holds a row that counts its
\* child.
IInv ==
  /\ TypeOK
  /\ \A r \in Runs : Tallied(run[r]) /\ (~run[r].opened => run[r] = NoRow)
  /\ \A p \in Procs : Tallied(snap[p]) /\ FrameOK(p)

\* What a charge has read only grows behind its back, as long as no call
\* saves whole rows.
Behind ==
  \A p \in Procs :
    /\ pc[p] # "save"
    /\ pc[p] = "swap" => snap[p].counted \subseteq run[id[p]].counted
\* Why a retry means progress, without saves: the attempts a charge lost are
\* covered by the counter it reads next, or has read.
Paced ==
  \A p \in Procs :
    /\ pc[p] = "read" => attempt[p] <= run[id[p]].used
    /\ pc[p] = "swap" => attempt[p] <= snap[p].used /\ snap[p].used <= run[id[p]].used

\* Why an alarm is true: a charge has read the budget, or read that there is none.
BudgetSeen ==
  \A p \in Procs : pc[p] = "swap" => snap[p].budget \in {0, run[id[p]].budget}

\* Why budgets stay frozen when calls come one at a time: what a call read of
\* a row is still so when it writes.
HeldRow(p) ==
  /\ pc[p] \in {"swap", "save"} => snap[p] = run[id[p]]
  /\ pc[p] \in {"setBudget", "swap"} => IsRoot(id[p])
  /\ pc[p] = "setBudget" => run[id[p]].budget = 0

\* ... and why budgets and charges stay on roots: every run knows a root that
\* is one, and nobody calls a child its root before it is stamped.
LineageOK ==
  \A r \in Runs :
    /\ run[r].parent # NoRun => run[r].root # NoRun /\ run[r].budget = 0 /\ run[r].used = 0
    /\ run[r].root # NoRun => IsRoot(run[r].root)

ToStamp(p) ==
  /\ pc[p] \in {"mint", "stamp"} => arg[p].root \in Runs /\ IsRoot(arg[p].root)
  /\ pc[p] = "stamp" =>
       /\ run[id[p]] = [NoRow EXCEPT !.opened = TRUE]
       /\ arg[p].root # id[p]
       /\ \A r \in Runs : run[r].root # id[p]

OneByOne == LineageOK /\ \A p \in Procs : HeldRow(p) /\ ToStamp(p)
=============================================================================
