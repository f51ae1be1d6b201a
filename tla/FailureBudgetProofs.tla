------------------------ MODULE FailureBudgetProofs ------------------------
(***************************************************************************)
(* Proofs about FailureBudget, for any number of callers, runs and         *)
(* children: a child is charged once whatever whole rows are saved over    *)
(* the counter, and without such saves the compare-and-swap implements     *)
(* BudgetCounter.                                                          *)
(***************************************************************************)
EXTENDS FailureBudget, FiniteSetTheorems, TLAPS

-----------------------------------------------------------------------------
(* Rows *)

LEMMA NoRowType == NoRow \in Row /\ Tallied(NoRow)
<1>1. Cardinality({}) = 0 /\ IsFiniteSet({})
  BY FS_EmptySet
<1> QED
  BY <1>1 DEF NoRow, Row, Tallied

LEMMA NoArgType == NoArg \in Arg
BY DEF NoArg, Arg

LEMMA ParentArg ==
  ASSUME NEW m \in Runs, NEW t \in Runs \cup {NoRun}
  PROVE [NoArg EXCEPT !.parent = m, !.root = t] \in Arg
BY NoArgType DEF Arg

\* A charge adds a child that was not counted to the row it read.
LEMMA ChargeTallies ==
  ASSUME NEW x \in Row, Tallied(x), NEW c \in Children, c \notin x.counted
  PROVE /\ x.used + 1 \in Nat
        /\ x.counted \cup {c} \in SUBSET Children
        /\ IsFiniteSet(x.counted \cup {c})
        /\ x.used + 1 = Cardinality(x.counted \cup {c})
<1>1. x.used \in Nat /\ x.counted \subseteq Children
  BY DEF Row
<1>2. /\ IsFiniteSet(x.counted \cup {c})
      /\ Cardinality(x.counted \cup {c}) = Cardinality(x.counted) + 1
  BY FS_AddElement DEF Tallied
<1> QED
  BY <1>1, <1>2 DEF Tallied
-----------------------------------------------------------------------------
(* What a caller's frame becomes *)

\* The call of p goes on, with nothing written.
LEMMA GoOnKeeps ==
  ASSUME IInv, UNCHANGED run, answer' \in [Procs -> Answer], NEW p \in Procs,
         NEW c \in {"mint", "stamp", "setBudget", "read", "swap", "save"},
         NEW r \in Runs, NEW a \in Arg, NEW x \in Row, NEW n \in 0..(MaxAttempts - 1),
         GoOn(p, c, r, a, x, n),
         Tallied(x),
         c \in {"stamp", "setBudget", "swap", "save"} => run[r].opened,
         c \in {"read", "swap"} => a.child \in Children,
         c = "swap" => a.child \notin x.counted,
         c = "save" => x.opened
  PROVE IInv'
<1>1. TypeOK'
  BY DEF IInv, TypeOK, GoOn
<1>2. \A q \in Procs : Tallied(snap'[q]) /\ FrameOK(q)'
  <2> SUFFICES ASSUME NEW q \in Procs PROVE Tallied(snap'[q]) /\ FrameOK(q)'
    OBVIOUS
  <2>1. CASE q = p
    BY <2>1 DEF IInv, TypeOK, GoOn, FrameOK, Tallied
  <2>2. CASE q # p
    BY <2>2 DEF IInv, TypeOK, GoOn, FrameOK, Tallied
  <2> QED
    BY <2>1, <2>2
<1> QED
  BY <1>1, <1>2 DEF IInv, Tallied

\* The call of p returns, after it has written run': a row that was opened
\* stays so, and every row stays tallied.
LEMMA ReturnKeeps ==
  ASSUME IInv, NEW p \in Procs, Return(p), answer' \in [Procs -> Answer],
         run' \in [Runs -> Row],
         \A r \in Runs : /\ Tallied(run'[r])
                         /\ run[r].opened => run'[r].opened
                         /\ ~run'[r].opened => run'[r] = NoRow
  PROVE IInv'
<1>1. 0 \in 0..(MaxAttempts - 1)
  BY Attempts
<1>2. TypeOK'
  BY <1>1, NoRowType, NoArgType DEF IInv, TypeOK, Return, GoOn
<1>3. \A q \in Procs : Tallied(snap'[q]) /\ FrameOK(q)'
  <2> SUFFICES ASSUME NEW q \in Procs PROVE Tallied(snap'[q]) /\ FrameOK(q)'
    OBVIOUS
  <2>1. CASE q = p
    BY <2>1, NoRowType DEF IInv, TypeOK, Return, GoOn, FrameOK, Tallied
  <2>2. CASE q # p
    BY <2>2 DEF IInv, TypeOK, Return, GoOn, FrameOK, Tallied
  <2> QED
    BY <2>1, <2>2
<1> QED
  BY <1>2, <1>3 DEF IInv

\* An idle call writes run' the same way and stays idle.
LEMMA WriteKeeps ==
  ASSUME IInv, UNCHANGED <<frame, answer>>,
         run' \in [Runs -> Row],
         \A r \in Runs : /\ Tallied(run'[r])
                         /\ run[r].opened => run'[r].opened
                         /\ ~run'[r].opened => run'[r] = NoRow
  PROVE IInv'
BY DEF IInv, TypeOK, frame, FrameOK, Tallied

\* A row that was opened afresh.
LEMMA OpenedRow ==
  /\ [NoRow EXCEPT !.opened = TRUE] \in Row
  /\ Tallied([NoRow EXCEPT !.opened = TRUE])
  /\ [NoRow EXCEPT !.opened = TRUE].opened
  /\ [NoRow EXCEPT !.opened = TRUE].used = NoRow.used
  /\ [NoRow EXCEPT !.opened = TRUE].counted = NoRow.counted
BY NoRowType DEF NoRow, Row, Tallied
-----------------------------------------------------------------------------
(* Every action keeps IInv *)

LEMMA OpenRunKeeps ==
  ASSUME IInv, NEW p \in Procs, NEW r \in Runs, OpenRun(p, r)
  PROVE IInv'
<1>1. run' = [run EXCEPT ![r] = [NoRow EXCEPT !.opened = TRUE]]
  BY DEF OpenRun
<1>2. run' \in [Runs -> Row]
  BY <1>1, OpenedRow DEF IInv, TypeOK
<1>3. \A q \in Runs : /\ Tallied(run'[q])
                      /\ run[q].opened => run'[q].opened
                      /\ ~run'[q].opened => run'[q] = NoRow
  BY <1>1, OpenedRow DEF IInv, TypeOK
<1> QED
  BY <1>2, <1>3, WriteKeeps DEF OpenRun

LEMMA RecoverKeeps ==
  ASSUME IInv, NEW p \in Procs, NEW r \in Runs, NEW m \in Runs,
         NEW t \in GivenRoots \cup {NoRun}, Recover(p, r, m, t)
  PROVE IInv'
<1> DEFINE a == [NoArg EXCEPT !.parent = m, !.root = RootFor(m, t)]
<1>1. RootFor(m, t) \in Runs \cup {NoRun}
  <2>1. run[m].root \in Runs \cup {NoRun}
    BY DEF IInv, TypeOK, Row
  <2> QED
    BY <2>1, Bounds DEF RootFor
<1>2. a \in Arg
  BY <1>1, ParentArg
<1>3. 0 \in 0..(MaxAttempts - 1)
  BY Attempts
<1>4. GoOn(p, "mint", r, a, NoRow, 0) /\ UNCHANGED run /\ answer' \in [Procs -> Answer]
  BY DEF Recover, IInv, TypeOK
<1> HIDE DEF a
<1> QED
  BY <1>2, <1>3, <1>4, NoRowType, GoOnKeeps

LEMMA MintChildKeeps ==
  ASSUME IInv, NEW p \in Procs, MintChild(p)
  PROVE IInv'
<1>1. id[p] \in Runs /\ arg[p] \in Arg /\ answer' \in [Procs -> Answer]
  BY DEF MintChild, IInv, TypeOK, FrameOK
<1>2. CASE Return(p) /\ UNCHANGED run
  BY <1>1, <1>2, ReturnKeeps DEF IInv, TypeOK
<1>3. CASE /\ run' = [run EXCEPT ![id[p]] = [NoRow EXCEPT !.opened = TRUE]]
           /\ GoOn(p, "stamp", id[p], arg[p], NoRow, 0)
  <2>1. run' \in [Runs -> Row]
    BY <1>1, <1>3, OpenedRow DEF IInv, TypeOK
  <2>2. \A q \in Runs : /\ Tallied(run'[q])
                        /\ run[q].opened => run'[q].opened
                        /\ ~run'[q].opened => run'[q] = NoRow
    BY <1>1, <1>3, OpenedRow DEF IInv, TypeOK
  <2>3. run'[id[p]].opened
    BY <1>1, <1>3, OpenedRow DEF IInv, TypeOK
  <2>4. 0 \in 0..(MaxAttempts - 1)
    BY Attempts
  <2>5. TypeOK'
    BY <1>1, <1>3, <2>1, <2>4, NoRowType DEF IInv, TypeOK, GoOn
  <2>6. \A q \in Procs : Tallied(snap'[q]) /\ FrameOK(q)'
    <3> SUFFICES ASSUME NEW q \in Procs PROVE Tallied(snap'[q]) /\ FrameOK(q)'
      OBVIOUS
    <3>1. CASE q = p
      BY <1>1, <1>3, <2>3, <3>1, NoRowType DEF IInv, TypeOK, GoOn, FrameOK, Tallied
    <3>2. CASE q # p
      BY <1>1, <1>3, <2>2, <3>2 DEF IInv, TypeOK, GoOn, FrameOK
    <3> QED
      BY <3>1, <3>2
  <2> QED
    BY <2>2, <2>5, <2>6 DEF IInv
<1> QED
  BY <1>2, <1>3 DEF MintChild

LEMMA StampParentageKeeps ==
  ASSUME IInv, NEW p \in Procs, StampParentage(p)
  PROVE IInv'
<1> DEFINE x == [run[id[p]] EXCEPT !.parent = arg[p].parent, !.root = arg[p].root]
<1>1. /\ id[p] \in Runs /\ run[id[p]] \in Row /\ Tallied(run[id[p]]) /\ run[id[p]].opened
      /\ arg[p].parent \in Runs \cup {NoRun} /\ arg[p].root \in Runs \cup {NoRun}
      /\ answer' \in [Procs -> Answer]
  BY DEF StampParentage, IInv, TypeOK, FrameOK, Arg
<1>2. run' = [run EXCEPT ![id[p]] = x]
  BY <1>1 DEF StampParentage, IInv, TypeOK
<1>3. x \in Row /\ Tallied(x) /\ x.opened
  BY <1>1 DEF Row, Tallied
<1> HIDE DEF x
<1>4. run' \in [Runs -> Row]
  BY <1>1, <1>2, <1>3 DEF IInv, TypeOK
<1>5. \A q \in Runs : /\ Tallied(run'[q])
                      /\ run[q].opened => run'[q].opened
                      /\ ~run'[q].opened => run'[q] = NoRow
  BY <1>1, <1>2, <1>3 DEF IInv, TypeOK
<1> QED
  BY <1>1, <1>4, <1>5, ReturnKeeps DEF StampParentage

LEMMA SetFailureBudgetKeeps ==
  ASSUME IInv, NEW p \in Procs, NEW r \in Runs, NEW b \in Budgets, SetFailureBudget(p, r, b)
  PROVE IInv'
<1> DEFINE a == [NoArg EXCEPT !.budget = b]
<1>1. a \in Arg
  BY BudgetsAreInts DEF NoArg, Arg
<1>2. 0 \in 0..(MaxAttempts - 1)
  BY Attempts
<1>3. /\ GoOn(p, "setBudget", r, a, NoRow, 0) /\ UNCHANGED run /\ run[r].opened
      /\ answer' \in [Procs -> Answer]
  BY DEF SetFailureBudget, IsRoot, IInv, TypeOK
<1> HIDE DEF a
<1> QED
  BY <1>1, <1>2, <1>3, NoRowType, GoOnKeeps

LEMMA WriteBudgetKeeps ==
  ASSUME IInv, NEW p \in Procs, WriteBudget(p)
  PROVE IInv'
<1> DEFINE x == [run[id[p]] EXCEPT !.budget = arg[p].budget, !.root = id[p]]
<1>1. /\ id[p] \in Runs /\ run[id[p]] \in Row /\ Tallied(run[id[p]]) /\ run[id[p]].opened
      /\ arg[p].budget \in Int
      /\ answer' \in [Procs -> Answer]
  BY DEF WriteBudget, IInv, TypeOK, FrameOK, Arg
<1>2. run' = [run EXCEPT ![id[p]] = x]
  BY <1>1 DEF WriteBudget, IInv, TypeOK
<1>3. x \in Row /\ Tallied(x) /\ x.opened
  BY <1>1 DEF Row, Tallied
<1> HIDE DEF x
<1>4. run' \in [Runs -> Row]
  BY <1>1, <1>2, <1>3 DEF IInv, TypeOK
<1>5. \A q \in Runs : /\ Tallied(run'[q])
                      /\ run[q].opened => run'[q].opened
                      /\ ~run'[q].opened => run'[q] = NoRow
  BY <1>1, <1>2, <1>3 DEF IInv, TypeOK
<1> QED
  BY <1>1, <1>4, <1>5, ReturnKeeps DEF WriteBudget

LEMMA IncrementFailureBudgetKeeps ==
  ASSUME IInv, NEW p \in Procs, NEW r \in Runs, NEW c \in Children,
         IncrementFailureBudget(p, r, c)
  PROVE IInv'
<1> DEFINE a == [NoArg EXCEPT !.child = c]
<1>1. a \in Arg /\ a.child \in Children
  BY DEF NoArg, Arg
<1>2. 0 \in 0..(MaxAttempts - 1)
  BY Attempts
<1>3. GoOn(p, "read", r, a, NoRow, 0) /\ UNCHANGED run
  BY DEF IncrementFailureBudget
<1>4. answer' \in [Procs -> Answer]
  BY DEF IncrementFailureBudget, IInv, TypeOK, NoAnswer, Answer
<1> HIDE DEF a
<1> QED
  BY <1>1, <1>2, <1>3, <1>4, NoRowType, GoOnKeeps

\* What a charge answers.
LEMMA ReplyType ==
  ASSUME IInv, NEW p \in Procs, NEW u \in Nat, NEW b \in Int, Reply(p, u, b)
  PROVE answer' \in [Procs -> Answer]
BY DEF Reply, IInv, TypeOK, Answer, Exhausted

LEMMA ReadCounterKeeps ==
  ASSUME IInv, NEW p \in Procs, ReadCounter(p)
  PROVE IInv'
<1> DEFINE x == run[id[p]]
<1>1. /\ pc[p] = "read" /\ UNCHANGED run
      /\ id[p] \in Runs /\ x \in Row /\ Tallied(x)
      /\ arg[p] \in Arg /\ arg[p].child \in Children
      /\ attempt[p] \in 0..(MaxAttempts - 1)
  BY DEF ReadCounter, IInv, TypeOK, FrameOK
<1>2. CASE Return(p) /\ answer' \in [Procs -> Answer]
  BY <1>1, <1>2, ReturnKeeps DEF IInv, TypeOK
<1>3. CASE /\ GoOn(p, "swap", id[p], arg[p], x, attempt[p])
           /\ IsRoot(id[p]) /\ arg[p].child \notin x.counted
           /\ UNCHANGED answer
  <2>1. x.opened /\ answer' \in [Procs -> Answer]
    BY <1>3 DEF IsRoot, IInv, TypeOK
  <2> QED
    BY <1>1, <1>3, <2>1, GoOnKeeps
<1>4. x.used \in Nat /\ x.budget \in Int
  BY <1>1 DEF Row
<1>5. CASE ~IsRoot(id[p])
  BY <1>2, <1>5 DEF ReadCounter, IInv, TypeOK
<1>6. CASE IsRoot(id[p]) /\ arg[p].child \in x.counted
  <2>1. Return(p) /\ Reply(p, x.used, x.budget)
    BY <1>6 DEF ReadCounter
  <2> QED
    BY <1>2, <1>4, <2>1, ReplyType
<1>7. CASE IsRoot(id[p]) /\ arg[p].child \notin x.counted
  BY <1>3, <1>7 DEF ReadCounter
<1> QED
  BY <1>5, <1>6, <1>7

\* The row a charge that wins writes.
LEMMA WonRow ==
  ASSUME NEW x \in Row, x.opened, NEW u \in Nat, NEW s \in SUBSET Children,
         IsFiniteSet(s), u = Cardinality(s)
  PROVE /\ [x EXCEPT !.used = u, !.counted = s] \in Row
        /\ Tallied([x EXCEPT !.used = u, !.counted = s])
        /\ [x EXCEPT !.used = u, !.counted = s].opened
BY DEF Row, Tallied

LEMMA SwapKeeps ==
  ASSUME IInv, NEW p \in Procs, Swap(p)
  PROVE IInv'
<1> DEFINE u == snap[p].used + 1
           s == snap[p].counted \cup {arg[p].child}
           x == [run[id[p]] EXCEPT !.used = u, !.counted = s]
<1>1. /\ pc[p] = "swap"
      /\ id[p] \in Runs /\ run[id[p]] \in Row /\ run[id[p]].opened
      /\ snap[p] \in Row /\ Tallied(snap[p])
      /\ arg[p] \in Arg /\ arg[p].child \in Children /\ arg[p].child \notin snap[p].counted
      /\ attempt[p] \in 0..(MaxAttempts - 1)
  BY DEF Swap, IInv, TypeOK, FrameOK
<1>2. CASE run[id[p]].used = snap[p].used
  <2>1. u \in Nat /\ s \in SUBSET Children /\ IsFiniteSet(s) /\ u = Cardinality(s)
    BY <1>1, ChargeTallies
  <2>2. run' = [run EXCEPT ![id[p]] = x] /\ Reply(p, u, snap[p].budget) /\ Return(p)
    BY <1>1, <1>2 DEF Swap, IInv, TypeOK
  <2>3. snap[p].budget \in Int
    BY <1>1 DEF Row
  <2> HIDE DEF u, s
  <2>4. x \in Row /\ Tallied(x) /\ x.opened
    BY <1>1, <2>1, WonRow
  <2> HIDE DEF x
  <2>5. run' \in [Runs -> Row]
    BY <1>1, <2>2, <2>4 DEF IInv, TypeOK
  <2>6. \A q \in Runs : /\ Tallied(run'[q])
                        /\ run[q].opened => run'[q].opened
                        /\ ~run'[q].opened => run'[q] = NoRow
    BY <1>1, <2>2, <2>4 DEF IInv, TypeOK
  <2>7. answer' \in [Procs -> Answer]
    BY <2>1, <2>2, <2>3, ReplyType
  <2> QED
    BY <2>2, <2>5, <2>6, <2>7, ReturnKeeps
<1>3. CASE run[id[p]].used # snap[p].used
  <2>1. UNCHANGED <<run, answer>>
    BY <1>3 DEF Swap
  <2>2. answer' \in [Procs -> Answer] /\ run' \in [Runs -> Row]
    BY <2>1 DEF IInv, TypeOK
  <2>3. CASE attempt[p] + 1 < MaxAttempts /\ Retry(p)
    <3>1. attempt[p] + 1 \in 0..(MaxAttempts - 1)
      BY <1>1, <2>3, Attempts
    <3>2. GoOn(p, "read", id[p], arg[p], NoRow, attempt[p] + 1)
      BY <2>3 DEF Retry
    <3> QED
      BY <1>1, <2>1, <2>2, <3>1, <3>2, NoRowType, GoOnKeeps
  <2>4. CASE Return(p)
    BY <2>1, <2>2, <2>4, ReturnKeeps DEF IInv
  <2> QED
    BY <1>3, <2>3, <2>4 DEF Swap
<1> QED
  BY <1>2, <1>3

LEMMA ReadRowKeeps ==
  ASSUME IInv, NEW p \in Procs, NEW r \in Runs, ReadRow(p, r)
  PROVE IInv'
<1>1. /\ GoOn(p, "save", r, NoArg, run[r], 0) /\ UNCHANGED run /\ run[r].opened
      /\ run[r] \in Row /\ Tallied(run[r]) /\ answer' \in [Procs -> Answer]
  BY DEF ReadRow, IInv, TypeOK
<1>2. 0 \in 0..(MaxAttempts - 1)
  BY Attempts
<1> QED
  BY <1>1, <1>2, NoArgType, GoOnKeeps

LEMMA SaveRowKeeps ==
  ASSUME IInv, NEW p \in Procs, SaveRow(p)
  PROVE IInv'
<1>1. /\ id[p] \in Runs /\ snap[p] \in Row /\ Tallied(snap[p]) /\ snap[p].opened
      /\ answer' \in [Procs -> Answer]
      /\ run' = [run EXCEPT ![id[p]] = snap[p]] /\ Return(p)
  BY DEF SaveRow, IInv, TypeOK, FrameOK
<1>2. run' \in [Runs -> Row]
  BY <1>1 DEF IInv, TypeOK
<1>3. \A q \in Runs : /\ Tallied(run'[q])
                      /\ run[q].opened => run'[q].opened
                      /\ ~run'[q].opened => run'[q] = NoRow
  BY <1>1 DEF IInv, TypeOK
<1> QED
  BY <1>1, <1>2, <1>3, ReturnKeeps
-----------------------------------------------------------------------------
(* The invariant and what follows from it *)

LEMMA InitOK == Init => IInv
<1> SUFFICES ASSUME Init PROVE IInv
  OBVIOUS
<1>1. 0 \in 0..(MaxAttempts - 1)
  BY Attempts
<1>2. TypeOK
  BY <1>1, NoRowType, NoArgType DEF Init, TypeOK, NoAnswer, Answer
<1>3. \A r \in Runs : Tallied(run[r]) /\ (~run[r].opened => run[r] = NoRow)
  BY NoRowType DEF Init
<1>4. \A p \in Procs : Tallied(snap[p]) /\ FrameOK(p)
  BY NoRowType DEF Init, FrameOK
<1> QED
  BY <1>2, <1>3, <1>4 DEF IInv

LEMMA NextKeeps == IInv /\ [Next]_vars => IInv'
<1> SUFFICES ASSUME IInv, [Next]_vars PROVE IInv'
  OBVIOUS
<1>1. CASE UNCHANGED vars
  BY <1>1, WriteKeeps DEF vars, frame, IInv, TypeOK
<1>2. ASSUME NEW p \in Procs, Call(p) PROVE IInv'
  BY <1>2, OpenRunKeeps, RecoverKeeps, SetFailureBudgetKeeps,
     IncrementFailureBudgetKeeps, ReadRowKeeps
  DEF Call
<1>3. ASSUME NEW p \in Procs, Step(p) PROVE IInv'
  BY <1>3, MintChildKeeps, StampParentageKeeps, WriteBudgetKeeps, ReadCounterKeeps,
     SwapKeeps, SaveRowKeeps
  DEF Step
<1> QED
  BY <1>1, <1>2, <1>3 DEF Next

\* IInv holds in every reachable state, whichever calls race.
THEOREM Invariant == Spec => []IInv
<1> QED
  BY InitOK, NextKeeps, PTL DEF Spec

\* Every column and every call frame keeps its type; in particular no charge
\* loses the compare-and-swap more than maxBudgetAttempts times.
THEOREM TypeCorrect == Spec => []TypeOK
<1>1. IInv => TypeOK
  BY DEF IInv
<1> QED
  BY <1>1, Invariant, PTL

\* The counter of a run is the number of children counted against it: however
\* charges race (IncrementFailureBudget) and whatever stale rows are saved
\* over it (saveRun), no child is charged twice while it is counted.
THEOREM EachChildOnce == Spec => []ChargedOnce
<1>1. IInv => ChargedOnce
  BY DEF IInv, ChargedOnce, Tallied
<1> QED
  BY <1>1, Invariant, PTL
-----------------------------------------------------------------------------
(* Without whole-row saves, a counter charged in one step *)

LEMMA InitBehind == Init => Behind
BY DEF Init, Behind

\* What a step does to the counters.
NoCharge == \A r \in Runs : run'[r].used = run[r].used /\ run'[r].counted = run[r].counted

Charges(q, c) ==
  /\ c \notin run[q].counted
  /\ run'[q].used = run[q].used + 1
  /\ run'[q].counted = run[q].counted \cup {c}
  /\ \A r \in Runs \ {q} : run'[r].used = run[r].used /\ run'[r].counted = run[r].counted

\* A step takes back no charge, and moves a counter only by the charge of the
\* caller whose compare-and-swap won.
LEMMA ChargeOrNothing ==
  ASSUME IInv, Behind, [Next]_vars
  PROVE NoCharge \/ \E q \in Runs, c \in Children : Charges(q, c)
<1>1. CASE UNCHANGED run
  BY <1>1 DEF NoCharge
<1>2. ASSUME NEW r \in Runs, ~run[r].opened,
             run' = [run EXCEPT ![r] = [NoRow EXCEPT !.opened = TRUE]]
      PROVE NoCharge
  <2>1. run \in [Runs -> Row] /\ run[r] = NoRow
    BY <1>2 DEF IInv, TypeOK
  <2>2. \A q \in Runs \ {r} : run'[q] = run[q]
    BY <1>2, <2>1
  <2>3. run'[r] = [NoRow EXCEPT !.opened = TRUE]
    BY <1>2, <2>1
  <2> QED
    BY <2>1, <2>2, <2>3, OpenedRow DEF NoCharge
<1>3. ASSUME NEW p \in Procs, MintChild(p) PROVE NoCharge
  <2>1. id[p] \in Runs
    BY <1>3 DEF MintChild, IInv, TypeOK, FrameOK
  <2>2. CASE run[id[p]].opened
    BY <1>3, <2>2 DEF MintChild, NoCharge
  <2>3. CASE ~run[id[p]].opened
    <3>1. run' = [run EXCEPT ![id[p]] = [NoRow EXCEPT !.opened = TRUE]]
      BY <1>3, <2>3 DEF MintChild
    <3> QED
      BY <1>2, <2>1, <2>3, <3>1
  <2> QED
    BY <2>2, <2>3
<1>4. ASSUME NEW p \in Procs, StampParentage(p) PROVE NoCharge
  <2>1. id[p] \in Runs /\ run[id[p]] \in Row
    BY <1>4 DEF StampParentage, IInv, TypeOK, FrameOK
  <2> QED
    BY <1>4, <2>1 DEF StampParentage, IInv, TypeOK, Row, NoCharge
<1>5. ASSUME NEW p \in Procs, WriteBudget(p) PROVE NoCharge
  <2>1. id[p] \in Runs /\ run[id[p]] \in Row
    BY <1>5 DEF WriteBudget, IInv, TypeOK, FrameOK
  <2> QED
    BY <1>5, <2>1 DEF WriteBudget, IInv, TypeOK, Row, NoCharge
<1>6. ASSUME NEW p \in Procs, Swap(p), run[id[p]].used = snap[p].used
      PROVE \E q \in Runs, c \in Children : Charges(q, c)
  <2>1. /\ pc[p] = "swap" /\ id[p] \in Runs /\ arg[p].child \in Children
        /\ arg[p].child \notin snap[p].counted
        /\ snap[p].counted \subseteq run[id[p]].counted
        /\ Tallied(snap[p]) /\ Tallied(run[id[p]])
        /\ run \in [Runs -> Row]
    BY <1>6 DEF Swap, Behind, IInv, TypeOK, FrameOK
  <2>2. snap[p].counted = run[id[p]].counted
    BY <1>6, <2>1, FS_Subset DEF Tallied
  <2>3. run' = [run EXCEPT ![id[p]].used = run[id[p]].used + 1,
                           ![id[p]].counted = run[id[p]].counted \cup {arg[p].child}]
    BY <1>6, <2>1, <2>2 DEF Swap
  <2>4. \A r \in Runs \ {id[p]} : run'[r] = run[r]
    BY <2>1, <2>3
  <2>5. run'[id[p]].used = run[id[p]].used + 1
    BY <2>1, <2>3 DEF Row
  <2>6. run'[id[p]].counted = run[id[p]].counted \cup {arg[p].child}
    BY <2>1, <2>3 DEF Row
  <2>7. Charges(id[p], arg[p].child)
    BY <2>1, <2>2, <2>4, <2>5, <2>6 DEF Charges
  <2> QED
    BY <2>1, <2>7
<1>7. ASSUME NEW p \in Procs, Swap(p), run[id[p]].used # snap[p].used
      PROVE UNCHANGED run
  BY <1>7 DEF Swap
<1>8. ASSUME NEW p \in Procs, Call(p) PROVE NoCharge
  <2>1. ASSUME NEW r \in Runs, OpenRun(p, r) PROVE NoCharge
    BY <1>2, <2>1 DEF OpenRun
  <2>2. ASSUME NEW r \in Runs, NEW m \in Runs, NEW t \in GivenRoots \cup {NoRun},
               Recover(p, r, m, t)
        PROVE NoCharge
    BY <2>2 DEF Recover, NoCharge
  <2>3. ASSUME NEW r \in Runs, NEW b \in Budgets, SetFailureBudget(p, r, b) PROVE NoCharge
    BY <2>3 DEF SetFailureBudget, NoCharge
  <2>4. ASSUME NEW r \in Runs, NEW c \in Children, IncrementFailureBudget(p, r, c)
        PROVE NoCharge
    BY <2>4 DEF IncrementFailureBudget, NoCharge
  <2>5. ASSUME NEW r \in Runs, ReadRow(p, r) PROVE NoCharge
    BY <2>5 DEF ReadRow, NoCharge
  <2> QED
    BY <1>8, <2>1, <2>2, <2>3, <2>4, <2>5 DEF Call
<1>9. ASSUME NEW p \in Procs, ReadCounter(p) PROVE UNCHANGED run
  BY <1>9 DEF ReadCounter
<1>10. \A p \in Procs : ~SaveRow(p)
  BY DEF Behind, SaveRow
<1> QED
  BY <1>1, <1>3, <1>4, <1>5, <1>6, <1>7, <1>8, <1>9, <1>10 DEF Next, Step, vars

LEMMA BehindKept ==
  ASSUME "save" \notin Ops, IInv, Behind, [Next]_vars
  PROVE Behind'
<1>1. \A r \in Runs : run[r].counted \subseteq run'[r].counted
  <2>1. CASE NoCharge
    BY <2>1 DEF NoCharge
  <2>2. CASE \E q \in Runs, c \in Children : Charges(q, c)
    BY <2>2 DEF Charges
  <2> QED
    BY <2>1, <2>2, ChargeOrNothing
<1> SUFFICES ASSUME NEW p \in Procs
             PROVE /\ pc'[p] # "save"
                   /\ pc'[p] = "swap" => snap'[p].counted \subseteq run'[id'[p]].counted
  BY DEF Behind
<1>2. CASE UNCHANGED <<pc, id, snap>>
  BY <1>1, <1>2 DEF Behind, IInv, FrameOK
<1>3. ASSUME NEW q \in Procs, q # p, NEW c, NEW r, NEW a, NEW x, NEW n,
             GoOn(q, c, r, a, x, n)
      PROVE UNCHANGED <<pc[p], id[p], snap[p]>>
  BY <1>3 DEF GoOn, IInv, TypeOK
<1>4. ASSUME NEW c \in {"idle", "mint", "stamp", "setBudget", "read"},
             NEW r, NEW a, NEW x, NEW n, GoOn(p, c, r, a, x, n)
      PROVE pc'[p] \notin {"save", "swap"}
  BY <1>4 DEF GoOn, IInv, TypeOK
<1>5. ASSUME GoOn(p, "swap", id[p], arg[p], run[id[p]], attempt[p]), UNCHANGED run
      PROVE /\ pc'[p] = "swap"
            /\ snap'[p].counted \subseteq run'[id'[p]].counted
  BY <1>5 DEF GoOn, IInv, TypeOK
<1>6. CASE UNCHANGED <<pc[p], id[p], snap[p]>>
  BY <1>1, <1>6 DEF Behind, IInv, FrameOK
<1>7. ASSUME NEW q \in Procs, Call(q) \/ Step(q) PROVE
        \/ UNCHANGED <<pc, id, snap>>
        \/ \E c \in {"idle", "mint", "stamp", "setBudget", "read"} :
             \E r, a, x, n : GoOn(q, c, r, a, x, n)
        \/ GoOn(q, "swap", id[q], arg[q], run[id[q]], attempt[q]) /\ UNCHANGED run
  <2>1. CASE Call(q)
    BY <2>1 DEF Call, OpenRun, Recover, SetFailureBudget, IncrementFailureBudget, ReadRow, frame
  <2>2. CASE MintChild(q) \/ StampParentage(q) \/ WriteBudget(q)
    BY <2>2 DEF MintChild, StampParentage, WriteBudget, Return
  <2>3. CASE ReadCounter(q)
    BY <2>3 DEF ReadCounter, Return
  <2>4. CASE Swap(q)
    BY <2>4 DEF Swap, Retry, Return
  <2>5. ~SaveRow(q)
    BY DEF Behind, SaveRow
  <2> QED
    BY <1>7, <2>1, <2>2, <2>3, <2>4, <2>5 DEF Step
<1> QED
  BY <1>2, <1>3, <1>4, <1>5, <1>6, <1>7 DEF Next, vars

\* Without whole-row saves, charging is one indivisible step of BudgetCounter:
\* no charge is lost, doubled or taken back (IncrementFailureBudget).
THEOREM ImplementsCounter ==
  ASSUME "save" \notin Ops
  PROVE Spec => CountsLikeACounter
<1>1. Init => Counter!Init
  BY DEF Init, Counter!Init, NoRow
<1>2. ASSUME IInv, Behind, [Next]_vars
      PROVE [Counter!Next]_<<[r \in Runs |-> run[r].used], [r \in Runs |-> run[r].counted]>>
  <2>1. CASE NoCharge
    BY <2>1 DEF NoCharge
  <2>2. ASSUME NEW q \in Runs, NEW c \in Children, Charges(q, c)
        PROVE Counter!Charge(q, c)
    <3>1. [r \in Runs |-> run'[r].used]
            = [[r \in Runs |-> run[r].used] EXCEPT ![q] = @ + 1]
      BY <2>2 DEF Charges
    <3>2. [r \in Runs |-> run'[r].counted]
            = [[r \in Runs |-> run[r].counted] EXCEPT ![q] = @ \cup {c}]
      BY <2>2 DEF Charges
    <3>3. c \notin [r \in Runs |-> run[r].counted][q]
      BY <2>2 DEF Charges
    <3> QED
      BY <3>1, <3>2, <3>3 DEF Counter!Charge
  <2>3. CASE \E q \in Runs, c \in Children : Charges(q, c)
    BY <2>2, <2>3 DEF Counter!Next
  <2> QED
    BY <1>2, <2>1, <2>3, ChargeOrNothing
<1>3. IInv /\ Behind /\ [Next]_vars => Behind'
  BY BehindKept
<1> QED
  BY <1>1, <1>2, <1>3, InitBehind, Invariant, PTL DEF Spec, CountsLikeACounter, Counter!Spec
-----------------------------------------------------------------------------
(* Without whole-row saves, a retry means progress *)

\* How a caller's frame moves, as far as charging is concerned.
LEMMA ChargeFrames ==
  ASSUME "save" \notin Ops, IInv, Behind, [Next]_vars, NEW p \in Procs
  PROVE \/ UNCHANGED <<pc[p], id[p], snap[p], attempt[p]>>
        \/ pc'[p] \notin {"read", "swap"}
        \/ pc'[p] = "read" /\ attempt'[p] = 0
        \/ /\ pc[p] = "read" /\ pc'[p] = "swap" /\ id'[p] = id[p] /\ snap'[p] = run[id[p]]
           /\ attempt'[p] = attempt[p] /\ UNCHANGED run
        \/ /\ pc[p] = "swap" /\ pc'[p] = "read" /\ id'[p] = id[p] /\ attempt'[p] = attempt[p] + 1
           /\ run[id[p]].used # snap[p].used /\ UNCHANGED run
<1>1. CASE UNCHANGED vars
  BY <1>1 DEF vars
<1>2. ASSUME NEW q \in Procs, q # p, NEW c, NEW r, NEW a, NEW x, NEW n,
             GoOn(q, c, r, a, x, n)
      PROVE UNCHANGED <<pc[p], id[p], snap[p], attempt[p]>>
  BY <1>2 DEF GoOn, IInv, TypeOK
<1>3. ASSUME NEW c \in {"idle", "mint", "stamp", "setBudget"},
             NEW r, NEW a, NEW x, NEW n, GoOn(p, c, r, a, x, n)
      PROVE pc'[p] \notin {"read", "swap"}
  BY <1>3 DEF GoOn, IInv, TypeOK
<1>4. ASSUME NEW q \in Procs, Call(q) \/ Step(q) PROVE
        \/ UNCHANGED <<pc, id, snap, attempt>>
        \/ \E c \in {"idle", "mint", "stamp", "setBudget"} : \E r, a, x, n : GoOn(q, c, r, a, x, n)
        \/ \E r, a, x : GoOn(q, "read", r, a, x, 0)
        \/ /\ pc[q] = "read" /\ UNCHANGED run
           /\ GoOn(q, "swap", id[q], arg[q], run[id[q]], attempt[q])
        \/ /\ pc[q] = "swap" /\ UNCHANGED run /\ run[id[q]].used # snap[q].used
           /\ GoOn(q, "read", id[q], arg[q], NoRow, attempt[q] + 1)
  <2>1. CASE \E r \in Runs : OpenRun(q, r)
    BY <2>1 DEF OpenRun, frame
  <2>2. CASE \E r, m \in Runs, t \in GivenRoots \cup {NoRun} : Recover(q, r, m, t)
    BY <2>2 DEF Recover
  <2>3. CASE \E r \in Runs, b \in Budgets : SetFailureBudget(q, r, b)
    BY <2>3 DEF SetFailureBudget
  <2>4. CASE \E r \in Runs, c \in Children : IncrementFailureBudget(q, r, c)
    BY <2>4 DEF IncrementFailureBudget
  <2>5. \A r \in Runs : ~ReadRow(q, r)
    BY DEF ReadRow
  <2>6. CASE MintChild(q) \/ StampParentage(q) \/ WriteBudget(q)
    BY <2>6 DEF MintChild, StampParentage, WriteBudget, Return
  <2>7. CASE ReadCounter(q)
    BY <2>7 DEF ReadCounter, Return
  <2>8. CASE Swap(q)
    BY <2>8 DEF Swap, Retry, Return
  <2>9. ~SaveRow(q)
    BY DEF Behind, SaveRow
  <2> QED
    BY <1>4, <2>1, <2>2, <2>3, <2>4, <2>5, <2>6, <2>7, <2>8, <2>9 DEF Call, Step
<1> QED
  <2>1. CASE UNCHANGED <<pc, id, snap, attempt>>
    BY <2>1
  <2>2. ASSUME NEW r, NEW a, NEW x, GoOn(p, "read", r, a, x, 0)
        PROVE pc'[p] = "read" /\ attempt'[p] = 0
    BY <2>2 DEF GoOn, IInv, TypeOK
  <2>3. ASSUME GoOn(p, "swap", id[p], arg[p], run[id[p]], attempt[p])
        PROVE pc'[p] = "swap" /\ id'[p] = id[p] /\ snap'[p] = run[id[p]] /\ attempt'[p] = attempt[p]
    BY <2>3 DEF GoOn, IInv, TypeOK
  <2>4. ASSUME GoOn(p, "read", id[p], arg[p], NoRow, attempt[p] + 1)
        PROVE pc'[p] = "read" /\ id'[p] = id[p] /\ attempt'[p] = attempt[p] + 1
    BY <2>4 DEF GoOn, IInv, TypeOK
  <2>5. CASE Call(p) \/ Step(p)
    BY <1>3, <1>4, <2>1, <2>2, <2>3, <2>4, <2>5
  <2>6. ASSUME NEW q \in Procs, q # p, Call(q) \/ Step(q)
        PROVE UNCHANGED <<pc[p], id[p], snap[p], attempt[p]>>
    BY <1>2, <1>4, <2>1, <2>6
  <2> QED
    BY <1>1, <2>5, <2>6 DEF Next

LEMMA PacedKept ==
  ASSUME "save" \notin Ops, IInv, Behind, Paced, [Next]_vars
  PROVE Paced'
<1>1. \A r \in Runs : run[r].used \in Nat /\ run'[r].used \in Nat /\ run[r].used <= run'[r].used
  <2>1. \A r \in Runs : run[r].used \in Nat
    BY DEF IInv, TypeOK, Row
  <2>2. CASE NoCharge
    BY <2>1, <2>2 DEF NoCharge
  <2>3. ASSUME NEW q \in Runs, NEW c \in Children, Charges(q, c)
        PROVE \A r \in Runs : run'[r].used \in Nat /\ run[r].used <= run'[r].used
    BY <2>1, <2>3 DEF Charges
  <2> QED
    BY <2>1, <2>2, <2>3, ChargeOrNothing
<1> SUFFICES ASSUME NEW p \in Procs
             PROVE /\ pc'[p] = "read" => attempt'[p] <= run'[id'[p]].used
                   /\ pc'[p] = "swap" => /\ attempt'[p] <= snap'[p].used
                                         /\ snap'[p].used <= run'[id'[p]].used
  BY DEF Paced
<1>2. IInv'
  BY NextKeeps
<1>3. /\ attempt[p] \in Nat /\ attempt'[p] \in Nat /\ snap[p].used \in Nat /\ snap'[p].used \in Nat
      /\ pc[p] # "idle" => id[p] \in Runs
      /\ pc'[p] # "idle" => id'[p] \in Runs
  BY <1>2 DEF IInv, TypeOK, FrameOK, Row
<1>4. CASE UNCHANGED <<pc[p], id[p], snap[p], attempt[p]>>
  BY <1>1, <1>3, <1>4 DEF Paced
<1>5. CASE pc'[p] \notin {"read", "swap"}
  BY <1>5
<1>6. CASE pc'[p] = "read" /\ attempt'[p] = 0
  BY <1>1, <1>3, <1>6
<1>7. CASE /\ pc[p] = "read" /\ pc'[p] = "swap" /\ id'[p] = id[p] /\ snap'[p] = run[id[p]]
           /\ attempt'[p] = attempt[p] /\ UNCHANGED run
  BY <1>1, <1>3, <1>7 DEF Paced
<1>8. CASE /\ pc[p] = "swap" /\ pc'[p] = "read" /\ id'[p] = id[p] /\ attempt'[p] = attempt[p] + 1
           /\ run[id[p]].used # snap[p].used /\ UNCHANGED run
  BY <1>1, <1>3, <1>8 DEF Paced
<1> QED
  BY <1>4, <1>5, <1>6, <1>7, <1>8, ChargeFrames

\* Without whole-row saves, a charge loses its compare-and-swap no more often
\* than the counter moved: every retry answers another caller's charge
\* (IncrementFailureBudget).
THEOREM Progress ==
  ASSUME "save" \notin Ops
  PROVE Spec => []RetryMeansProgress
<1>1. Init => Paced
  BY DEF Init, Paced
<1>2. IInv /\ Behind /\ [Next]_vars => Behind'
  BY BehindKept
<1>3. IInv /\ Behind /\ Paced /\ [Next]_vars => Paced'
  BY PacedKept
<1>4. ASSUME IInv, Paced PROVE RetryMeansProgress
  <2> SUFFICES ASSUME NEW p \in Procs, pc[p] \in {"read", "swap"}
               PROVE attempt[p] <= run[id[p]].used
    BY DEF RetryMeansProgress
  <2>1. attempt[p] \in Nat /\ snap[p].used \in Nat /\ run[id[p]].used \in Nat
    BY <1>4 DEF IInv, TypeOK, FrameOK, Row
  <2> QED
    BY <1>4, <2>1 DEF Paced
<1> QED
  BY <1>1, <1>2, <1>3, <1>4, InitBehind, Invariant, PTL DEF Spec
-----------------------------------------------------------------------------
(* One call at a time *)

OneCaller == \A p, q \in Procs : p = q

HeldRows == \A p \in Procs : HeldRow(p)

\* No other call comes between a read and the write that uses it.
LEMMA HeldRowsKept ==
  ASSUME OneCaller, IInv, HeldRows, [Next]_vars
  PROVE HeldRows'
<1> SUFFICES ASSUME NEW p \in Procs PROVE HeldRow(p)'
  BY DEF HeldRows
<1>1. CASE UNCHANGED vars
  BY <1>1 DEF vars, HeldRows, HeldRow, IsRoot
<1>2. ASSUME NEW c \in {"idle", "mint", "stamp", "read"}, NEW r, NEW a, NEW x, NEW n,
             GoOn(p, c, r, a, x, n)
      PROVE HeldRow(p)'
  BY <1>2 DEF GoOn, IInv, TypeOK, HeldRow
<1>3. CASE Call(p)
  <2>1. ASSUME NEW r \in Runs, OpenRun(p, r) PROVE HeldRow(p)'
    BY <2>1 DEF OpenRun, frame, Idle, HeldRow
  <2>2. ASSUME NEW r \in Runs, NEW m \in Runs, NEW t \in GivenRoots \cup {NoRun},
               Recover(p, r, m, t)
        PROVE HeldRow(p)'
    BY <1>2, <2>2 DEF Recover
  <2>3. ASSUME NEW r \in Runs, NEW b \in Budgets, SetFailureBudget(p, r, b) PROVE HeldRow(p)'
    BY <2>3 DEF SetFailureBudget, GoOn, IInv, TypeOK, HeldRow, IsRoot
  <2>4. ASSUME NEW r \in Runs, NEW c \in Children, IncrementFailureBudget(p, r, c)
        PROVE HeldRow(p)'
    BY <1>2, <2>4 DEF IncrementFailureBudget
  <2>5. ASSUME NEW r \in Runs, ReadRow(p, r) PROVE HeldRow(p)'
    BY <2>5 DEF ReadRow, GoOn, IInv, TypeOK, HeldRow
  <2> QED
    BY <1>3, <2>1, <2>2, <2>3, <2>4, <2>5 DEF Call
<1>4. CASE Step(p)
  <2>1. CASE MintChild(p) \/ StampParentage(p) \/ WriteBudget(p) \/ Swap(p) \/ SaveRow(p)
    BY <1>2, <2>1 DEF MintChild, StampParentage, WriteBudget, Swap, Retry, SaveRow, Return
  <2>2. CASE ReadCounter(p) /\ GoOn(p, "swap", id[p], arg[p], run[id[p]], attempt[p]) /\ IsRoot(id[p])
    BY <2>2 DEF ReadCounter, GoOn, IInv, TypeOK, HeldRow, IsRoot
  <2>3. CASE ReadCounter(p) /\ Return(p)
    BY <1>2, <2>3 DEF Return
  <2>4. CASE ReadCounter(p)
    BY <2>2, <2>3, <2>4 DEF ReadCounter
  <2> QED
    BY <1>4, <2>1, <2>4 DEF Step
<1> QED
  BY <1>1, <1>3, <1>4 DEF Next, OneCaller

\* A budget that is set stays.
Frozen == \A r \in Runs : run[r].budget # 0 => run'[r].budget = run[r].budget

LEMMA OpenedFrozen ==
  ASSUME IInv, NEW r \in Runs, ~run[r].opened,
         run' = [run EXCEPT ![r] = [NoRow EXCEPT !.opened = TRUE]]
  PROVE Frozen
<1>1. run \in [Runs -> Row] /\ run[r] = NoRow
  BY DEF IInv, TypeOK
<1>2. run[r].budget = 0
  BY <1>1 DEF NoRow
<1>3. \A q \in Runs \ {r} : run'[q] = run[q]
  BY <1>1
<1> QED
  BY <1>2, <1>3 DEF Frozen

LEMMA StepFrozen ==
  ASSUME OneCaller, IInv, HeldRows, [Next]_vars
  PROVE Frozen
<1>1. CASE UNCHANGED run
  BY <1>1 DEF Frozen
<1>2. ASSUME NEW p \in Procs, Call(p) PROVE Frozen
  <2>1. ASSUME NEW r \in Runs, OpenRun(p, r) PROVE Frozen
    BY <2>1, OpenedFrozen DEF OpenRun
  <2>2. CASE UNCHANGED run
    BY <1>1, <2>2
  <2> QED
    BY <1>2, <2>1, <2>2 DEF Call, Recover, SetFailureBudget, IncrementFailureBudget, ReadRow
<1>3. ASSUME NEW p \in Procs, Step(p), pc[p] # "idle" PROVE Frozen
  <2>1. /\ id[p] \in Runs /\ run \in [Runs -> Row] /\ run[id[p]] \in Row /\ HeldRow(p)
    BY <1>3 DEF IInv, TypeOK, FrameOK, HeldRows
  <2>2. CASE MintChild(p)
    BY <1>1, <2>1, <2>2, OpenedFrozen DEF MintChild
  <2>3. CASE StampParentage(p)
    BY <2>1, <2>3 DEF StampParentage, Frozen, Row
  <2>4. CASE WriteBudget(p)
    BY <2>1, <2>4 DEF WriteBudget, Frozen, HeldRow
  <2>5. CASE ReadCounter(p)
    BY <1>1, <2>5 DEF ReadCounter
  <2>6. CASE Swap(p)
    BY <2>1, <2>6 DEF Swap, Frozen, Row
  <2>7. CASE SaveRow(p)
    BY <2>1, <2>7 DEF SaveRow, Frozen, HeldRow
  <2> QED
    BY <1>3, <2>2, <2>3, <2>4, <2>5, <2>6, <2>7 DEF Step
<1>4. \A p \in Procs : Step(p) => pc[p] # "idle"
  BY DEF Step, MintChild, StampParentage, WriteBudget, ReadCounter, Swap, SaveRow
<1> QED
  BY <1>1, <1>2, <1>3, <1>4 DEF Next, vars

\* When calls come one at a time, a budget that is set never changes, whatever
\* calls save the row it is in (SetFailureBudget).
THEOREM BudgetStays ==
  ASSUME OneCaller
  PROVE Spec => BudgetFrozen
<1>1. Init => HeldRows
  BY DEF Init, HeldRows, HeldRow
<1>2. IInv /\ HeldRows /\ [Next]_vars => HeldRows'
  BY HeldRowsKept
<1>3. IInv /\ HeldRows /\ [Next]_vars
        => [\A r \in Runs : run[r].budget # 0 => run'[r].budget = run[r].budget]_run
  BY StepFrozen DEF Frozen
<1> QED
  BY <1>1, <1>2, <1>3, Invariant, PTL DEF Spec, BudgetFrozen
-----------------------------------------------------------------------------
(* Many callers: the budget settles *)

\* Who is to stamp a run has a parent to stamp it with.
HasParent == \A p \in Procs : pc[p] \in {"mint", "stamp"} => arg[p].parent # NoRun

LEMMA HasParentKept ==
  ASSUME IInv, HasParent, [Next]_vars
  PROVE HasParent'
<1> SUFFICES ASSUME NEW p \in Procs, pc'[p] \in {"mint", "stamp"}
             PROVE arg'[p].parent # NoRun
  BY DEF HasParent
<1>1. CASE pc[p] \in {"mint", "stamp"} /\ arg'[p] = arg[p]
  BY <1>1 DEF HasParent
<1>2. ASSUME NEW q \in Procs, q # p, NEW c, NEW r, NEW a, NEW x, NEW n,
             GoOn(q, c, r, a, x, n)
      PROVE pc'[p] = pc[p] /\ arg'[p] = arg[p]
  BY <1>2 DEF GoOn, IInv, TypeOK
<1>3. ASSUME NEW q \in Procs, NEW c \in {"idle", "setBudget", "read", "swap", "save"},
             NEW r, NEW a, NEW x, NEW n, GoOn(q, c, r, a, x, n)
      PROVE pc'[p] = pc[p] /\ arg'[p] = arg[p]
  <2>1. q # p
    BY <1>3 DEF GoOn, IInv, TypeOK
  <2> QED
    BY <1>2, <1>3, <2>1
<1>4. ASSUME NEW q \in Procs, NEW r \in Runs, NEW m \in Runs, NEW t, Recover(q, r, m, t)
      PROVE arg'[p].parent # NoRun \/ (pc'[p] = pc[p] /\ arg'[p] = arg[p])
  <2> DEFINE a == [NoArg EXCEPT !.parent = m, !.root = RootFor(m, t)]
  <2>1. GoOn(q, "mint", r, a, NoRow, 0)
    BY <1>4 DEF Recover
  <2>2. a.parent = m
    BY DEF NoArg
  <2> HIDE DEF a
  <2>3. CASE q = p
    BY <2>1, <2>2, <2>3, EmptyId DEF GoOn, IInv, TypeOK
  <2> QED
    BY <1>2, <2>1, <2>3
<1>5. ASSUME NEW q \in Procs, Call(q)
      PROVE arg'[p].parent # NoRun \/ (pc'[p] = pc[p] /\ arg'[p] = arg[p])
  BY <1>3, <1>4, <1>5
     DEF Call, OpenRun, frame, SetFailureBudget, IncrementFailureBudget, ReadRow
<1>6. ASSUME NEW q \in Procs, MintChild(q)
      PROVE pc[p] \in {"mint", "stamp"} /\ arg'[p] = arg[p]
  <2>1. CASE Return(q)
    BY <1>3, <2>1 DEF Return
  <2>2. CASE GoOn(q, "stamp", id[q], arg[q], NoRow, 0)
    <3>1. CASE q = p
      BY <1>6, <2>2, <3>1 DEF MintChild, GoOn, IInv, TypeOK
    <3> QED
      BY <1>2, <2>2, <3>1
  <2> QED
    BY <1>6, <2>1, <2>2 DEF MintChild
<1>7. ASSUME NEW q \in Procs, Step(q), ~MintChild(q)
      PROVE pc'[p] = pc[p] /\ arg'[p] = arg[p]
  BY <1>3, <1>7
     DEF Step, StampParentage, WriteBudget, ReadCounter, Swap, Retry, SaveRow, Return
<1> QED
  BY <1>1, <1>5, <1>6, <1>7 DEF Next, vars

\* A budget that is settled is not written over, and a child stays one.
LEMMA SettledWrite ==
  ASSUME IInv, HasParent, [Next]_vars, NEW r \in Runs, Settled(r)
  PROVE /\ run'[r].budget = run[r].budget
        /\ run'[r].budget # 0 \/ run'[r].parent # NoRun
<1>1. run \in [Runs -> Row] /\ run[r] \in Row /\ (run[r].budget # 0 \/ run[r].parent # NoRun)
  BY DEF IInv, TypeOK, Settled
<1>2. CASE run' = run
  BY <1>1, <1>2
<1>3. ASSUME NEW q \in Runs, ~run[q].opened,
             run' = [run EXCEPT ![q] = [NoRow EXCEPT !.opened = TRUE]]
      PROVE run'[r] = run[r]
  <2>1. q # r
    BY <1>1, <1>3 DEF IInv, NoRow
  <2> QED
    BY <1>1, <1>3, <2>1
<1>4. ASSUME NEW p \in Procs, Call(p) PROVE run' = run \/ run'[r] = run[r]
  BY <1>3, <1>4
     DEF Call, OpenRun, Recover, SetFailureBudget, IncrementFailureBudget, ReadRow
<1>5. ASSUME NEW p \in Procs, Step(p)
      PROVE /\ run'[r].budget = run[r].budget
            /\ run'[r].budget # 0 \/ run'[r].parent # NoRun
  <2>1. CASE MintChild(p)
    BY <1>1, <1>2, <1>3, <2>1 DEF MintChild, IInv, FrameOK
  <2>2. CASE StampParentage(p)
    <3>1. CASE id[p] = r
      BY <1>1, <2>2, <3>1 DEF StampParentage, HasParent, Row
    <3> QED
      BY <1>1, <2>2, <3>1 DEF StampParentage
  <2>3. CASE WriteBudget(p)
    <3>1. id[p] # r
      BY <2>3 DEF WriteBudget, Settled
    <3> QED
      BY <1>1, <2>3, <3>1 DEF WriteBudget
  <2>4. CASE ReadCounter(p)
    BY <1>1, <2>4 DEF ReadCounter
  <2>5. CASE Swap(p)
    <3>1. CASE id[p] = r
      BY <1>1, <2>5, <3>1 DEF Swap, Row
    <3> QED
      BY <1>1, <2>5, <3>1 DEF Swap
  <2>6. CASE SaveRow(p)
    <3>1. CASE id[p] = r
      <4>1. run'[r] = snap[p]
        BY <1>1, <2>6, <3>1 DEF SaveRow
      <4> QED
        BY <2>6, <3>1, <4>1 DEF SaveRow, Settled
    <3> QED
      BY <1>1, <2>6, <3>1 DEF SaveRow
  <2> QED
    BY <1>5, <2>1, <2>2, <2>3, <2>4, <2>5, <2>6 DEF Step
<1> QED
  BY <1>1, <1>2, <1>4, <1>5 DEF Next, vars

LEMMA SettledKept ==
  ASSUME IInv, HasParent, [Next]_vars, NEW r \in Runs, Settled(r)
  PROVE Settled(r)' /\ run'[r].budget = run[r].budget
<1>1. /\ run'[r].budget = run[r].budget
      /\ run'[r].budget # 0 \/ run'[r].parent # NoRun
  BY SettledWrite
<1>2. ASSUME NEW p \in Procs, id'[p] = r
      PROVE /\ pc'[p] # "setBudget"
            /\ pc'[p] = "save" => /\ snap'[p].budget = run[r].budget
                                  /\ snap'[p].budget # 0 \/ snap'[p].parent # NoRun
  <2>1. CASE pc'[p] = pc[p] /\ id'[p] = id[p] /\ snap'[p] = snap[p]
    BY <1>2, <2>1 DEF Settled
  <2>2. ASSUME NEW q \in Procs, NEW c \in {"idle", "mint", "stamp", "read", "swap"},
               NEW s, NEW a, NEW x, NEW n, GoOn(q, c, s, a, x, n)
        PROVE \/ pc'[p] \notin {"setBudget", "save"}
              \/ pc'[p] = pc[p] /\ id'[p] = id[p] /\ snap'[p] = snap[p]
    BY <2>2 DEF GoOn, IInv, TypeOK
  <2>3. ASSUME NEW q \in Procs, NEW s \in Runs, NEW b \in Budgets, SetFailureBudget(q, s, b)
        PROVE pc'[p] = pc[p] /\ id'[p] = id[p] /\ snap'[p] = snap[p]
    <3>1. run[s].budget = 0 /\ run[s].parent = NoRun
      BY <2>3 DEF SetFailureBudget, IsRoot
    <3>2. s # r
      BY <3>1 DEF Settled
    <3>3. q # p
      BY <1>2, <2>3, <3>2 DEF SetFailureBudget, GoOn, IInv, TypeOK
    <3> QED
      BY <2>3, <3>3 DEF SetFailureBudget, GoOn, IInv, TypeOK
  <2>4. ASSUME NEW q \in Procs, NEW s \in Runs, ReadRow(q, s)
        PROVE \/ pc'[p] = pc[p] /\ id'[p] = id[p] /\ snap'[p] = snap[p]
              \/ pc'[p] = "save" /\ snap'[p] = run[r]
    BY <1>2, <2>4 DEF ReadRow, GoOn, IInv, TypeOK
  <2>5. ASSUME NEW q \in Procs, Call(q)
        PROVE \/ pc'[p] \notin {"setBudget", "save"}
              \/ pc'[p] = pc[p] /\ id'[p] = id[p] /\ snap'[p] = snap[p]
              \/ pc'[p] = "save" /\ snap'[p] = run[r]
    BY <2>2, <2>3, <2>4, <2>5 DEF Call, OpenRun, frame, Recover, IncrementFailureBudget
  <2>6. ASSUME NEW q \in Procs, Step(q)
        PROVE \/ pc'[p] \notin {"setBudget", "save"}
              \/ pc'[p] = pc[p] /\ id'[p] = id[p] /\ snap'[p] = snap[p]
    BY <2>2, <2>6
       DEF Step, MintChild, StampParentage, WriteBudget, ReadCounter, Swap, Retry, SaveRow, Return
  <2>7. CASE pc'[p] = "save" /\ snap'[p] = run[r]
    BY <2>7 DEF Settled
  <2> QED
    BY <2>1, <2>5, <2>6, <2>7 DEF Next, vars
<1> QED
  BY <1>1, <1>2 DEF Settled

\* For any callers, any budgets, saves and recoveries beside them: when the calls that
\* read a run before it had a budget, or before it was stamped a child, are through,
\* its budget never changes again (SetFailureBudget, CreateRecoveryWorkflowRun).
THEOREM BudgetsSettle == Spec => BudgetSettles
<1>1. Init => HasParent
  BY DEF Init, HasParent
<1>2. IInv /\ HasParent /\ [Next]_vars => HasParent'
  BY HasParentKept
<1>3. IInv /\ HasParent /\ [Next]_vars
      => [\A r \in Runs : Settled(r) => Settled(r)' /\ run'[r].budget = run[r].budget]_vars
  BY SettledKept
<1> QED
  BY <1>1, <1>2, <1>3, Invariant, PTL DEF Spec, BudgetSettles
-----------------------------------------------------------------------------
(* The alarm *)

LEMMA BudgetSeenKept ==
  ASSUME IInv, BudgetSeen, [Next]_vars, Frozen
  PROVE BudgetSeen'
<1> SUFFICES ASSUME NEW p \in Procs, pc'[p] = "swap"
             PROVE snap'[p].budget \in {0, run'[id'[p]].budget}
  BY DEF BudgetSeen
<1>1. CASE pc[p] = "swap" /\ id'[p] = id[p] /\ snap'[p] = snap[p]
  <2>1. id[p] \in Runs
    BY <1>1 DEF IInv, FrameOK
  <2> QED
    BY <1>1, <2>1 DEF BudgetSeen, Frozen
<1>2. CASE run' = run /\ id'[p] = id[p] /\ snap'[p] = run[id[p]]
  BY <1>2
<1>3. ASSUME NEW q \in Procs, Call(q) \/ Step(q)
      PROVE \/ pc[p] = "swap" /\ id'[p] = id[p] /\ snap'[p] = snap[p]
            \/ run' = run /\ id'[p] = id[p] /\ snap'[p] = run[id[p]]
  <2>1. ASSUME q # p, NEW c, NEW r, NEW a, NEW x, NEW n, GoOn(q, c, r, a, x, n)
        PROVE pc[p] = "swap" /\ id'[p] = id[p] /\ snap'[p] = snap[p]
    BY <2>1 DEF GoOn, IInv, TypeOK
  <2>2. ASSUME NEW c \in {"idle", "mint", "stamp", "setBudget", "read", "save"},
               NEW r, NEW a, NEW x, NEW n, GoOn(q, c, r, a, x, n)
        PROVE q # p
    BY <2>2 DEF GoOn, IInv, TypeOK
  <2>3. CASE Call(q)
    BY <2>1, <2>2, <2>3
       DEF Call, OpenRun, frame, Recover, SetFailureBudget, IncrementFailureBudget, ReadRow
  <2>4. CASE ReadCounter(q)
    <3>1. CASE GoOn(q, "swap", id[q], arg[q], run[id[q]], attempt[q])
      <4>1. CASE q = p
        BY <2>4, <3>1, <4>1 DEF ReadCounter, GoOn, IInv, TypeOK
      <4> QED
        BY <2>1, <3>1, <4>1
    <3>2. CASE Return(q)
      BY <2>1, <2>2, <3>2 DEF Return
    <3> QED
      BY <2>4, <3>1, <3>2 DEF ReadCounter
  <2>5. CASE MintChild(q) \/ StampParentage(q) \/ WriteBudget(q) \/ Swap(q) \/ SaveRow(q)
    BY <2>1, <2>2, <2>5
       DEF MintChild, StampParentage, WriteBudget, Swap, Retry, SaveRow, Return
  <2> QED
    BY <1>3, <2>3, <2>4, <2>5 DEF Step
<1>4. CASE UNCHANGED vars
  BY <1>1, <1>4 DEF vars
<1> QED
  BY <1>1, <1>2, <1>3, <1>4 DEF Next

\* What a charge answers: the counter it leaves in the table, and an alarm about it.
Answered(p) ==
  LET x == run'[id[p]]
      over == x.budget > 0 /\ x.used > x.budget
  IN  /\ answer'[p].used = x.used
      /\ answer'[p].exhausted => over
      /\ over => answer'[p].exhausted \/ answer'[p].budget = 0

LEMMA ReplyAnswers ==
  ASSUME IInv, NEW p \in Procs, NEW u, NEW b, Reply(p, u, b),
         run'[id[p]].used = u, b = 0 \/ b = run'[id[p]].budget
  PROVE Answered(p)
<1>1. answer'[p] = [ok |-> TRUE, used |-> u, budget |-> b, exhausted |-> Exhausted(u, b)]
  BY DEF Reply, IInv, TypeOK
<1>2. /\ answer'[p].used = u /\ answer'[p].budget = b
      /\ answer'[p].exhausted = (b > 0 /\ u > b)
  BY <1>1 DEF Exhausted
<1>3. CASE b = 0
  <2>1. ~(b > 0)
    BY <1>3
  <2> QED
    BY <1>2, <1>3, <2>1, Zenon DEF Answered
<1>4. CASE b = run'[id[p]].budget
  BY <1>2, <1>4, Zenon DEF Answered
<1> QED
  BY <1>3, <1>4

LEMMA StepAnswers ==
  ASSUME IInv, BudgetSeen, [Next]_vars,
         NEW p \in Procs, answer'[p] # answer[p], answer'[p].ok
  PROVE Answered(p)
<1>1. answer' # answer
  OBVIOUS
<1>2. ASSUME NEW q \in Procs, Call(q) PROVE FALSE
  <2>1. PICK r \in Runs, c \in Children : IncrementFailureBudget(q, r, c)
    BY <1>1, <1>2 DEF Call, OpenRun, Recover, SetFailureBudget, ReadRow
  <2>2. answer'[p] = NoAnswer \/ answer'[p] = answer[p]
    BY <2>1 DEF IncrementFailureBudget, IInv, TypeOK
  <2> QED
    BY <2>2 DEF NoAnswer
<1>3. PICK q \in Procs : Step(q)
  BY <1>1, <1>2 DEF Next, vars
<1>4. ReadCounter(q) \/ Swap(q)
  BY <1>1, <1>3 DEF Step, MintChild, StampParentage, WriteBudget, SaveRow
<1>5. ASSUME NEW u, NEW b, Reply(q, u, b) PROVE q = p
  BY <1>5 DEF Reply, IInv, TypeOK
<1>6. pc[q] # "idle" /\ id[q] \in Runs /\ run \in [Runs -> Row] /\ run[id[q]] \in Row
  BY <1>4 DEF IInv, TypeOK, FrameOK, ReadCounter, Swap
<1>7. CASE ReadCounter(q)
  <2>1. run' = run /\ Reply(q, run[id[q]].used, run[id[q]].budget)
    BY <1>1, <1>7 DEF ReadCounter
  <2> QED
    BY <1>5, <2>1, ReplyAnswers
<1>8. CASE Swap(q)
  <2>1. /\ run' = [run EXCEPT ![id[q]].used = snap[q].used + 1,
                              ![id[q]].counted = snap[q].counted \cup {arg[q].child}]
        /\ Reply(q, snap[q].used + 1, snap[q].budget)
    BY <1>1, <1>8 DEF Swap
  <2>2. /\ run'[id[q]].used = snap[q].used + 1
        /\ run'[id[q]].budget = run[id[q]].budget
    BY <1>6, <2>1 DEF Row
  <2>3. snap[q].budget = 0 \/ snap[q].budget = run[id[q]].budget
    BY <1>8 DEF BudgetSeen, Swap
  <2> QED
    BY <1>5, <2>1, <2>2, <2>3, ReplyAnswers
<1> QED
  BY <1>4, <1>7, <1>8

\* However charges race with each other, with whole rows saved over the counter and
\* with the budget being set: as long as a budget that is set is not changed, an
\* answer counts what the table counts, an alarm is true of the budget in the table,
\* and only a charge that read the row without a budget misses one
\* (IncrementFailureBudget).
THEOREM ExhaustedMeansIt == Spec /\ BudgetFrozen => AlarmsAreTrue
<1>1. Init => BudgetSeen
  BY DEF Init, BudgetSeen
<1>2. IInv /\ BudgetSeen /\ [Next]_vars
        /\ [\A r \in Runs : run[r].budget # 0 => run'[r].budget = run[r].budget]_run
      => BudgetSeen'
  BY BudgetSeenKept DEF Frozen
<1>3. IInv /\ BudgetSeen /\ [Next]_vars
      => [\A p \in Procs : answer'[p] # answer[p] /\ answer'[p].ok =>
            LET x == run'[id[p]]
                over == x.budget > 0 /\ x.used > x.budget
            IN  /\ answer'[p].used = x.used
                /\ answer'[p].exhausted => over
                /\ over => answer'[p].exhausted \/ answer'[p].budget = 0]_vars
  BY StepAnswers DEF Answered
<1> QED
  BY <1>1, <1>2, <1>3, Invariant, PTL DEF Spec, BudgetFrozen, AlarmsAreTrue
-----------------------------------------------------------------------------
(* One call at a time: the lineage *)

\* A write that changes no parentage, names only roots as roots and leaves the
\* budgets and charges of children alone.
LEMMA LineageGrows ==
  ASSUME IInv, LineageOK, run' \in [Runs -> Row],
         \A r \in Runs :
           /\ run[r].opened => run'[r].opened
           /\ run'[r].parent = run[r].parent
           /\ \/ run'[r].root = run[r].root
              \/ IsRoot(run'[r].root) /\ run'[r].root \in Runs
           /\ run[r].parent # NoRun => run'[r].budget = run[r].budget /\ run'[r].used = run[r].used
           /\ run[r].root # NoRun => run'[r].root # NoRun
  PROVE LineageOK'
<1>1. \A r \in Runs : run[r].root \in Runs \cup {NoRun}
  BY DEF IInv, TypeOK, Row
<1>2. \A r \in Runs : IsRoot(r) => run'[r].opened /\ run'[r].parent = NoRun
  BY DEF IsRoot
<1> QED
  BY <1>1, <1>2 DEF LineageOK, IsRoot

\* A run that is opened.
LEMMA LineageOpened ==
  ASSUME IInv, LineageOK, NEW r \in Runs, ~run[r].opened,
         run' = [run EXCEPT ![r] = [NoRow EXCEPT !.opened = TRUE]]
  PROVE /\ LineageOK'
        /\ \A q \in Runs : IsRoot(q) => q # r /\ IsRoot(q)'
        /\ \A q \in Runs : run[q].root # r /\ run'[q].root # r
<1>1. /\ run \in [Runs -> Row] /\ run[r] = NoRow
      /\ run'[r] = [NoRow EXCEPT !.opened = TRUE]
      /\ \A q \in Runs \ {r} : run'[q] = run[q]
  BY DEF IInv, TypeOK
<1>2. run' \in [Runs -> Row]
  BY <1>1, OpenedRow DEF IInv, TypeOK
<1>3. /\ run'[r].parent = NoRun /\ run'[r].root = NoRun
      /\ run[r].parent = NoRun /\ run[r].root = NoRun
  BY <1>1 DEF NoRow
<1>4. LineageOK'
  BY <1>1, <1>2, <1>3, LineageGrows
<1>5. \A q \in Runs : IsRoot(q) => q # r /\ IsRoot(q)'
  BY <1>1 DEF IsRoot
<1>6. \A q \in Runs : run[q].root # r /\ run'[q].root # r
  BY <1>1, <1>3, EmptyId DEF LineageOK, IsRoot
<1> QED
  BY <1>4, <1>5, <1>6

\* The root of a new recovery run is the parent's root, or the parent.
LEMMA RootForIsRoot ==
  ASSUME IInv, LineageOK, NEW m \in Runs, run[m].opened
  PROVE RootFor(m, NoRun) \in Runs /\ IsRoot(RootFor(m, NoRun))
<1>1. run[m].root \in Runs \cup {NoRun}
  BY DEF IInv, TypeOK, Row
<1>2. CASE run[m].root # NoRun
  BY <1>1, <1>2 DEF LineageOK, RootFor
<1>3. CASE run[m].root = NoRun
  BY <1>3 DEF LineageOK, RootFor, IsRoot
<1> QED
  BY <1>2, <1>3

\* A call that goes on to any other statement has nothing to stamp.
LEMMA NothingToStamp ==
  ASSUME IInv, NEW p \in Procs, NEW c \in {"idle", "setBudget", "read", "swap", "save"},
         NEW r, NEW a, NEW x, NEW n, GoOn(p, c, r, a, x, n)
  PROVE ToStamp(p)'
BY DEF GoOn, IInv, TypeOK, ToStamp

LEMMA CallsKeepLineage ==
  ASSUME GivenRoots = {}, IInv, LineageOK, NEW p \in Procs, Call(p)
  PROVE LineageOK' /\ ToStamp(p)'
<1>1. CASE UNCHANGED run
  <2>1. LineageOK'
    BY <1>1 DEF LineageOK, IsRoot
  <2>2. ASSUME NEW r \in Runs, NEW m \in Runs, Recover(p, r, m, NoRun) PROVE ToStamp(p)'
    <3>1. RootFor(m, NoRun) \in Runs /\ IsRoot(RootFor(m, NoRun))
      BY <2>2, RootForIsRoot DEF Recover
    <3> DEFINE a == [NoArg EXCEPT !.parent = m, !.root = RootFor(m, NoRun)]
    <3>2. a.root = RootFor(m, NoRun)
      BY DEF NoArg
    <3>3. GoOn(p, "mint", r, a, NoRow, 0)
      BY <2>2 DEF Recover
    <3> HIDE DEF a
    <3>4. pc'[p] = "mint" /\ arg'[p].root = RootFor(m, NoRun)
      BY <3>2, <3>3 DEF GoOn, IInv, TypeOK
    <3> QED
      BY <1>1, <3>1, <3>4 DEF ToStamp, IsRoot
  <2>3. ASSUME NEW r \in Runs, OpenRun(p, r) PROVE ToStamp(p)'
    BY <2>3 DEF OpenRun, frame, Idle, ToStamp
  <2>4. ASSUME NEW r \in Runs, NEW b \in Budgets, SetFailureBudget(p, r, b) PROVE ToStamp(p)'
    BY <2>4, NothingToStamp DEF SetFailureBudget
  <2>5. ASSUME NEW r \in Runs, NEW c \in Children, IncrementFailureBudget(p, r, c)
        PROVE ToStamp(p)'
    BY <2>5, NothingToStamp DEF IncrementFailureBudget
  <2>6. ASSUME NEW r \in Runs, ReadRow(p, r) PROVE ToStamp(p)'
    BY <2>6, NothingToStamp DEF ReadRow
  <2> QED
    BY <2>1, <2>2, <2>3, <2>4, <2>5, <2>6 DEF Call
<1>2. ASSUME NEW r \in Runs, OpenRun(p, r) PROVE LineageOK' /\ ToStamp(p)'
  BY <1>2, LineageOpened DEF OpenRun, frame, Idle, ToStamp
<1> QED
  BY <1>1, <1>2 DEF Call, Recover, SetFailureBudget, IncrementFailureBudget, ReadRow

LEMMA StepsKeepLineage ==
  ASSUME IInv, LineageOK, NEW p \in Procs, HeldRow(p), ToStamp(p), Step(p)
  PROVE LineageOK' /\ ToStamp(p)'
<1>1. /\ run \in [Runs -> Row] /\ (pc[p] # "idle" => id[p] \in Runs /\ run[id[p]] \in Row)
      /\ arg[p] \in Arg
  BY DEF IInv, TypeOK, FrameOK
<1>2. IInv'
  BY NextKeeps DEF Next
<1>3. run' \in [Runs -> Row]
  BY <1>2 DEF IInv, TypeOK
<1>4. CASE MintChild(p)
  <2>1. pc[p] = "mint" /\ id[p] \in Runs
    BY <1>1, <1>4 DEF MintChild
  <2>2. CASE run[id[p]].opened
    <3>1. UNCHANGED run /\ Return(p)
      BY <1>4, <2>2 DEF MintChild
    <3> QED
      BY <3>1, NothingToStamp DEF Return, LineageOK, IsRoot
  <2>3. CASE ~run[id[p]].opened
    <3>1. /\ run' = [run EXCEPT ![id[p]] = [NoRow EXCEPT !.opened = TRUE]]
          /\ GoOn(p, "stamp", id[p], arg[p], NoRow, 0)
      BY <1>4, <2>3 DEF MintChild
    <3>2. /\ LineageOK' /\ \A q \in Runs : IsRoot(q) => q # id[p] /\ IsRoot(q)'
          /\ \A q \in Runs : run'[q].root # id[p]
      BY <2>1, <2>3, <3>1, LineageOpened
    <3>3. pc'[p] = "stamp" /\ id'[p] = id[p] /\ arg'[p] = arg[p]
      BY <3>1 DEF GoOn, IInv, TypeOK
    <3>4. run'[id[p]] = [NoRow EXCEPT !.opened = TRUE]
      BY <1>1, <2>1, <3>1
    <3> QED
      BY <2>1, <3>2, <3>3, <3>4 DEF ToStamp
  <2> QED
    BY <2>2, <2>3
<1>5. CASE StampParentage(p)
  <2>1. PICK q : q = id[p]
    OBVIOUS
  <2>2. /\ q \in Runs /\ run[q].budget = 0 /\ run[q].used = 0 /\ run[q].parent = NoRun
        /\ arg[p].root # q /\ arg[p].root \in Runs /\ IsRoot(arg[p].root)
        /\ arg[p].parent \in Runs \cup {NoRun}
        /\ \A r \in Runs : run[r].root # q
    BY <1>1, <1>5, <2>1 DEF StampParentage, ToStamp, NoRow, Arg
  <2>3. PICK y \in Row : y = run[q]
    BY <1>1, <2>2
  <2>4. PICK x : x = [y EXCEPT !.parent = arg[p].parent, !.root = arg[p].root]
    OBVIOUS
  <2>5. run' = [run EXCEPT ![q] = x]
    BY <1>1, <1>5, <2>1, <2>2, <2>3, <2>4 DEF StampParentage
  <2>6. x.root = arg[p].root /\ x.budget = 0 /\ x.used = 0
    BY <2>2, <2>3, <2>4 DEF Row
  <2>7. run'[q] = x /\ \A r \in Runs \ {q} : run'[r] = run[r]
    BY <1>1, <2>2, <2>5
  <2>8. \A r \in Runs \ {q} : IsRoot(r) => IsRoot(r)'
    BY <2>7 DEF IsRoot
  <2>9. LineageOK'
    <3> SUFFICES ASSUME NEW r \in Runs
                 PROVE /\ run'[r].parent # NoRun => /\ run'[r].root # NoRun
                                                    /\ run'[r].budget = 0 /\ run'[r].used = 0
                       /\ run'[r].root # NoRun => IsRoot(run[r].root)'
      BY DEF LineageOK, IsRoot
    <3>1. CASE r = q
      BY <2>2, <2>6, <2>7, <2>8, <3>1, EmptyId
    <3>2. CASE r # q
      <4>1. run[r].root \in Runs \cup {NoRun} /\ run[r].root # q
        BY <1>1, <2>2 DEF Row
      <4> QED
        BY <2>7, <2>8, <3>2, <4>1 DEF LineageOK
    <3> QED
      BY <3>1, <3>2
  <2>10. ToStamp(p)'
    BY <1>5, NothingToStamp DEF StampParentage, Return
  <2> QED
    BY <2>9, <2>10
<1>6. CASE WriteBudget(p)
  <2>1. PICK q : q = id[p]
    OBVIOUS
  <2>2. q \in Runs /\ IsRoot(q)
    BY <1>1, <1>6, <2>1 DEF WriteBudget, HeldRow
  <2>3. PICK y \in Row : y = run[q]
    BY <1>1, <2>2
  <2>4. PICK x : x = [y EXCEPT !.budget = arg[p].budget, !.root = q]
    OBVIOUS
  <2>5. run' = [run EXCEPT ![q] = x]
    BY <1>1, <1>6, <2>1, <2>2, <2>3, <2>4 DEF WriteBudget
  <2>6. x.root = q /\ x.parent = y.parent /\ x.opened = y.opened
    BY <2>3, <2>4 DEF Row
  <2>7. run'[q] = x /\ \A r \in Runs \ {q} : run'[r] = run[r]
    BY <1>1, <2>2, <2>5
  <2>8. LineageOK'
    BY <1>3, <2>2, <2>3, <2>6, <2>7, EmptyId, LineageGrows DEF IsRoot
  <2> QED
    BY <1>6, <2>8, NothingToStamp DEF WriteBudget, Return
<1>7. CASE ReadCounter(p)
  <2>1. LineageOK'
    BY <1>7 DEF ReadCounter, LineageOK, IsRoot
  <2> QED
    BY <1>7, <2>1, NothingToStamp DEF ReadCounter, Return
<1>8. CASE Swap(p)
  <2>1. ToStamp(p)'
    BY <1>8, NothingToStamp DEF Swap, Retry, Return
  <2>2. CASE UNCHANGED run
    BY <2>1, <2>2 DEF LineageOK, IsRoot
  <2>3. CASE run' # run
    <3>1. PICK q : q = id[p]
      OBVIOUS
    <3>2. q \in Runs /\ IsRoot(q)
      BY <1>1, <1>8, <3>1 DEF Swap, HeldRow
    <3>3. PICK y \in Row : y = run[q]
      BY <1>1, <3>2
    <3>4. PICK x : x = [y EXCEPT !.used = snap[p].used + 1,
                                 !.counted = snap[p].counted \cup {arg[p].child}]
      OBVIOUS
    <3>5. run' = [run EXCEPT ![q] = x]
      BY <1>1, <1>8, <2>3, <3>1, <3>2, <3>3, <3>4 DEF Swap
    <3>6. x.root = y.root /\ x.parent = y.parent /\ x.opened = y.opened
      BY <3>3, <3>4 DEF Row
    <3>7. run'[q] = x /\ \A r \in Runs \ {q} : run'[r] = run[r]
      BY <1>1, <3>2, <3>5
    <3>8. LineageOK'
      BY <1>3, <3>2, <3>3, <3>6, <3>7, LineageGrows DEF IsRoot
    <3> QED
      BY <2>1, <3>8
  <2> QED
    BY <2>2, <2>3
<1>9. CASE SaveRow(p)
  <2>1. run' = run
    BY <1>1, <1>9 DEF SaveRow, HeldRow
  <2> QED
    BY <1>9, <2>1, NothingToStamp DEF SaveRow, Return, LineageOK, IsRoot
<1> QED
  BY <1>4, <1>5, <1>6, <1>7, <1>8, <1>9 DEF Step

LEMMA OneByOneKept ==
  ASSUME OneCaller, GivenRoots = {}, IInv, OneByOne, [Next]_vars
  PROVE OneByOne'
<1>1. HeldRows'
  BY HeldRowsKept DEF OneByOne, HeldRows
<1>2. CASE UNCHANGED vars
  BY <1>1, <1>2 DEF vars, OneByOne, HeldRows, LineageOK, ToStamp, IsRoot
<1>3. ASSUME NEW p \in Procs, Call(p) \/ Step(p) PROVE OneByOne'
  <2>1. LineageOK' /\ ToStamp(p)'
    BY <1>3, CallsKeepLineage, StepsKeepLineage DEF OneByOne
  <2>2. \A q \in Procs : q = p
    BY DEF OneCaller
  <2> QED
    BY <1>1, <2>1, <2>2 DEF OneByOne, HeldRows
<1> QED
  BY <1>2, <1>3 DEF Next

\* When calls come one at a time and CreateRecoveryWorkflowRun finds the roots
\* itself, budgets and charges are on root runs alone and every run's root is
\* one (CreateRecoveryWorkflowRun, SetFailureBudget, IncrementFailureBudget).
THEOREM ChildrenHaveNoBudget ==
  ASSUME OneCaller, GivenRoots = {}
  PROVE Spec => []RootsAlone
<1>1. Init => OneByOne
  BY DEF Init, OneByOne, LineageOK, HeldRow, ToStamp, NoRow
<1>2. IInv /\ OneByOne /\ [Next]_vars => OneByOne'
  BY OneByOneKept
<1>3. OneByOne => RootsAlone
  BY DEF OneByOne, LineageOK, RootsAlone, IsRoot
<1> QED
  BY <1>1, <1>2, <1>3, Invariant, PTL DEF Spec
=============================================================================
