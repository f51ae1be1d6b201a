--------------------------- MODULE KeyedCreation ---------------------------
(***************************************************************************)
(* Creating a thing once under a natural key: a repeating task's period    *)
(* (repeating_store.go), the items of a source (sourced.go), the subjects  *)
(* of a generation (generated.go), a tag by its name (task_impl_task.go),  *)
(* an agent by its slug (agent.go) and a todo (todo.go); tags and todos    *)
(* with a code from the counters of codesequence.go.                       *)
(*                                                                         *)
(* A call is its database statements.  What a transaction has inserted is  *)
(* in its call's record until it commits: nobody reads it, but whoever     *)
(* inserts the same key, or advances the same counter, waits for it, and   *)
(* the database ends one of the calls that wait in a circle.               *)
(***************************************************************************)
EXTENDS Naturals, Sequences

CONSTANTS
  Procs,      \* concurrent callers
  Keys,       \* the natural keys; a todo's is its own id
  KindOf,     \* the kind of thing each key names
  NoId,       \* a key without a thing
  Lists,      \* the lists of keys that batch calls name (a bound)
  Template,   \* the repeating task of each period
  Templates   \* the repeating tasks

Kinds     == {"period", "item", "subject", "tag", "todo", "agent"}
Batched   == {"item", "subject"}  \* several keys in one transaction
Numbered  == {"tag", "todo"}      \* things with a code
Retried   == {"period", "tag"}    \* calls that look again when they failed
TaskKinds == {"period", "item", "subject"}
Of(kind)  == {k \in Keys : KindOf[k] = kind}

\* newSpecID: an id no other call has. A caller that tries again after its
\* transaction was undone takes the id no row has kept.
Ids         == Procs \X Keys
NewId(p, k) == <<p, k>>

ASSUME KeyKinds == KindOf \in [Keys -> Kinds] /\ NoId \notin Ids
ASSUME TemplateOfPeriods == Template \in [Of("period") -> Templates]
\* normalizeSourcedItems and normalizeGenerateTasks: at least one key, none twice.
Normal(s) ==
  /\ s \in Seq(Keys) /\ s # <<>> /\ KindOf[s[1]] \in Batched
  /\ \A i \in 1 .. Len(s) : KindOf[s[i]] = KindOf[s[1]]
  /\ \A i, j \in 1 .. Len(s) : s[i] = s[j] => i = j
ASSUME ListsNormal == \A s \in Lists : Normal(s)

VARIABLES
  row,       \* the committed row of each key: the thing it names
  code,      \* the committed code of each numbered thing, 0 for none
  counter,   \* the code_sequence rows: the next number, 0 while there is no row
  tasks,     \* the committed tasks
  template,  \* the repeating_task rows
  told,      \* how often each event was published
  opened,    \* history: how many callers were told they had made a key's thing
  answers,   \* history: the pairs of key and thing that callers were answered
  lost,      \* history: the tasks with events that a crash or an unheard commit dropped
  call       \* per caller: the call under way

tables == <<row, code, counter, tasks, template>>
ghosts == <<told, opened, answers, lost>>
vars   == <<row, code, counter, tasks, template, told, opened, answers, lost, call>>
-----------------------------------------------------------------------------
(* Calls *)

\* The events that making a thing holds back until the commit, in their order.
Topics == {"task.created", "task.handed_over"}
Events(id) ==
  CASE KindOf[id[2]] = "period"  -> << <<"task.created", id>>, <<"task.handed_over", id>> >>
    [] KindOf[id[2]] \in Batched -> << <<"task.created", id>> >>
    [] OTHER                     -> << >>

Causes == {"race", "fault", "deadlock"}

\* at: the statement about to run. list, i: the keys asked for and the one at
\* hand. got: what each is answered with. mine, new: the keys and the tasks
\* inserted and not committed. number: the code number claimed. held: events to
\* publish. why: what undid the transaction.
Call == [at: {"idle", "find", "number", "create", "insert", "commit", "again", "tell"},
         list: Seq(Keys), i: Nat,
         got: [Keys -> Ids \cup {NoId}], mine: SUBSET Keys, new: SUBSET Ids,
         number: Nat, held: Seq(Topics \X Ids), why: Causes \cup {"none"}]

Nothing == [k \in Keys |-> NoId]
NoCall == [at |-> "idle", list |-> <<>>, i |-> 0, got |-> Nothing, mine |-> {},
           new |-> {}, number |-> 0, held |-> <<>>, why |-> "none"]

At(p, s)  == call[p].at = s
Key(p)    == call[p].list[call[p].i]
Kind(p)   == KindOf[Key(p)]
More(p)   == call[p].i < Len(call[p].list)
Asked(x)  == {x.list[j] : j \in 1 .. Len(x.list)}
Goes(p, x) == call' = [call EXCEPT ![p] = x]

\* The caller is answered the thing of every key, and which of them it made.
Answer(p, got) ==
  /\ answers' = answers \cup {<<k, got[k]>> : k \in Asked(call[p])}
  /\ opened' = [k \in Keys |-> IF k \in call[p].mine THEN opened[k] + 1 ELSE opened[k]]
  /\ Goes(p, NoCall)

Unanswered == UNCHANGED <<opened, answers>>

\* The transaction is undone. A tick and a tag's upsert look again whether
\* another call has made the thing; the others return the error.
Undo_KeepsMade(p, why) ==
  Goes(p, IF Kind(p) \in Retried THEN [call[p] EXCEPT !.at = "again", !.why = why] ELSE NoCall)
Undo(p, why) ==
  Goes(p, IF Kind(p) \in Retried
            THEN [NoCall EXCEPT !.at = "again", !.list = call[p].list, !.i = 1, !.why = why]
            ELSE NoCall)

\* The callers whose uncommitted rows p has to wait for.
WaitsFor(p) ==
  {q \in Procs \ {p} :
     \/ At(p, "insert") /\ Key(p) \in call[q].mine /\ ~At(q, "tell")
     \/ At(p, "number") /\ call[q].number # 0 /\ Kind(q) = Kind(p)}
-----------------------------------------------------------------------------
(* The calls begin *)

Begin(p, s, at) ==
  /\ At(p, "idle")
  /\ Goes(p, [NoCall EXCEPT !.at = at, !.list = s, !.i = 1])
  /\ UNCHANGED <<tables, ghosts>>

StartRepeatingTask(p, r) ==
  /\ At(p, "idle") /\ template[r] = "absent"
  /\ template' = [template EXCEPT ![r] = "running"]
  /\ UNCHANGED <<row, code, counter, tasks, ghosts, call>>

\* StopRepeatingTask reads the row and writes stopped_at, which only says again
\* what another stop has written in between.
StopRepeatingTask(p, r) ==
  /\ At(p, "idle") /\ template[r] = "running"
  /\ template' = [template EXCEPT ![r] = "stopped"]
  /\ UNCHANGED <<row, code, counter, tasks, ghosts, call>>

\* The period a tick falls in, of a template that runs.
OccurrenceAt(k) == template[Template[k]] = "running"
MakeRepeatingTaskDue(p, k) == OccurrenceAt(k) /\ Begin(p, <<k>>, "find")

OpenSourcedTasks(p, s) == KindOf[s[1]] = "item" /\ Begin(p, s, "find")

GenerateTasks(p, s) == KindOf[s[1]] = "subject" /\ Begin(p, s, "find")

UpsertTag(p, k)   == Begin(p, <<k>>, "find")
UpsertAgent(p, k) == Begin(p, <<k>>, "find")

\* CreateTaskTodo mints the key: no row and no other call has it.
CreateTaskTodo(p, k) ==
  /\ row[k] = NoId /\ \A q \in Procs : k \notin Asked(call[q])
  /\ Begin(p, <<k>>, "number")
-----------------------------------------------------------------------------
(* Their statements *)

\* The first statement of making a kind of thing that was not found.
Making(kind) ==
  CASE kind = "tag"   -> "number"
    [] kind = "agent" -> "insert"
    [] OTHER          -> "create"

\* periodMade, sourcedTask, generatedTask and the lookups by name and slug. A
\* batch that finds its key goes on to the next; the others answer.
Find(p) ==
  /\ At(p, "find")
  /\ \/ /\ row[Key(p)] = NoId
        /\ Goes(p, [call[p] EXCEPT !.at = Making(Kind(p))])
        /\ Unanswered
     \/ /\ row[Key(p)] # NoId /\ Kind(p) \in Batched
        /\ LET found == [call[p] EXCEPT !.got = [@ EXCEPT ![Key(p)] = row[Key(p)]]]
           IN  Goes(p, IF More(p) THEN [found EXCEPT !.i = @ + 1]
                                  ELSE [found EXCEPT !.at = "commit"])
        /\ Unanswered
     \/ /\ row[Key(p)] # NoId /\ Kind(p) \notin Batched
        /\ Answer(p, row)
  /\ UNCHANGED <<tables, told, lost>>

\* nextCode: the first statement on the counter waits for a transaction that has
\* advanced it.
Number_OwnTx(p) ==
  /\ At(p, "number") /\ WaitsFor(p) = {}
  /\ Goes(p, [call[p] EXCEPT !.at = "insert",
                             !.number = IF counter[Kind(p)] = 0 THEN 1 ELSE counter[Kind(p)]])
  /\ counter' = [counter EXCEPT ![Kind(p)] = IF @ = 0 THEN 2 ELSE @ + 1]
  /\ UNCHANGED <<row, code, tasks, template, ghosts>>
Number(p) ==
  /\ At(p, "number") /\ WaitsFor(p) = {}
  /\ Goes(p, [call[p] EXCEPT !.at = "insert",
                             !.number = IF counter[Kind(p)] = 0 THEN 1 ELSE counter[Kind(p)]])
  /\ UNCHANGED <<tables, ghosts>>

\* CreateTask in the transaction, and AssignTaskToHolder for a period.
Create_OwnTx(p) ==
  /\ At(p, "create")
  /\ tasks' = tasks \cup {NewId(p, Key(p))}
  /\ Goes(p, [call[p] EXCEPT !.at = "insert", !.held = @ \o Events(NewId(p, Key(p)))])
  /\ UNCHANGED <<row, code, counter, template, ghosts>>
Create_NotHeld(p) ==
  /\ At(p, "create")
  /\ told' = [told EXCEPT ![<<"task.created", NewId(p, Key(p))>>] = @ + 1]
  /\ Goes(p, [call[p] EXCEPT !.at = "insert", !.new = @ \cup {NewId(p, Key(p))}])
  /\ UNCHANGED <<tables, opened, answers, lost>>
Create(p) ==
  /\ At(p, "create")
  /\ LET id == NewId(p, Key(p))
     IN  Goes(p, [call[p] EXCEPT !.at = "insert", !.new = @ \cup {id},
                                 !.held = @ \o Events(id)])
  /\ UNCHANGED <<tables, ghosts>>

\* The row with the key. An agent's is a statement of its own, the others'
\* commits with the transaction.
Insert_NoWait(p) ==
  /\ At(p, "insert")
  /\ LET k == Key(p)
         made == [call[p] EXCEPT !.mine = @ \cup {k},
                                 !.got = [@ EXCEPT ![k] = NewId(p, k)]]
     IN  IF row[k] # NoId \/ WaitsFor(p) # {}
           THEN Undo(p, "race")
           ELSE Goes(p, IF More(p) THEN [made EXCEPT !.at = "find", !.i = @ + 1]
                                   ELSE [made EXCEPT !.at = "commit"])
  /\ UNCHANGED <<tables, ghosts>>
Insert_OwnTx(p) ==
  /\ At(p, "insert") /\ WaitsFor(p) = {} /\ row[Key(p)] = NoId
  /\ row' = [row EXCEPT ![Key(p)] = NewId(p, Key(p))]
  /\ Goes(p, [call[p] EXCEPT !.at = IF More(p) THEN "find" ELSE "commit",
                             !.i = IF More(p) THEN @ + 1 ELSE @,
                             !.got = [@ EXCEPT ![Key(p)] = NewId(p, Key(p))]])
  /\ UNCHANGED <<code, counter, tasks, template, ghosts>>
Insert(p) ==
  /\ At(p, "insert") /\ WaitsFor(p) = {}
  /\ LET k == Key(p)
         made == [call[p] EXCEPT !.mine = @ \cup {k},
                                 !.got = [@ EXCEPT ![k] = NewId(p, k)]]
     IN  \/ /\ row[k] # NoId
            /\ Undo(p, "race")
         \/ /\ row[k] = NoId
            /\ Goes(p, IF More(p) THEN [made EXCEPT !.at = "find", !.i = @ + 1]
                                  ELSE [made EXCEPT !.at = "commit"])
  /\ UNCHANGED <<tables, ghosts>>

\* What a commit writes.
Committed(p) ==
  /\ row'  = [k \in Keys |-> IF k \in call[p].mine THEN call[p].got[k] ELSE row[k]]
  /\ code' = [k \in Keys |-> IF k \in call[p].mine THEN call[p].number ELSE code[k]]
  /\ counter' = IF call[p].number = 0 THEN counter
                  ELSE [counter EXCEPT ![Kind(p)] = call[p].number + 1]
  /\ tasks' = tasks \cup call[p].new
  /\ UNCHANGED template

Commit(p) ==
  /\ At(p, "commit")
  /\ Committed(p)
  /\ IF call[p].held = <<>>
       THEN Answer(p, call[p].got)
       ELSE Goes(p, [call[p] EXCEPT !.at = "tell", !.number = 0]) /\ Unanswered
  /\ UNCHANGED <<told, lost>>

\* The events held, one after the other, and then the answer.
Tell(p) ==
  /\ At(p, "tell")
  /\ told' = [told EXCEPT ![Head(call[p].held)] = @ + 1]
  /\ IF Len(call[p].held) = 1
       THEN Answer(p, call[p].got)
       ELSE Goes(p, [call[p] EXCEPT !.held = Tail(@)]) /\ Unanswered
  /\ UNCHANGED <<tables, lost>>

\* The second look after a failure, outside the transaction.
Again_Retries(p) ==
  /\ At(p, "again")
  /\ IF row[Key(p)] # NoId THEN Answer(p, row)
       ELSE Goes(p, [call[p] EXCEPT !.at = "find"]) /\ Unanswered
  /\ UNCHANGED <<tables, told, lost>>
Again(p) ==
  /\ At(p, "again")
  /\ IF row[Key(p)] # NoId THEN Answer(p, row) ELSE Goes(p, NoCall) /\ Unanswered
  /\ UNCHANGED <<tables, told, lost>>
-----------------------------------------------------------------------------
(* What goes wrong *)

InTx(p) == \/ call[p].at \in {"number", "create", "insert", "commit"}
           \/ At(p, "find") /\ Kind(p) \in Batched

\* The database refuses a statement of the transaction, or its commit.
Fail(p) == InTx(p) /\ Undo(p, "fault") /\ UNCHANGED <<tables, ghosts>>

\* The tasks whose events a call still holds.
Unsaid(p) == {call[p].held[h][2] : h \in 1 .. Len(call[p].held)}

\* The commit is done and its reply is lost, and the events held with it.
CommitUnheard(p) ==
  /\ At(p, "commit") /\ Committed(p) /\ Undo(p, "fault")
  /\ lost' = lost \cup Unsaid(p)
  /\ UNCHANGED <<told, opened, answers>>

\* The database ends one of the transactions that wait for each other.
Deadlocked(p) ==
  \E S \in SUBSET Procs : /\ p \in S
                          /\ \A q \in S : WaitsFor(q) \cap S # {}
                          /\ \A q \in S : \E r \in S : q \in WaitsFor(r)
Victim(p) == Deadlocked(p) /\ Undo(p, "deadlock") /\ UNCHANGED <<tables, ghosts>>

\* The process dies: every call, its transaction and the events it held.
Crash ==
  /\ \E p \in Procs : ~At(p, "idle")
  /\ call' = [p \in Procs |-> NoCall]
  /\ lost' = lost \cup UNION {Unsaid(p) : p \in {q \in Procs : At(q, "tell")}}
  /\ UNCHANGED <<tables, told, opened, answers>>
-----------------------------------------------------------------------------
Init ==
  /\ row = Nothing /\ code = [k \in Keys |-> 0]
  /\ counter = [kind \in Numbered |-> 0]
  /\ tasks = {} /\ template = [r \in Templates |-> "absent"]
  /\ told = [e \in Topics \X Ids |-> 0]
  /\ opened = [k \in Keys |-> 0] /\ answers = {} /\ lost = {}
  /\ call = [p \in Procs |-> NoCall]

Starts(p) ==
  \/ \E r \in Templates : StartRepeatingTask(p, r) \/ StopRepeatingTask(p, r)
  \/ \E k \in Of("period") : MakeRepeatingTaskDue(p, k)
  \/ \E s \in Lists : OpenSourcedTasks(p, s) \/ GenerateTasks(p, s)
  \/ \E k \in Of("tag") : UpsertTag(p, k)
  \/ \E k \in Of("agent") : UpsertAgent(p, k)
  \/ \E k \in Of("todo") : CreateTaskTodo(p, k)

Runs(p) == Find(p) \/ Number(p) \/ Create(p) \/ Insert(p) \/ Commit(p) \/ Tell(p) \/ Again(p)

Faults(p) == Fail(p) \/ CommitUnheard(p)

Next == \/ \E p \in Procs : Starts(p) \/ Runs(p) \/ Victim(p) \/ Faults(p)
        \/ Crash

Spec == Init /\ [][Next]_vars
-----------------------------------------------------------------------------
(* Properties *)

TypeOK ==
  /\ row \in [Keys -> Ids \cup {NoId}]
  /\ code \in [Keys -> Nat] /\ counter \in [Numbered -> Nat]
  /\ tasks \subseteq Ids /\ template \in [Templates -> {"absent", "running", "stopped"}]
  /\ told \in [Topics \X Ids -> Nat] /\ opened \in [Keys -> Nat]
  /\ answers \subseteq Keys \X (Ids \cup {NoId}) /\ lost \subseteq Ids
  /\ call \in [Procs -> Call]

\* A call under way has a key at hand, of a kind that its statement is for, and
\* only the batches have several.
ListsOK ==
  \A p \in Procs :
    /\ At(p, "idle") <=> call[p] = NoCall
    /\ ~At(p, "idle") => /\ call[p].i \in 1 .. Len(call[p].list)
                         /\ \/ call[p].list \in Lists
                            \/ Len(call[p].list) = 1 /\ Kind(p) \notin Batched
    /\ At(p, "find")   => Kind(p) # "todo"
    /\ At(p, "number") => Kind(p) \in Numbered
    /\ At(p, "create") => Kind(p) \in TaskKinds
    /\ At(p, "again")  => Kind(p) \in Retried /\ call[p].mine = {}

\* The keys a call has dealt with: those before the one at hand, all at the end.
Over(x) == x.at \in {"commit", "tell"}
Done(x) == IF Over(x) THEN Asked(x) ELSE {x.list[j] : j \in 1 .. x.i - 1}

\* Each has been found or inserted, and nothing else has been inserted.
OutcomesOK ==
  \A p \in Procs :
    /\ call[p].mine \subseteq Done(call[p])
    /\ \A k \in Done(call[p]) :
         call[p].got[k] = IF k \in call[p].mine THEN NewId(p, k) ELSE row[k]
    /\ \A k \in Done(call[p]) \ call[p].mine : row[k] # NoId
    /\ Over(call[p]) /\ Kind(p) \notin Batched => Key(p) \in call[p].mine

\* A key that a call has inserted is nobody else's, and free until it commits.
KeysExclusive ==
  \A p \in Procs : \A k \in call[p].mine :
    /\ row[k] = IF At(p, "tell") THEN NewId(p, k) ELSE NoId
    /\ opened[k] = 0
    /\ \A q \in Procs \ {p} : k \notin call[q].mine

\* The tasks a call has created are those of the keys it has inserted and of the
\* one it is about to; the table has them from the commit on.
TasksOK ==
  \A p \in Procs :
    LET made == call[p].mine \cup (IF At(p, "insert") THEN {Key(p)} ELSE {})
    IN  /\ call[p].new = {NewId(p, k) : k \in {j \in made : KindOf[j] \in TaskKinds}}
        /\ At(p, "create") => NewId(p, Key(p)) \notin tasks
        /\ IF At(p, "tell") THEN call[p].new \subseteq tasks ELSE call[p].new \cap tasks = {}

\* The events a call holds are of its tasks, each once and none published, and
\* up to the commit they are all there.
EventsHeld ==
  \A p \in Procs :
    LET held == call[p].held
    IN  /\ \A h \in 1 .. Len(held) : held[h][2] \in call[p].new /\ told[held[h]] = 0
        /\ \A h, g \in 1 .. Len(held) : held[h] = held[g] => h = g
        /\ IF At(p, "tell") THEN held # <<>>
             ELSE \A id \in call[p].new : \A j \in 1 .. Len(Events(id)) :
                    \E h \in 1 .. Len(held) : held[h] = Events(id)[j]

\* Who has claimed a code number has the next one, and the counter to itself.
NumbersOK ==
  \A p \in Procs :
    /\ call[p].number # 0 <=> call[p].at \in {"insert", "commit"} /\ Kind(p) \in Numbered
    /\ call[p].number # 0 =>
         /\ call[p].number = IF counter[Kind(p)] = 0 THEN 1 ELSE counter[Kind(p)]
         /\ \A q \in Procs \ {p} : call[q].number # 0 => Kind(q) # Kind(p)

\* However many callers ask for a key, at once or again, one of them is told it
\* made the thing, and all are answered with the thing in the table, also when
\* the transaction of one was undone or its commit went unheard
\* (repeating_store.go:248, task_impl_task.go:300).
AnsweredAlike ==
  /\ \A k \in Keys : opened[k] <= 1 /\ (opened[k] = 1 => row[k] # NoId)
  /\ \A a \in answers : a[2] = row[a[1]] /\ a[2] # NoId

RowsOfKeys == \A k \in Keys : row[k] # NoId => row[k] \in Procs \X {k}

\* A task is in the table exactly if the row that names it is: the two are
\* written together (repeating_store.go:222, sourced.go:69, generated.go:71).
TasksHaveKeys == tasks = {row[k] : k \in {j \in Keys : KindOf[j] \in TaskKinds}} \ {NoId}

\* A caller whose insert lost to another finds the other's row at its second
\* look: a lost race is never an error (repeating_store.go:248,
\* task_impl_task.go:300).
LostRaceFindsRow ==
  \A p \in Procs : At(p, "again") /\ call[p].why = "race" => row[Key(p)] # NoId

\* An event is published at most once, and only for a task that is in the table:
\* a transaction that is undone announces nothing (repeating_store.go:254).
ToldOfCommitted == \A e \in DOMAIN told : told[e] <= 1 /\ (told[e] = 1 => e[2] \in tasks)

\* Every event of a task in the table has been published, or the call that made
\* the task holds it, or a crash or an unheard commit has dropped it.
NothingUnsaid ==
  \A id \in tasks : \A j \in 1 .. Len(Events(id)) :
    LET e == Events(id)[j]
    IN  \/ told[e] = 1 \/ id \in lost
        \/ \E p \in Procs : At(p, "tell") /\ \E h \in 1 .. Len(call[p].held) :
                                                call[p].held[h] = e

\* The events of what was made are published once each, and of nothing else, but
\* for those dropped (repeating_store.go:254).
TaskEventsPublished == ToldOfCommitted /\ NothingUnsaid

\* The codes given out are 1, 2, 3 and so on, each once: the counter advances in
\* the transaction that inserts the row (codesequence.go:11, todo.go:38).
CodesGapless ==
  \A kind \in Numbered :
    LET made == {k \in Of(kind) : row[k] # NoId}
    IN  /\ {code[k] : k \in made} = {n \in 1 .. counter[kind] : n < counter[kind]}
        /\ \A j, k \in made : code[j] = code[k] => j = k

\* The invariant: what of each call, of the tables and of the history stands
\* between any two statements.
IInv == /\ TypeOK /\ ListsOK /\ OutcomesOK /\ KeysExclusive /\ RowsOfKeys
        /\ TasksOK /\ TasksHaveKeys /\ EventsHeld /\ TaskEventsPublished
        /\ NumbersOK /\ CodesGapless /\ AnsweredAlike /\ LostRaceFindsRow

\* What the callers are promised: see KeyRegistry.
Registry == INSTANCE KeyRegistry WITH
  reg <- row,
  Requests <- {{s[i] : i \in 1 .. Len(s)} : s \in Lists}
                \cup {{k} : k \in {j \in Keys : KindOf[j] \notin Batched}}

\* A batch that found some of its keys taken still commits the rest in one step
\* (sourced.go:69, generated.go:71).
KeepsRegistry == Registry!Spec

\* Every call returns, also when calls that name the same keys in opposite
\* orders wait for each other (sourced.go:101, generated.go:100).
CallsReturn == \A p \in Procs : []<>At(p, "idle")
=============================================================================
