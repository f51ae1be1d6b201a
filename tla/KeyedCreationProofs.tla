------------------------ MODULE KeyedCreationProofs ------------------------
(***************************************************************************)
(* For any number of callers, keys, kinds and lists: a key gets one thing, *)
(* with a task and a code of its own, every caller is answered with it,    *)
(* and the events of what was made are published once and of nothing else. *)
(***************************************************************************)
EXTENDS KeyedCreation, TLAPS

(* What the invariant says of one call x of the caller p, apart from the rest. *)

KeyOf(x)  == x.list[x.i]
KindIs(x) == KindOf[KeyOf(x)]

Shape(x) ==
  /\ x.at = "idle" <=> x = NoCall
  /\ x.at # "idle" => /\ x.i \in 1 .. Len(x.list)
                      /\ x.list \in Lists \/ (Len(x.list) = 1 /\ KindIs(x) \notin Batched)
  /\ x.at = "find"   => KindIs(x) # "todo"
  /\ x.at = "number" => KindIs(x) \in Numbered
  /\ x.at = "create" => KindIs(x) \in TaskKinds
  /\ x.at = "again"  => KindIs(x) \in Retried /\ x.mine = {}

Rows(p, x) ==
  /\ x.mine \subseteq Done(x)
  /\ \A k \in Done(x) : x.got[k] = IF k \in x.mine THEN NewId(p, k) ELSE row[k]
  /\ \A k \in Done(x) \ x.mine : row[k] # NoId
  /\ Over(x) /\ KindIs(x) \notin Batched => KeyOf(x) \in x.mine
  /\ \A k \in x.mine : /\ row[k] = IF x.at = "tell" THEN NewId(p, k) ELSE NoId
                       /\ opened[k] = 0
  /\ x.at = "again" /\ x.why = "race" => row[KeyOf(x)] # NoId

MadeBy(x) == x.mine \cup (IF x.at = "insert" THEN {KeyOf(x)} ELSE {})

Made(p, x) ==
  /\ x.new = {NewId(p, k) : k \in {j \in MadeBy(x) : KindOf[j] \in TaskKinds}}
  /\ x.at = "create" => NewId(p, KeyOf(x)) \notin tasks
  /\ IF x.at = "tell" THEN x.new \subseteq tasks ELSE x.new \cap tasks = {}

Holds(x) ==
  /\ \A h \in 1 .. Len(x.held) : x.held[h][2] \in x.new /\ told[x.held[h]] = 0
  /\ \A h, g \in 1 .. Len(x.held) : x.held[h] = x.held[g] => h = g
  /\ x.at = "tell" => x.held # <<>>
  /\ x.at # "tell" => \A id \in x.new : \A j \in 1 .. Len(Events(id)) :
                        \E h \in 1 .. Len(x.held) : x.held[h] = Events(id)[j]

Counted(x) ==
  /\ x.number # 0 <=> x.at \in {"insert", "commit"} /\ KindIs(x) \in Numbered
  /\ x.number # 0 => x.number = IF counter[KindIs(x)] = 0 THEN 1 ELSE counter[KindIs(x)]

CallOK(p, x) == Shape(x) /\ Rows(p, x) /\ Made(p, x) /\ Holds(x) /\ Counted(x)

\* Two calls have no key and no counter in common.
Apart(x, y) ==
  /\ x.mine \cap y.mine = {}
  /\ x.number # 0 /\ y.number # 0 => KindIs(x) # KindIs(y)

\* What it says of the tables and of the history.
TablesOK == /\ RowsOfKeys /\ TasksHaveKeys /\ CodesGapless
            /\ ToldOfCommitted /\ AnsweredAlike

LEMMA OfCall ==
  ASSUME IInv, NEW p \in Procs
  PROVE  /\ call[p] \in Call /\ CallOK(p, call[p])
         /\ \A q \in Procs \ {p} : Apart(call[p], call[q])
<1>1. call[p] \in Call
  BY DEF IInv, TypeOK
<1>2. Shape(call[p])
  BY DEF IInv, ListsOK, Shape, At, Key, Kind, KeyOf, KindIs
<1>3. Rows(p, call[p])
  BY DEF IInv, OutcomesOK, KeysExclusive, LostRaceFindsRow, Rows, At, Key, Kind, KeyOf, KindIs
<1>4. Made(p, call[p])
  BY DEF IInv, TasksOK, Made, MadeBy, At, Key, KeyOf
<1>5. Holds(call[p])
  BY DEF IInv, EventsHeld, Holds, At
<1>6. Counted(call[p])
  BY DEF IInv, NumbersOK, Counted, Key, Kind, KeyOf, KindIs
<1>7. ASSUME NEW q \in Procs \ {p} PROVE Apart(call[p], call[q])
  BY DEF IInv, KeysExclusive, NumbersOK, Apart, Key, Kind, KeyOf, KindIs
<1>8. QED BY <1>1, <1>2, <1>3, <1>4, <1>5, <1>6, <1>7 DEF CallOK

\* The other way round, after a step.
LEMMA OfCalls ==
  ASSUME TypeOK', TablesOK', NothingUnsaid',
         \A p \in Procs : CallOK(p, call[p])',
         \A p \in Procs : \A q \in Procs \ {p} : Apart(call[p], call[q])'
  PROVE  IInv'
<1>1. ListsOK'
  BY DEF CallOK, ListsOK, Shape, At, Key, Kind, KeyOf, KindIs
<1>2. OutcomesOK' /\ LostRaceFindsRow'
  BY DEF CallOK, OutcomesOK, LostRaceFindsRow, Rows, At, Key, Kind, KeyOf, KindIs
<1>3. KeysExclusive'
  BY DEF CallOK, KeysExclusive, Rows, Apart, At
<1>4. TasksOK'
  BY DEF CallOK, TasksOK, Made, MadeBy, At, Key, KeyOf
<1>5. EventsHeld'
  BY DEF CallOK, EventsHeld, Holds, At
<1>6. NumbersOK'
  BY DEF CallOK, NumbersOK, Counted, Apart, Key, Kind, KeyOf, KindIs
<1>7. QED BY <1>1, <1>2, <1>3, <1>4, <1>5, <1>6 DEF IInv, TablesOK, TaskEventsPublished
-----------------------------------------------------------------------------
(* Keys, lists and calls *)

LEMMA KeyFacts ==
  /\ NoId \notin Ids
  /\ \A k \in Keys : KindOf[k] \in Kinds
  /\ \A p \in Procs, k \in Keys : NewId(p, k) \in Ids /\ NewId(p, k)[2] = k
  /\ \A p, q \in Procs, j, k \in Keys : NewId(p, j) = NewId(q, k) => p = q /\ j = k
BY KeyKinds DEF Ids, NewId

\* The list of a call: its keys have one kind and are different, and there is
\* one key unless the kind comes in batches.
LEMMA ListFacts ==
  ASSUME NEW x \in Call, Shape(x), x.at # "idle"
  PROVE  /\ Len(x.list) \in Nat /\ x.i \in 1 .. Len(x.list) /\ x.i \in Nat
         /\ KeyOf(x) \in Keys /\ KindIs(x) \in Kinds /\ KeyOf(x) \in Asked(x)
         /\ \A j \in 1 .. Len(x.list) : x.list[j] \in Keys /\ KindOf[x.list[j]] = KindIs(x)
         /\ \A i, j \in 1 .. Len(x.list) : x.list[i] = x.list[j] => i = j
         /\ KindIs(x) \notin Batched => Len(x.list) = 1 /\ x.i = 1 /\ Asked(x) = {KeyOf(x)}
         /\ KindIs(x) \in Batched => x.list \in Lists
<1>1. x.list \in Seq(Keys) /\ x.i \in Nat
  BY DEF Call
<1>2. Len(x.list) \in Nat /\ x.i \in 1 .. Len(x.list) /\ KeyOf(x) \in Keys
      /\ \A j \in 1 .. Len(x.list) : x.list[j] \in Keys
  BY <1>1 DEF Shape, KeyOf
<1>3. CASE x.list \in Lists
  <2>1. Normal(x.list)
    BY <1>3, ListsNormal
  <2>2. QED BY <2>1, <1>1, <1>2, <1>3, KeyFacts DEF Normal, KindIs, KeyOf, Asked
<1>4. CASE Len(x.list) = 1 /\ KindIs(x) \notin Batched
  BY <1>4, <1>1, <1>2, KeyFacts DEF KindIs, KeyOf, Asked
<1>5. QED BY <1>3, <1>4 DEF Shape

LEMMA NothingType == Nothing \in [Keys -> Ids \cup {NoId}]
BY DEF Nothing

LEMMA EmptyHeld == <<>> \in Seq(Topics \X Ids) /\ <<>> \in Seq(Keys)
OBVIOUS

LEMMA NoCallIs ==
  /\ NoCall \in Call /\ NoCall.at = "idle" /\ NoCall.i = 0 /\ NoCall.mine = {} /\ NoCall.new = {}
  /\ NoCall.held = <<>> /\ NoCall.number = 0
BY NothingType, EmptyHeld DEF NoCall, Call

\* No call: nothing under way.
LEMMA IdleOK ==
  ASSUME NEW p \in Procs
  PROVE  /\ NoCall \in Call /\ CallOK(p, NoCall) /\ CallOK(p, NoCall)'
         /\ \A y : Apart(NoCall, y) /\ Apart(y, NoCall)
<1>1. NoCall \in Call /\ Done(NoCall) = {} /\ MadeBy(NoCall) = {}
  BY DEF NoCall, Nothing, Call, Done, Over, MadeBy
<1>2. Shape(NoCall) /\ Shape(NoCall)'
  BY DEF Shape, NoCall
<1>3. Rows(p, NoCall) /\ Rows(p, NoCall)'
  BY <1>1 DEF Rows, NoCall, Over
<1>4. Made(p, NoCall) /\ Made(p, NoCall)'
  BY <1>1 DEF Made, NoCall
<1>5. Holds(NoCall) /\ Holds(NoCall)'
  BY DEF Holds, NoCall
<1>6. Counted(NoCall) /\ Counted(NoCall)'
  BY DEF Counted, NoCall
<1>7. \A y : Apart(NoCall, y) /\ Apart(y, NoCall)
  BY DEF Apart, NoCall
<1>8. QED BY <1>1, <1>2, <1>3, <1>4, <1>5, <1>6, <1>7 DEF CallOK
-----------------------------------------------------------------------------
(* Steps of one caller *)

\* What the tables hold for the other calls is as it was.
LEMMA OthersKeep ==
  ASSUME IInv, NEW p \in Procs, NEW x \in Call, call' = [call EXCEPT ![p] = x],
         UNCHANGED <<row, code, counter, tasks, told>>,
         \A q \in Procs \ {p} : \A k \in call[q].mine : opened'[k] = opened[k],
         CallOK(p, x)', \A q \in Procs \ {p} : Apart(x, call[q])
  PROVE  /\ \A q \in Procs : CallOK(q, call[q])'
         /\ \A q \in Procs : \A r \in Procs \ {q} : Apart(call[q], call[r])'
<1>1. call'[p] = x /\ \A q \in Procs \ {p} : call'[q] = call[q]
  BY DEF IInv, TypeOK
<1>2. ASSUME NEW q \in Procs \ {p} PROVE CallOK(q, call[q])'
  <2>1. PICK y : y = call[q] /\ y = call'[q]
    BY <1>1
  <2>2. CallOK(q, y) /\ \A k \in y.mine : opened'[k] = opened[k]
    BY <2>1, OfCall
  <2>3. Shape(y)' /\ Made(q, y)' /\ Holds(y)' /\ Counted(y)'
    BY <2>2 DEF CallOK, Shape, Made, Holds, Counted
  <2>4. Rows(q, y)'
    BY <2>2 DEF CallOK, Rows
  <2>5. CallOK(q, y)'
    BY <2>3, <2>4 DEF CallOK
  <2>6. QED BY <2>1, <2>5
<1>3. \A q \in Procs : CallOK(q, call[q])'
  BY <1>1, <1>2
<1>4. ASSUME NEW q \in Procs, NEW r \in Procs \ {q} PROVE Apart(call'[q], call'[r])
  <2>1. CASE q = p
    BY <2>1, <1>1
  <2>2. CASE r = p
    BY <2>2, <1>1 DEF Apart
  <2>3. CASE q # p /\ r # p
    BY <2>3, <1>1, OfCall
  <2>4. QED BY <2>1, <2>2, <2>3
<1>5. QED BY <1>3, <1>4

\* The events of the tasks that are new in the table are held by x, or dropped.
Covers(x) ==
  \A id \in tasks' \ tasks : \A j \in 1 .. Len(Events(id)) :
    id \in lost' \/ (x.at = "tell" /\ \E h \in 1 .. Len(x.held) : x.held[h] = Events(id)[j])

\* Every event stays published, held or dropped, if those of the new tasks are.
LEMMA UnsaidKeeps ==
  ASSUME IInv, NEW p \in Procs, NEW x, call' = [call EXCEPT ![p] = x], call[p].at # "tell",
         UNCHANGED told, lost \subseteq lost', Covers(x)
  PROVE  NothingUnsaid'
<1> SUFFICES ASSUME NEW id \in tasks', NEW j \in 1 .. Len(Events(id))
             PROVE  \/ told[Events(id)[j]] = 1 \/ id \in lost'
                    \/ \E q \in Procs : At(q, "tell")' /\ \E h \in 1 .. Len(call'[q].held) :
                                               call'[q].held[h] = Events(id)[j]
  BY DEF NothingUnsaid
<1>1. call'[p] = x /\ \A q \in Procs \ {p} : call'[q] = call[q]
  BY DEF IInv, TypeOK
<1>2. CASE id \notin tasks
  BY <1>2, <1>1 DEF At, Covers
<1>3. CASE id \in tasks /\ (told[Events(id)[j]] = 1 \/ id \in lost)
  BY <1>3
<1>4. CASE id \in tasks /\ ~(told[Events(id)[j]] = 1 \/ id \in lost)
  <2>1. PICK q \in Procs : At(q, "tell") /\ \E h \in 1 .. Len(call[q].held) :
                                               call[q].held[h] = Events(id)[j]
    BY <1>4 DEF IInv, TaskEventsPublished, NothingUnsaid
  <2>2. call'[q] = call[q]
    BY <1>1, <2>1 DEF At
  <2>3. QED BY <2>1, <2>2 DEF At
<1>5. QED BY <1>2, <1>3, <1>4

\* A step that the tables and the history do not see.
LEMMA QuietStep ==
  ASSUME IInv, NEW p \in Procs, NEW x \in Call, call' = [call EXCEPT ![p] = x],
         UNCHANGED <<row, code, counter, tasks, ghosts>>,
         template' \in [Templates -> {"absent", "running", "stopped"}],
         call[p].at # "tell", CallOK(p, x), \A q \in Procs \ {p} : Apart(x, call[q])
  PROVE  IInv'
<1>1. TypeOK'
  BY DEF IInv, TypeOK, ghosts
<1>2. TablesOK'
  <2>1. RowsOfKeys' /\ TasksHaveKeys' /\ ToldOfCommitted'
    BY DEF IInv, RowsOfKeys, TasksHaveKeys, ToldOfCommitted, TaskEventsPublished, ghosts
  <2>2. CodesGapless'
    BY DEF IInv, CodesGapless
  <2>3. AnsweredAlike'
    BY DEF IInv, AnsweredAlike, ghosts
  <2>4. QED BY <2>1, <2>2, <2>3 DEF TablesOK
<1>3. NothingUnsaid'
  BY UnsaidKeeps DEF ghosts, Covers
<1>4. CallOK(p, x)'
  BY DEF CallOK, Shape, Rows, Made, Holds, Counted, ghosts
<1>5. /\ \A q \in Procs : CallOK(q, call[q])'
      /\ \A q \in Procs : \A r \in Procs \ {q} : Apart(call[q], call[r])'
  BY <1>4, OthersKeep DEF ghosts
<1>6. QED BY <1>1, <1>2, <1>3, <1>5, OfCalls DEF ghosts

\* The history after an answer of what is in the table: got, of every key asked.
LEMMA AnswerIs ==
  ASSUME IInv, NEW p \in Procs, NEW got \in [Keys -> Ids \cup {NoId}], Answer(p, got),
         Asked(call[p]) \subseteq Keys, row' \in [Keys -> Ids \cup {NoId}],
         \A k \in Keys : row[k] # NoId => row'[k] = row[k],
         \A k \in Asked(call[p]) : got[k] = row'[k] /\ row'[k] # NoId,
         call[p].mine \subseteq Asked(call[p])
  PROVE  /\ opened' \in [Keys -> Nat] /\ answers' \subseteq Keys \X (Ids \cup {NoId})
         /\ AnsweredAlike' /\ call' = [call EXCEPT ![p] = NoCall]
         /\ \A k \in Keys \ call[p].mine : opened'[k] = opened[k]
<1>1. \A k \in call[p].mine : opened[k] = 0
  BY DEF IInv, KeysExclusive
<1>2. /\ opened \in [Keys -> Nat] /\ answers \subseteq Keys \X (Ids \cup {NoId}) /\ AnsweredAlike
  BY DEF IInv, TypeOK
<1>3. \A k \in Keys : opened'[k] = IF k \in call[p].mine THEN opened[k] + 1 ELSE opened[k]
  BY DEF Answer
<1>4. opened' \in [Keys -> Nat]
  BY <1>2 DEF Answer
<1>5. answers' \subseteq Keys \X (Ids \cup {NoId})
  BY <1>2 DEF Answer
<1>6. \A k \in Keys : opened'[k] <= 1 /\ (opened'[k] = 1 => row'[k] # NoId)
  <2> SUFFICES ASSUME NEW k \in Keys PROVE opened'[k] <= 1 /\ (opened'[k] = 1 => row'[k] # NoId)
    OBVIOUS
  <2>1. CASE k \in call[p].mine
    BY <2>1, <1>1, <1>3
  <2>2. CASE k \notin call[p].mine
    BY <2>2, <1>2, <1>3 DEF AnsweredAlike
  <2>3. QED BY <2>1, <2>2
<1>7. \A a \in answers' : a[2] = row'[a[1]] /\ a[2] # NoId
  <2> SUFFICES ASSUME NEW a \in answers' PROVE a[2] = row'[a[1]] /\ a[2] # NoId
    OBVIOUS
  <2>1. CASE a \in answers
    <3>1. a[1] \in Keys /\ a[2] = row[a[1]] /\ a[2] # NoId
      BY <2>1, <1>2 DEF AnsweredAlike
    <3>2. QED BY <3>1
  <2>2. CASE a \notin answers
    BY <2>2 DEF Answer
  <2>3. QED BY <2>1, <2>2
<1>8. QED BY <1>3, <1>4, <1>5, <1>6, <1>7 DEF AnsweredAlike, Answer, Goes

\* A second look that finds the thing, outside a transaction: the answer.
LEMMA FoundStep ==
  ASSUME IInv, NEW p \in Procs, call[p].at \in {"find", "again"}, Kind(p) \notin Batched,
         row[Key(p)] # NoId, Answer(p, row), UNCHANGED <<tables, told, lost>>
  PROVE  IInv'
<1>1. call[p] \in Call /\ CallOK(p, call[p]) /\ Kind(p) = KindIs(call[p]) /\ Key(p) = KeyOf(call[p])
  BY OfCall DEF Kind, KindIs, Key, KeyOf
<1>2. Asked(call[p]) = {Key(p)} /\ Key(p) \in Keys /\ call[p].i = 1
  BY <1>1, ListFacts DEF CallOK
<1>3. call[p].mine = {}
  BY <1>1, <1>2 DEF CallOK, Rows, Done, Over
<1>4. row \in [Keys -> Ids \cup {NoId}] /\ row' = row /\ UNCHANGED <<row, code, counter, tasks, told>>
  BY DEF IInv, TypeOK, tables
<1>5. /\ opened' \in [Keys -> Nat] /\ answers' \subseteq Keys \X (Ids \cup {NoId})
      /\ AnsweredAlike' /\ call' = [call EXCEPT ![p] = NoCall]
      /\ \A k \in Keys : opened'[k] = opened[k]
  BY <1>2, <1>3, <1>4, AnswerIs
<1>6. TypeOK'
  BY <1>5, IdleOK DEF IInv, TypeOK, tables
<1>7. TablesOK'
  <2>1. RowsOfKeys' /\ TasksHaveKeys' /\ ToldOfCommitted'
    BY <1>4 DEF IInv, RowsOfKeys, TasksHaveKeys, ToldOfCommitted, TaskEventsPublished
  <2>2. CodesGapless'
    BY <1>4 DEF IInv, CodesGapless
  <2>3. QED BY <1>5, <2>1, <2>2 DEF TablesOK
<1>8. NothingUnsaid'
  BY <1>4, <1>5, UnsaidKeeps DEF Covers
<1>9. /\ \A q \in Procs : CallOK(q, call[q])'
      /\ \A q \in Procs : \A r \in Procs \ {q} : Apart(call[q], call[r])'
  <2>1. \A q \in Procs : call[q].mine \subseteq Keys
    BY DEF IInv, TypeOK, Call
  <2>2. CallOK(p, NoCall)' /\ \A q \in Procs \ {p} : Apart(NoCall, call[q])
    BY IdleOK
  <2>3. QED BY <2>1, <2>2, <1>4, <1>5, IdleOK, OthersKeep
<1>10. QED BY <1>6, <1>7, <1>8, <1>9, OfCalls
-----------------------------------------------------------------------------
(* A call begins, or begins again *)

\* A call that has done nothing yet.
LEMMA FreshOK ==
  ASSUME NEW p \in Procs, NEW x \in Call, Shape(x), x.at \in {"find", "number", "again"},
         x.i = 1, x.mine = {}, x.new = {}, x.held = <<>>, x.number = 0,
         x.at = "again" /\ x.why = "race" => row[KeyOf(x)] # NoId
  PROVE  /\ CallOK(p, x) /\ \A y : Apart(x, y)
         /\ x.why # "race" => CallOK(p, x)'
<1>1. Done(x) = {} /\ MadeBy(x) = {} /\ ~Over(x)
  BY DEF Done, Over, MadeBy
<1>2. Rows(p, x) /\ (x.why # "race" => Rows(p, x)')
  BY <1>1 DEF Rows
<1>3. Made(p, x) /\ Made(p, x)'
  BY <1>1 DEF Made
<1>4. Holds(x) /\ Holds(x)'
  BY DEF Holds
<1>5. Counted(x) /\ Counted(x)'
  BY DEF Counted
<1>6. Shape(x)'
  BY DEF Shape
<1>7. QED BY <1>2, <1>3, <1>4, <1>5, <1>6 DEF CallOK, Apart

LEMMA BeginKeeps ==
  ASSUME IInv, NEW p \in Procs, NEW s \in Seq(Keys), NEW at \in {"find", "number"}, Begin(p, s, at),
         s \in Lists \/ (Len(s) = 1 /\ KindOf[s[1]] \notin Batched), Len(s) >= 1,
         at = "find" => KindOf[s[1]] # "todo", at = "number" => KindOf[s[1]] \in Numbered
  PROVE  IInv'
<1> DEFINE x == [NoCall EXCEPT !.at = at, !.list = s, !.i = 1]
<1>1. /\ x \in Call /\ x.at = at /\ x.list = s /\ x.i = 1 /\ x.mine = {} /\ x.new = {}
      /\ x.held = <<>> /\ x.number = 0 /\ x # NoCall
  BY NoCallIs DEF Call
<1>2. call' = [call EXCEPT ![p] = x] /\ call[p].at = "idle"
  BY DEF Begin, Goes, At
<1>3. template' \in [Templates -> {"absent", "running", "stopped"}]
      /\ UNCHANGED <<row, code, counter, tasks, ghosts>>
  BY DEF Begin, IInv, TypeOK, tables
<1> HIDE DEF x
<1>4. Shape(x)
  BY <1>1 DEF Shape, KindIs, KeyOf
<1>5. CallOK(p, x) /\ \A q \in Procs \ {p} : Apart(x, call[q])
  BY <1>1, <1>4, FreshOK
<1>6. QED BY <1>1, <1>2, <1>3, <1>5, QuietStep

LEMMA StartsKeep ==
  ASSUME IInv, NEW p \in Procs, Starts(p) PROVE IInv'
<1>1. ASSUME NEW r \in Templates, StartRepeatingTask(p, r) \/ StopRepeatingTask(p, r) PROVE IInv'
  <2>1. template' \in [Templates -> {"absent", "running", "stopped"}]
    BY <1>1 DEF StartRepeatingTask, StopRepeatingTask, IInv, TypeOK
  <2>2. UNCHANGED <<row, code, counter, tasks, ghosts>> /\ call[p].at = "idle" /\ call' = call
    BY <1>1 DEF StartRepeatingTask, StopRepeatingTask, At
  <2>3. PICK x \in Call : x = call[p] /\ CallOK(p, x) /\ \A q \in Procs \ {p} : Apart(x, call[q])
    BY OfCall
  <2>4. call' = [call EXCEPT ![p] = x]
    BY <2>2, <2>3 DEF IInv, TypeOK
  <2>5. call[p].at # "tell"
    BY <2>2
  <2>6. QED BY <2>1, <2>2, <2>3, <2>4, <2>5, QuietStep
<1>2. ASSUME NEW k \in Keys, NEW at \in {"find", "number"}, Begin(p, <<k>>, at),
             KindOf[k] \notin Batched,
             at = "find" => KindOf[k] # "todo", at = "number" => KindOf[k] \in Numbered
      PROVE  IInv'
  <2>1. PICK s : s = <<k>>
    OBVIOUS
  <2>2. s \in Seq(Keys) /\ Len(s) = 1 /\ s[1] = k
    BY <2>1
  <2>3. Begin(p, s, at)
    BY <1>2, <2>1
  <2>4. s \in Lists \/ (Len(s) = 1 /\ KindOf[s[1]] \notin Batched)
    BY <1>2, <2>2
  <2>5. /\ Len(s) >= 1
        /\ at = "find" => KindOf[s[1]] # "todo"
        /\ at = "number" => KindOf[s[1]] \in Numbered
    BY <1>2, <2>2
  <2>6. QED BY <2>2, <2>3, <2>4, <2>5, BeginKeeps
<1>3. ASSUME NEW s \in Lists, Begin(p, s, "find"), KindOf[s[1]] \in Batched PROVE IInv'
  <2>1. s \in Seq(Keys) /\ Len(s) >= 1
    BY ListsNormal DEF Normal
  <2>2. QED BY <1>3, <2>1, BeginKeeps DEF Batched
<1>4. ASSUME NEW k \in Of("period"), MakeRepeatingTaskDue(p, k) PROVE IInv'
  BY <1>2, <1>4 DEF Of, MakeRepeatingTaskDue, Batched
<1>5. ASSUME NEW s \in Lists, OpenSourcedTasks(p, s) \/ GenerateTasks(p, s) PROVE IInv'
  BY <1>3, <1>5 DEF OpenSourcedTasks, GenerateTasks, Batched
<1>6. ASSUME NEW k \in Of("tag"), UpsertTag(p, k) PROVE IInv'
  BY <1>2, <1>6 DEF Of, UpsertTag, Batched
<1>7. ASSUME NEW k \in Of("agent"), UpsertAgent(p, k) PROVE IInv'
  BY <1>2, <1>7 DEF Of, UpsertAgent, Batched
<1>8. ASSUME NEW k \in Of("todo"), CreateTaskTodo(p, k) PROVE IInv'
  BY <1>2, <1>8 DEF Of, CreateTaskTodo, Batched, Numbered
<1>9. QED BY <1>1, <1>4, <1>5, <1>6, <1>7, <1>8 DEF Starts

\* What a transaction that is undone leaves: the keys to look for again, or nothing.
LEMMA UndoIs ==
  ASSUME NEW p \in Procs, NEW why \in Causes, Undo(p, why), call[p].at # "idle",
         call[p] \in Call, CallOK(p, call[p])
  PROVE  \E x \in Call :
           /\ call' = [call EXCEPT ![p] = x] /\ Shape(x)
           /\ x = NoCall \/ /\ x.at = "again" /\ x.i = 1 /\ x.mine = {} /\ x.new = {}
                            /\ x.held = <<>> /\ x.number = 0 /\ x.why = why /\ KeyOf(x) = Key(p)
<1> DEFINE y == [NoCall EXCEPT !.at = "again", !.list = call[p].list, !.i = 1, !.why = why]
<1>1. CASE Kind(p) \in Retried
  <2>1. call[p].list \in Seq(Keys)
    BY DEF Call
  <2>2. /\ y \in Call /\ y.at = "again" /\ y.list = call[p].list /\ y.i = 1 /\ y.mine = {}
        /\ y.new = {} /\ y.held = <<>> /\ y.number = 0 /\ y.why = why /\ y # NoCall
    BY <2>1, NoCallIs DEF Call
  <2>3. call' = [call EXCEPT ![p] = y]
    BY <1>1 DEF Undo, Goes
  <2>4. Kind(p) \notin Batched /\ Kind(p) = KindIs(call[p])
    BY <1>1 DEF Retried, Batched, Kind, Key, KindIs, KeyOf
  <2>5. Len(call[p].list) = 1 /\ call[p].i = 1
    BY <2>4, ListFacts DEF CallOK
  <2> HIDE DEF y
  <2>6. KeyOf(y) = Key(p) /\ KindIs(y) = Kind(p)
    BY <2>2, <2>5 DEF KeyOf, Key, KindIs, Kind
  <2>7. Shape(y)
    BY <1>1, <2>2, <2>4, <2>5, <2>6 DEF Shape
  <2>8. QED BY <2>2, <2>3, <2>6, <2>7
<1>2. CASE Kind(p) \notin Retried
  <2>1. call' = [call EXCEPT ![p] = NoCall]
    BY <1>2 DEF Undo, Goes
  <2>2. NoCall \in Call /\ Shape(NoCall)
    BY IdleOK DEF CallOK
  <2>3. QED BY <2>1, <2>2
<1>3. QED BY <1>1, <1>2

LEMMA UndoKeeps ==
  ASSUME IInv, NEW p \in Procs, NEW why \in Causes, Undo(p, why), UNCHANGED <<tables, ghosts>>,
         call[p].at \notin {"idle", "tell"}, why = "race" => row[Key(p)] # NoId
  PROVE  IInv'
<1>1. PICK x \in Call :
        /\ call' = [call EXCEPT ![p] = x] /\ Shape(x)
        /\ x = NoCall \/ /\ x.at = "again" /\ x.i = 1 /\ x.mine = {} /\ x.new = {}
                         /\ x.held = <<>> /\ x.number = 0 /\ x.why = why /\ KeyOf(x) = Key(p)
  BY OfCall, UndoIs
<1>2. CallOK(p, x) /\ \A q \in Procs \ {p} : Apart(x, call[q])
  BY <1>1, IdleOK, FreshOK
<1>3. template' \in [Templates -> {"absent", "running", "stopped"}]
      /\ UNCHANGED <<row, code, counter, tasks, ghosts>>
  BY DEF IInv, TypeOK, tables
<1>4. call[p].at # "tell"
  OBVIOUS
<1>5. QED BY <1>1, <1>2, <1>3, <1>4, QuietStep
-----------------------------------------------------------------------------
(* The statements of a transaction *)

\* The call of p and what is known of it.
LEMMA CallFacts ==
  ASSUME IInv, NEW p \in Procs, call[p].at # "idle"
  PROVE  \E y \in Call :
           /\ y = call[p] /\ CallOK(p, y) /\ KeyOf(y) = Key(p) /\ KindIs(y) = Kind(p)
           /\ More(p) <=> y.i < Len(y.list)
           /\ Key(p) \in Keys /\ Kind(p) \in Kinds
           /\ \A q \in Procs \ {p} : Apart(y, call[q])
<1>1. call[p] \in Call /\ CallOK(p, call[p]) /\ KeyOf(call[p]) = Key(p) /\ KindIs(call[p]) = Kind(p)
      /\ \A q \in Procs \ {p} : Apart(call[p], call[q])
  BY OfCall DEF Kind, KindIs, Key, KeyOf
<1>2. Key(p) \in Keys /\ Kind(p) \in Kinds
  BY <1>1, ListFacts DEF CallOK
<1>3. QED BY <1>1, <1>2 DEF More

\* A call that goes on to its next key, or to the commit: the key at hand is dealt with.
LEMMA NextKey ==
  ASSUME NEW y \in Call, Shape(y), y.at \in {"find", "insert"}, NEW x \in Call, x.list = y.list,
         IF y.i < Len(y.list) THEN x.at = "find" /\ x.i = y.i + 1 ELSE x.at = "commit" /\ x.i = y.i
  PROVE  /\ Shape(x) /\ KindIs(x) = KindIs(y) /\ Done(x) = Done(y) \cup {KeyOf(y)}
         /\ KindIs(y) \notin Batched => x.at = "commit" /\ KeyOf(x) = KeyOf(y)
<1>1. /\ Len(y.list) \in Nat /\ y.i \in 1 .. Len(y.list) /\ y.i \in Nat
      /\ \A j \in 1 .. Len(y.list) : KindOf[y.list[j]] = KindIs(y)
      /\ KindIs(y) \notin Batched => Len(y.list) = 1 /\ y.i = 1
      /\ KindIs(y) \in Batched => y.list \in Lists
  BY ListFacts
<1>2. x.i \in 1 .. Len(x.list) /\ x.i # 0
  BY <1>1
<1>3. KindIs(x) = KindIs(y)
  BY <1>1, <1>2 DEF KindIs, KeyOf
<1>4. KindIs(y) \notin Batched => x.at = "commit" /\ KeyOf(x) = KeyOf(y)
  BY <1>1 DEF KeyOf
<1>5. x # NoCall
  BY <1>2, NoCallIs
<1>6. Shape(x)
  BY <1>1, <1>2, <1>3, <1>4, <1>5 DEF Shape, Batched
<1>7. Done(x) = Done(y) \cup {KeyOf(y)}
  <2>1. Done(y) = {y.list[j] : j \in 1 .. y.i - 1}
    BY DEF Done, Over
  <2>2. CASE y.i < Len(y.list)
    <3>1. Done(x) = {y.list[j] : j \in 1 .. y.i}
      BY <1>1, <2>2 DEF Done, Over
    <3>2. 1 .. y.i = (1 .. y.i - 1) \cup {y.i}
      BY <1>1
    <3>3. QED BY <2>1, <3>1, <3>2 DEF KeyOf
  <2>3. CASE ~(y.i < Len(y.list))
    <3>1. Done(x) = {y.list[j] : j \in 1 .. y.i}
      BY <1>1, <2>3 DEF Done, Over, Asked
    <3>2. 1 .. y.i = (1 .. y.i - 1) \cup {y.i}
      BY <1>1
    <3>3. QED BY <2>1, <3>1, <3>2 DEF KeyOf
  <2>4. QED BY <2>2, <2>3
<1>8. QED BY <1>3, <1>4, <1>6, <1>7

\* An id of a key without a row is no task's.
LEMMA FreeHasNoTask ==
  ASSUME IInv, NEW p \in Procs, NEW k \in Keys, row[k] = NoId
  PROVE  NewId(p, k) \notin tasks
<1> SUFFICES ASSUME NewId(p, k) \in tasks PROVE FALSE
  OBVIOUS
<1>1. PICK j \in Keys : NewId(p, k) = row[j] /\ row[j] # NoId
  BY DEF IInv, TasksHaveKeys
<1>2. row[j] \in Procs \X {j}
  BY <1>1 DEF IInv, RowsOfKeys
<1>3. j = k
  BY <1>1, <1>2 DEF NewId
<1>4. QED BY <1>1, <1>3

\* The key at hand is not found: the call goes on to make the thing.
LEMMA NotFoundKeeps ==
  ASSUME IInv, NEW p \in Procs, At(p, "find"), row[Key(p)] = NoId,
         Goes(p, [call[p] EXCEPT !.at = Making(Kind(p))]), UNCHANGED <<tables, ghosts>>
  PROVE  IInv'
<1>1. call[p].at = "find" /\ call[p].at # "idle" /\ call[p].at # "tell"
  BY DEF At
<1>2. PICK y \in Call :
        /\ y = call[p] /\ CallOK(p, y) /\ KeyOf(y) = Key(p) /\ KindIs(y) = Kind(p)
        /\ Key(p) \in Keys /\ Kind(p) \in Kinds
        /\ \A q \in Procs \ {p} : Apart(y, call[q])
  BY <1>1, CallFacts
<1>3. PICK s : s = Making(Kind(p))
  OBVIOUS
<1>4. y.at = "find" /\ Kind(p) # "todo"
  BY <1>1, <1>2 DEF CallOK, Shape
<1>5. /\ s \in {"number", "insert", "create"}
      /\ s = "number" <=> Kind(p) = "tag"
      /\ s = "insert" <=> Kind(p) = "agent"
      /\ s = "create" => Kind(p) \in TaskKinds
  BY <1>2, <1>3, <1>4 DEF Making, Kinds, TaskKinds
<1>6. PICK x : x = [y EXCEPT !.at = s]
  OBVIOUS
<1>7. call' = [call EXCEPT ![p] = x]
  BY <1>2, <1>3, <1>6 DEF Goes
<1>8. /\ x \in Call /\ x.at = s /\ x.list = y.list /\ x.i = y.i /\ x.got = y.got /\ x.mine = y.mine
      /\ x.new = y.new /\ x.number = y.number /\ x.held = y.held /\ x.why = y.why
  BY <1>5, <1>6 DEF Call
<1>9. KeyOf(x) = Key(p) /\ KindIs(x) = Kind(p) /\ Done(x) = Done(y)
  BY <1>2, <1>4, <1>5, <1>8 DEF KeyOf, KindIs, Done, Over
<1>10. Shape(x)
  <2>1. x # NoCall
    BY <1>5, <1>8, NoCallIs
  <2>2. QED BY <1>2, <1>4, <1>5, <1>8, <1>9, <2>1 DEF CallOK, Shape, Numbered
<1>11. Rows(p, x)
  BY <1>2, <1>4, <1>5, <1>8, <1>9 DEF CallOK, Rows, Over
<1>12. Made(p, x)
  <2>1. {j \in MadeBy(x) : KindOf[j] \in TaskKinds} = {j \in MadeBy(y) : KindOf[j] \in TaskKinds}
    BY <1>2, <1>4, <1>5, <1>8, <1>9 DEF MadeBy, KindIs, TaskKinds
  <2>2. NewId(p, Key(p)) \notin tasks
    BY <1>2, FreeHasNoTask
  <2>3. QED BY <1>2, <1>4, <1>5, <1>8, <1>9, <2>1, <2>2 DEF CallOK, Made
<1>13. Holds(x)
  BY <1>2, <1>4, <1>5, <1>8 DEF CallOK, Holds
<1>14. Counted(x)
  BY <1>2, <1>4, <1>5, <1>8, <1>9 DEF CallOK, Counted, Numbered
<1>15. CallOK(p, x) /\ \A q \in Procs \ {p} : Apart(x, call[q])
  BY <1>2, <1>8, <1>9, <1>10, <1>11, <1>12, <1>13, <1>14 DEF CallOK, Apart
<1>16. template' \in [Templates -> {"absent", "running", "stopped"}]
       /\ UNCHANGED <<row, code, counter, tasks, ghosts>>
  BY DEF IInv, TypeOK, tables
<1>17. QED BY <1>1, <1>7, <1>8, <1>15, <1>16, QuietStep

\* A batch finds the key at hand.
LEMMA FoundKeeps ==
  ASSUME IInv, NEW p \in Procs, At(p, "find"), row[Key(p)] # NoId, Kind(p) \in Batched,
         UNCHANGED <<tables, ghosts>>,
         LET found == [call[p] EXCEPT !.got = [@ EXCEPT ![Key(p)] = row[Key(p)]]]
         IN  Goes(p, IF More(p) THEN [found EXCEPT !.i = @ + 1] ELSE [found EXCEPT !.at = "commit"])
  PROVE  IInv'
<1>1. call[p].at = "find" /\ call[p].at # "idle" /\ call[p].at # "tell"
  BY DEF At
<1>2. PICK y \in Call :
        /\ y = call[p] /\ CallOK(p, y) /\ KeyOf(y) = Key(p) /\ KindIs(y) = Kind(p)
        /\ More(p) <=> y.i < Len(y.list)
        /\ Key(p) \in Keys /\ Kind(p) \in Kinds
        /\ \A q \in Procs \ {p} : Apart(y, call[q])
  BY <1>1, CallFacts
<1>3. PICK g : g = [y.got EXCEPT ![Key(p)] = row[Key(p)]]
  OBVIOUS
<1>4. g \in [Keys -> Ids \cup {NoId}] /\ g[Key(p)] = row[Key(p)]
      /\ \A k \in Keys \ {Key(p)} : g[k] = y.got[k]
  BY <1>2, <1>3 DEF IInv, TypeOK, Call
<1>5. PICK f : f = [y EXCEPT !.got = g]
  OBVIOUS
<1>6. /\ f \in Call /\ f.at = y.at /\ f.list = y.list /\ f.i = y.i /\ f.got = g /\ f.mine = y.mine
      /\ f.new = y.new /\ f.number = y.number /\ f.held = y.held /\ f.why = y.why
  BY <1>4, <1>5 DEF Call
<1>7. PICK x : x = IF More(p) THEN [f EXCEPT !.i = @ + 1] ELSE [f EXCEPT !.at = "commit"]
  OBVIOUS
<1>8. call' = [call EXCEPT ![p] = x]
  BY <1>2, <1>3, <1>5, <1>7 DEF Goes
<1>9. /\ x \in Call /\ x.list = y.list /\ x.got = g /\ x.mine = y.mine
      /\ x.new = y.new /\ x.number = y.number /\ x.held = y.held /\ x.why = y.why
      /\ IF y.i < Len(y.list) THEN x.at = "find" /\ x.i = y.i + 1 ELSE x.at = "commit" /\ x.i = y.i
  <2>1. CASE More(p)
    <3>1. PICK n \in Nat : n = y.i + 1
      BY <1>2 DEF Call
    <3>2. x = [f EXCEPT !.i = n]
      BY <1>6, <1>7, <2>1, <3>1
    <3>3. /\ x \in Call /\ x.at = f.at /\ x.list = f.list /\ x.i = n /\ x.got = f.got /\ x.mine = f.mine
          /\ x.new = f.new /\ x.number = f.number /\ x.held = f.held /\ x.why = f.why
      BY <1>6, <3>2 DEF Call
    <3>4. QED BY <1>1, <1>2, <1>6, <2>1, <3>1, <3>3
  <2>2. CASE ~More(p)
    BY <1>1, <1>2, <1>6, <1>7, <2>2 DEF Call
  <2>3. QED BY <2>1, <2>2
<1>10. Shape(x) /\ KindIs(x) = Kind(p) /\ Done(x) = Done(y) \cup {Key(p)}
  BY <1>1, <1>2, <1>9, NextKey DEF CallOK
<1>11. Key(p) \notin y.mine /\ y.mine \subseteq Keys
  BY <1>1, <1>2 DEF CallOK, Rows, Call
<1>12. Done(y) \subseteq Keys
  BY <1>1, <1>2, ListFacts DEF CallOK, Done, Over
<1>13. Rows(p, x)
  BY <1>1, <1>2, <1>4, <1>9, <1>10, <1>11, <1>12 DEF CallOK, Rows, Over
<1>14. Made(p, x)
  <2>1. MadeBy(x) = MadeBy(y)
    BY <1>1, <1>2, <1>9 DEF MadeBy
  <2>2. QED BY <1>1, <1>2, <1>9, <2>1 DEF CallOK, Made
<1>15. Holds(x)
  BY <1>1, <1>2, <1>9 DEF CallOK, Holds
<1>16. Counted(x)
  BY <1>1, <1>2, <1>9, <1>10 DEF CallOK, Counted, Numbered, Batched
<1>17. CallOK(p, x) /\ \A q \in Procs \ {p} : Apart(x, call[q])
  BY <1>2, <1>9, <1>10, <1>13, <1>14, <1>15, <1>16 DEF CallOK, Apart
<1>18. template' \in [Templates -> {"absent", "running", "stopped"}]
       /\ UNCHANGED <<row, code, counter, tasks, ghosts>>
  BY DEF IInv, TypeOK, tables
<1>19. QED BY <1>1, <1>8, <1>9, <1>17, <1>18, QuietStep

LEMMA FindKeeps ==
  ASSUME IInv, NEW p \in Procs, Find(p) PROVE IInv'
<1>1. CASE row[Key(p)] = NoId
  BY <1>1, NotFoundKeeps DEF Find, Unanswered, ghosts
<1>2. CASE row[Key(p)] # NoId /\ Kind(p) \in Batched
  BY <1>2, FoundKeeps DEF Find, Unanswered, ghosts
<1>3. CASE row[Key(p)] # NoId /\ Kind(p) \notin Batched
  BY <1>3, FoundStep DEF Find, At
<1>4. QED BY <1>1, <1>2, <1>3

\* A code number is claimed: nobody else has one of the same counter.
LEMMA NumberKeeps ==
  ASSUME IInv, NEW p \in Procs, Number(p) PROVE IInv'
<1>1. call[p].at = "number" /\ call[p].at # "idle" /\ call[p].at # "tell"
  BY DEF Number, At
<1>2. PICK y \in Call :
        /\ y = call[p] /\ CallOK(p, y) /\ KeyOf(y) = Key(p) /\ KindIs(y) = Kind(p)
        /\ Key(p) \in Keys /\ Kind(p) \in Kinds
        /\ \A q \in Procs \ {p} : Apart(y, call[q])
  BY <1>1, CallFacts
<1>3. Kind(p) \in Numbered
  BY <1>1, <1>2 DEF CallOK, Shape
<1>4. PICK n \in Nat : n = (IF counter[Kind(p)] = 0 THEN 1 ELSE counter[Kind(p)]) /\ n # 0
  BY <1>3 DEF IInv, TypeOK
<1>5. PICK x : x = [y EXCEPT !.at = "insert", !.number = n]
  OBVIOUS
<1>6. call' = [call EXCEPT ![p] = x]
  BY <1>2, <1>4, <1>5 DEF Number, Goes
<1>7. /\ x \in Call /\ x.at = "insert" /\ x.list = y.list /\ x.i = y.i /\ x.got = y.got /\ x.mine = y.mine
      /\ x.new = y.new /\ x.number = n /\ x.held = y.held /\ x.why = y.why
  BY <1>5 DEF Call
<1>8. KeyOf(x) = Key(p) /\ KindIs(x) = Kind(p) /\ Done(x) = Done(y)
  BY <1>1, <1>2, <1>7 DEF KeyOf, KindIs, Done, Over
<1>9. Shape(x)
  <2>1. x # NoCall
    BY <1>7, NoCallIs
  <2>2. QED BY <1>1, <1>2, <1>7, <1>8, <2>1 DEF CallOK, Shape
<1>10. Rows(p, x)
  BY <1>1, <1>2, <1>7, <1>8 DEF CallOK, Rows, Over
<1>11. Made(p, x)
  <2>1. {j \in MadeBy(x) : KindOf[j] \in TaskKinds} = {j \in MadeBy(y) : KindOf[j] \in TaskKinds}
    BY <1>1, <1>2, <1>3, <1>7, <1>8 DEF MadeBy, KindIs, TaskKinds, Numbered
  <2>2. QED BY <1>1, <1>2, <1>7, <1>8, <2>1 DEF CallOK, Made
<1>12. Holds(x)
  BY <1>1, <1>2, <1>7 DEF CallOK, Holds
<1>13. Counted(x)
  BY <1>3, <1>4, <1>7, <1>8 DEF Counted
<1>14. ASSUME NEW q \in Procs \ {p} PROVE Apart(x, call[q])
  <2>1. x.mine \cap call[q].mine = {}
    BY <1>2, <1>7 DEF Apart
  <2>2. call[q].number # 0 => KindIs(call[q]) # KindIs(x)
    BY <1>1, <1>8 DEF Number, WaitsFor, At, Kind, Key, KindIs, KeyOf
  <2>3. QED BY <2>1, <2>2 DEF Apart
<1>15. CallOK(p, x)
  BY <1>9, <1>10, <1>11, <1>12, <1>13 DEF CallOK
<1>16. template' \in [Templates -> {"absent", "running", "stopped"}]
       /\ UNCHANGED <<row, code, counter, tasks, ghosts>>
  BY DEF Number, IInv, TypeOK, tables
<1>17. QED BY <1>1, <1>6, <1>7, <1>14, <1>15, <1>16, QuietStep

\* The events of a thing are its own, and different.
LEMMA EventsFacts ==
  ASSUME NEW p \in Procs, NEW k \in Keys
  PROVE  LET id == NewId(p, k)
             s == Events(id)
         IN  /\ s \in Seq(Topics \X Ids) /\ Len(s) \in Nat
             /\ \A j \in 1 .. Len(s) : s[j] \in Topics \X Ids /\ s[j][2] = id
             /\ \A i, j \in 1 .. Len(s) : s[i] = s[j] => i = j
<1>1. NewId(p, k) \in Ids /\ NewId(p, k)[2] = k
  BY KeyFacts
<1> DEFINE id == NewId(p, k)
<1> HIDE DEF id
<1>2. /\ <<"task.created", id>> \in Topics \X Ids
      /\ <<"task.handed_over", id>> \in Topics \X Ids
  BY <1>1 DEF id, Topics
<1>3. CASE KindOf[k] = "period"
  <2>1. Events(id) = << <<"task.created", id>>, <<"task.handed_over", id>> >>
    <3>1. \A o : KindOf[o[2]] = "period" =>
                    Events(o) = << <<"task.created", o>>, <<"task.handed_over", o>> >>
      BY DEF Events, Batched
    <3>2. QED BY <1>1, <1>3, <3>1 DEF id
  <2>2. PICK a \in Topics \X Ids, b \in Topics \X Ids :
          Events(id) = <<a, b>> /\ a # b /\ a[2] = id /\ b[2] = id
    <3>1. <<"task.created", id>> # <<"task.handed_over", id>>
      OBVIOUS
    <3>2. <<"task.created", id>>[2] = id /\ <<"task.handed_over", id>>[2] = id
      OBVIOUS
    <3>3. QED BY <2>1, <1>2, <3>1, <3>2
  <2>3. QED BY <2>2 DEF id
<1>4. CASE KindOf[k] \in Batched
  <2>1. Events(id) = << <<"task.created", id>> >>
    BY <1>1, <1>4 DEF Events, id, Batched
  <2>2. QED BY <2>1, <1>2 DEF id
<1>5. CASE KindOf[k] # "period" /\ KindOf[k] \notin Batched
  <2>1. Events(id) = << >>
    BY <1>1, <1>5 DEF Events, id
  <2>2. QED BY <2>1, EmptyHeld DEF id
<1>6. QED BY <1>3, <1>4, <1>5

\* No event of a task that is not in the table has been published.
LEMMA UntoldOf ==
  ASSUME IInv, NEW e \in Topics \X Ids, e[2] \notin tasks
  PROVE  told[e] = 0
BY DEF IInv, TypeOK, TaskEventsPublished, ToldOfCommitted

LEMMA Concatenated ==
  ASSUME NEW S, NEW s \in Seq(S), NEW t \in Seq(S)
  PROVE  /\ s \o t \in Seq(S) /\ Len(s \o t) = Len(s) + Len(t) /\ Len(s) \in Nat /\ Len(t) \in Nat
         /\ \A j \in 1 .. Len(s) : (s \o t)[j] = s[j]
         /\ \A j \in 1 .. Len(t) : (s \o t)[Len(s) + j] = t[j]
         /\ \A j \in 1 .. Len(s \o t) : j > Len(s) => /\ j - Len(s) \in 1 .. Len(t)
                                                     /\ (s \o t)[j] = t[j - Len(s)]
<1>1. s \o t \in Seq(S) /\ Len(s \o t) = Len(s) + Len(t) /\ Len(s) \in Nat /\ Len(t) \in Nat
  OBVIOUS
<1>2. \A j \in 1 .. Len(s) : (s \o t)[j] = s[j]
  OBVIOUS
<1>3. \A j \in 1 .. Len(s \o t) : j > Len(s) => /\ j - Len(s) \in 1 .. Len(t)
                                              /\ (s \o t)[j] = t[j - Len(s)]
  BY <1>1
<1>4. ASSUME NEW j \in 1 .. Len(t) PROVE (s \o t)[Len(s) + j] = t[j]
  <2>1. PICK m \in 1 .. Len(s \o t) : m = Len(s) + j /\ m > Len(s) /\ m - Len(s) = j
    BY <1>1
  <2>2. QED BY <1>3, <2>1
<1>5. QED BY <1>1, <1>2, <1>3, <1>4

\* A task is created, with its events held back.
LEMMA CreateKeeps ==
  ASSUME IInv, NEW p \in Procs, Create(p) PROVE IInv'
<1>1. call[p].at = "create" /\ call[p].at # "idle" /\ call[p].at # "tell"
  BY DEF Create, At
<1>2. PICK y \in Call :
        /\ y = call[p] /\ CallOK(p, y) /\ KeyOf(y) = Key(p) /\ KindIs(y) = Kind(p)
        /\ Key(p) \in Keys /\ Kind(p) \in Kinds
        /\ \A q \in Procs \ {p} : Apart(y, call[q])
  BY <1>1, CallFacts
<1>3. PICK id \in Ids : id = NewId(p, Key(p))
  BY <1>2, KeyFacts
<1>4. PICK s \in Seq(Topics \X Ids) :
        /\ s = Events(id) /\ Len(s) \in Nat
        /\ \A j \in 1 .. Len(s) : s[j] \in Topics \X Ids /\ s[j][2] = id
        /\ \A i, j \in 1 .. Len(s) : s[i] = s[j] => i = j
  BY <1>2, <1>3, EventsFacts
<1>5. PICK h \in Seq(Topics \X Ids) :
        /\ h = y.held \o s /\ Len(h) = Len(y.held) + Len(s) /\ Len(y.held) \in Nat
        /\ \A j \in 1 .. Len(y.held) : h[j] = y.held[j]
        /\ \A j \in 1 .. Len(s) : h[Len(y.held) + j] = s[j]
        /\ \A j \in 1 .. Len(h) : j > Len(y.held) => /\ j - Len(y.held) \in 1 .. Len(s)
                                                    /\ h[j] = s[j - Len(y.held)]
  <2>1. PICK g : g = y.held /\ g \in Seq(Topics \X Ids)
    BY DEF Call
  <2>2. PICK h : h = g \o s
    OBVIOUS
  <2>3. /\ h \in Seq(Topics \X Ids) /\ Len(h) = Len(g) + Len(s) /\ Len(g) \in Nat
        /\ \A j \in 1 .. Len(g) : h[j] = g[j]
        /\ \A j \in 1 .. Len(s) : h[Len(g) + j] = s[j]
        /\ \A j \in 1 .. Len(h) : j > Len(g) => /\ j - Len(g) \in 1 .. Len(s)
                                              /\ h[j] = s[j - Len(g)]
    BY <2>1, <2>2, Concatenated
  <2>4. QED BY <2>1, <2>2, <2>3
<1>6. PICK new \in SUBSET Ids : new = y.new \cup {id}
  BY <1>3 DEF Call
<1>7. PICK x : x = [y EXCEPT !.at = "insert", !.new = new, !.held = h]
  OBVIOUS
<1>8. call' = [call EXCEPT ![p] = x]
  BY <1>2, <1>3, <1>4, <1>5, <1>6, <1>7 DEF Create, Goes
<1>9. /\ x \in Call /\ x.at = "insert" /\ x.list = y.list /\ x.i = y.i /\ x.got = y.got /\ x.mine = y.mine
      /\ x.new = new /\ x.number = y.number /\ x.held = h /\ x.why = y.why
  BY <1>5, <1>6, <1>7 DEF Call
<1>10. KeyOf(x) = Key(p) /\ KindIs(x) = Kind(p) /\ Done(x) = Done(y)
  BY <1>1, <1>2, <1>9 DEF KeyOf, KindIs, Done, Over
<1>11. Kind(p) \in TaskKinds /\ Kind(p) \notin Numbered
  BY <1>1, <1>2 DEF CallOK, Shape, TaskKinds, Numbered
<1>12. Shape(x)
  <2>1. x # NoCall
    BY <1>9, NoCallIs
  <2>2. QED BY <1>1, <1>2, <1>9, <1>10, <2>1 DEF CallOK, Shape
<1>13. Rows(p, x)
  BY <1>1, <1>2, <1>9, <1>10 DEF CallOK, Rows, Over
<1>14. id \notin tasks /\ y.new \cap tasks = {}
  BY <1>1, <1>2, <1>3 DEF CallOK, Made
<1>15. id \notin y.new
  <2>1. Key(p) \notin Done(y)
    <3>1. /\ \A i, j \in 1 .. Len(y.list) : y.list[i] = y.list[j] => i = j
          /\ y.i \in 1 .. Len(y.list) /\ Len(y.list) \in Nat
      BY <1>1, <1>2, ListFacts DEF CallOK
    <3>2. \A j \in 1 .. y.i - 1 : y.list[j] # y.list[y.i]
      BY <3>1
    <3>3. QED BY <1>1, <1>2, <3>2 DEF Done, Over, KeyOf
  <2>2. Key(p) \notin MadeBy(y) /\ MadeBy(y) \subseteq Keys
    BY <1>1, <1>2, <2>1 DEF CallOK, Rows, MadeBy, Call
  <2>3. QED BY <1>2, <1>3, <2>2, KeyFacts DEF CallOK, Made
<1>16. Made(p, x)
  <2>1. MadeBy(x) = MadeBy(y) \cup {Key(p)}
    BY <1>1, <1>2, <1>9, <1>10 DEF MadeBy
  <2>2. {j \in MadeBy(x) : KindOf[j] \in TaskKinds}
          = {j \in MadeBy(y) : KindOf[j] \in TaskKinds} \cup {Key(p)}
    BY <1>11, <2>1 DEF Kind
  <2>3. x.new = {NewId(p, k) : k \in {j \in MadeBy(x) : KindOf[j] \in TaskKinds}}
    BY <1>2, <1>3, <1>6, <1>9, <2>2 DEF CallOK, Made
  <2>4. QED BY <1>6, <1>9, <1>14, <2>3 DEF Made
<1>17. Holds(x)
  <2>1. \A j \in 1 .. Len(y.held) : y.held[j][2] \in y.new /\ told[y.held[j]] = 0
    BY <1>2 DEF CallOK, Holds
  <2>2. \A j \in 1 .. Len(s) : told[s[j]] = 0
    BY <1>4, <1>14, UntoldOf
  <2>3. ASSUME NEW j \in 1 .. Len(h) PROVE h[j][2] \in new /\ told[h[j]] = 0
    <3>1. CASE j <= Len(y.held)
      BY <3>1, <2>1, <1>5, <1>6
    <3>2. CASE j > Len(y.held)
      <4>1. PICK m \in 1 .. Len(s) : h[j] = s[m]
        BY <3>2, <1>5
      <4>2. QED BY <4>1, <2>2, <1>4, <1>6
    <3>3. QED BY <3>1, <3>2, <1>5
  <2>4. ASSUME NEW i \in 1 .. Len(h), NEW j \in 1 .. Len(h), h[i] = h[j] PROVE i = j
    <3>1. \A a, b \in 1 .. Len(y.held) : y.held[a] = y.held[b] => a = b
      BY <1>2 DEF CallOK, Holds
    <3>2. \A a \in 1 .. Len(y.held), b \in 1 .. Len(s) : y.held[a] # s[b]
      BY <2>1, <1>4, <1>15
    <3>3. CASE i <= Len(y.held) /\ j <= Len(y.held)
      BY <2>4, <3>1, <3>3, <1>5
    <3>4. CASE i > Len(y.held) /\ j > Len(y.held)
      <4>1. PICK a \in 1 .. Len(s), b \in 1 .. Len(s) :
              a = i - Len(y.held) /\ b = j - Len(y.held) /\ h[i] = s[a] /\ h[j] = s[b]
        BY <3>4, <1>5
      <4>2. a = b
        BY <2>4, <4>1, <1>4
      <4>3. QED BY <4>1, <4>2, <1>5
    <3>5. CASE i <= Len(y.held) /\ j > Len(y.held)
      BY <2>4, <3>2, <3>5, <1>5
    <3>6. CASE i > Len(y.held) /\ j <= Len(y.held)
      BY <2>4, <3>2, <3>6, <1>5
    <3>7. QED BY <3>3, <3>4, <3>5, <3>6, <1>5
  <2>5. ASSUME NEW o \in new, NEW j \in 1 .. Len(Events(o))
        PROVE  \E m \in 1 .. Len(h) : h[m] = Events(o)[j]
    <3>1. CASE o \in y.new
      <4>1. PICK m \in 1 .. Len(y.held) : y.held[m] = Events(o)[j]
        BY <1>1, <1>2, <3>1 DEF CallOK, Holds
      <4>2. m \in 1 .. Len(h) /\ h[m] = Events(o)[j]
        BY <4>1, <1>4, <1>5
      <4>3. QED BY <4>2
    <3>2. CASE o = id
      <4>1. Len(y.held) + j \in 1 .. Len(h) /\ h[Len(y.held) + j] = Events(o)[j]
        BY <3>2, <1>4, <1>5
      <4>2. QED BY <4>1
    <3>3. QED BY <3>1, <3>2, <1>6
  <2>6. QED BY <1>9, <2>3, <2>4, <2>5 DEF Holds
<1>18. Counted(x)
  BY <1>1, <1>2, <1>9, <1>10, <1>11 DEF CallOK, Counted
<1>19. CallOK(p, x) /\ \A q \in Procs \ {p} : Apart(x, call[q])
  BY <1>2, <1>9, <1>10, <1>12, <1>13, <1>16, <1>17, <1>18 DEF CallOK, Apart
<1>20. template' \in [Templates -> {"absent", "running", "stopped"}]
       /\ UNCHANGED <<row, code, counter, tasks, ghosts>>
  BY DEF Create, IInv, TypeOK, tables
<1>21. QED BY <1>1, <1>8, <1>9, <1>19, <1>20, QuietStep

\* The row is inserted, where no other call has inserted it.
LEMMA InsertedKeeps ==
  ASSUME IInv, NEW p \in Procs, At(p, "insert"), WaitsFor(p) = {}, row[Key(p)] = NoId,
         UNCHANGED <<tables, ghosts>>,
         LET k == Key(p)
             made == [call[p] EXCEPT !.mine = @ \cup {k}, !.got = [@ EXCEPT ![k] = NewId(p, k)]]
         IN  Goes(p, IF More(p) THEN [made EXCEPT !.at = "find", !.i = @ + 1]
                                ELSE [made EXCEPT !.at = "commit"])
  PROVE  IInv'
<1>1. call[p].at = "insert" /\ call[p].at # "idle" /\ call[p].at # "tell"
  BY DEF At
<1>2. PICK y \in Call :
        /\ y = call[p] /\ CallOK(p, y) /\ KeyOf(y) = Key(p) /\ KindIs(y) = Kind(p)
        /\ More(p) <=> y.i < Len(y.list)
        /\ Key(p) \in Keys /\ Kind(p) \in Kinds
        /\ \A q \in Procs \ {p} : Apart(y, call[q])
  BY <1>1, CallFacts
<1>3. PICK k \in Keys : k = Key(p)
  BY <1>2
<1>4. PICK g : g = [y.got EXCEPT ![k] = NewId(p, k)]
  OBVIOUS
<1>5. g \in [Keys -> Ids \cup {NoId}] /\ g[k] = NewId(p, k)
      /\ \A j \in Keys \ {k} : g[j] = y.got[j]
  BY <1>2, <1>4, KeyFacts DEF Call
<1>6. PICK m \in SUBSET Keys : m = y.mine \cup {k}
  BY DEF Call
<1>7. PICK f : f = [y EXCEPT !.mine = m, !.got = g]
  OBVIOUS
<1>8. /\ f \in Call /\ f.at = y.at /\ f.list = y.list /\ f.i = y.i /\ f.got = g /\ f.mine = m
      /\ f.new = y.new /\ f.number = y.number /\ f.held = y.held /\ f.why = y.why
  BY <1>5, <1>7 DEF Call
<1>9. PICK x : x = IF More(p) THEN [f EXCEPT !.at = "find", !.i = @ + 1]
                             ELSE [f EXCEPT !.at = "commit"]
  OBVIOUS
<1>10. call' = [call EXCEPT ![p] = x]
  BY <1>2, <1>3, <1>4, <1>6, <1>7, <1>9 DEF Goes
<1>11. /\ x \in Call /\ x.list = y.list /\ x.got = g /\ x.mine = m
       /\ x.new = y.new /\ x.number = y.number /\ x.held = y.held /\ x.why = y.why
       /\ IF y.i < Len(y.list) THEN x.at = "find" /\ x.i = y.i + 1 ELSE x.at = "commit" /\ x.i = y.i
  <2>1. CASE More(p)
    <3>1. PICK n \in Nat : n = y.i + 1
      BY <1>2 DEF Call
    <3>2. x = [f EXCEPT !.at = "find", !.i = n]
      BY <1>8, <1>9, <2>1, <3>1
    <3>3. /\ x \in Call /\ x.at = "find" /\ x.list = f.list /\ x.i = n /\ x.got = f.got
          /\ x.mine = f.mine /\ x.new = f.new /\ x.number = f.number /\ x.held = f.held /\ x.why = f.why
      BY <1>8, <3>2 DEF Call
    <3>4. QED BY <1>2, <1>8, <2>1, <3>1, <3>3
  <2>2. CASE ~More(p)
    BY <1>2, <1>8, <1>9, <2>2 DEF Call
  <2>3. QED BY <2>1, <2>2
<1>12. /\ Shape(x) /\ KindIs(x) = Kind(p) /\ Done(x) = Done(y) \cup {k}
       /\ Kind(p) \notin Batched => x.at = "commit" /\ KeyOf(x) = k
  BY <1>1, <1>2, <1>3, <1>11, NextKey DEF CallOK
<1>13. Done(y) \subseteq Keys
  BY <1>1, <1>2, ListFacts DEF CallOK, Done, Over
<1>14. row[k] = NoId /\ opened[k] = 0
  BY <1>3 DEF IInv, TypeOK, AnsweredAlike
<1>15. Rows(p, x)
  <2>1. /\ y.mine \subseteq Done(y)
        /\ \A j \in Done(y) : y.got[j] = IF j \in y.mine THEN NewId(p, j) ELSE row[j]
        /\ \A j \in Done(y) \ y.mine : row[j] # NoId
        /\ \A j \in y.mine : row[j] = NoId /\ opened[j] = 0
    BY <1>1, <1>2 DEF CallOK, Rows
  <2>2. m \subseteq Done(x)
    BY <2>1, <1>6, <1>12
  <2>3. \A j \in Done(x) : g[j] = IF j \in m THEN NewId(p, j) ELSE row[j]
    BY <2>1, <1>5, <1>6, <1>12, <1>13
  <2>4. \A j \in Done(x) \ m : row[j] # NoId
    BY <2>1, <1>6, <1>12
  <2>5. \A j \in m : row[j] = NoId /\ opened[j] = 0
    BY <2>1, <1>6, <1>14
  <2>6. x.at \in {"find", "commit"}
    BY <1>11
  <2>7. KindIs(x) \notin Batched => KeyOf(x) \in m
    BY <1>6, <1>12
  <2>8. QED BY <1>11, <2>2, <2>3, <2>4, <2>5, <2>6, <2>7 DEF Rows
<1>16. Made(p, x)
  <2>1. MadeBy(x) = MadeBy(y)
    BY <1>1, <1>2, <1>3, <1>6, <1>11 DEF MadeBy
  <2>2. QED BY <1>1, <1>2, <1>11, <2>1 DEF CallOK, Made
<1>17. Holds(x)
  BY <1>1, <1>2, <1>11 DEF CallOK, Holds
<1>18. Counted(x)
  <2>1. x.number # 0 <=> Kind(p) \in Numbered
    BY <1>1, <1>2, <1>11 DEF CallOK, Counted
  <2>2. Kind(p) \in Numbered => x.at = "commit"
    BY <1>12 DEF Numbered, Batched
  <2>3. QED BY <1>2, <1>11, <1>12, <2>1, <2>2 DEF CallOK, Counted
<1>19. ASSUME NEW q \in Procs \ {p} PROVE Apart(x, call[q])
  <2>1. k \notin call[q].mine
    <3> SUFFICES ASSUME k \in call[q].mine PROVE FALSE
      OBVIOUS
    <3>1. At(q, "tell")
      BY <1>1, <1>3 DEF WaitsFor, At
    <3>2. row[k] = NewId(q, k)
      BY <3>1 DEF IInv, KeysExclusive
    <3>3. NewId(q, k) \in Ids /\ NoId \notin Ids
      BY KeyFacts
    <3>4. QED BY <3>2, <3>3, <1>14
  <2>2. Apart(y, call[q])
    BY <1>2
  <2>3. QED BY <1>2, <1>6, <1>11, <1>12, <2>1, <2>2 DEF Apart
<1>20. CallOK(p, x)
  BY <1>12, <1>15, <1>16, <1>17, <1>18 DEF CallOK
<1>21. template' \in [Templates -> {"absent", "running", "stopped"}]
       /\ UNCHANGED <<row, code, counter, tasks, ghosts>>
  BY DEF IInv, TypeOK, tables
<1>22. QED BY <1>1, <1>10, <1>11, <1>19, <1>20, <1>21, QuietStep

LEMMA InsertKeeps ==
  ASSUME IInv, NEW p \in Procs, Insert(p) PROVE IInv'
<1>1. CASE row[Key(p)] = NoId
  BY <1>1, InsertedKeeps DEF Insert
<1>2. CASE row[Key(p)] # NoId
  <2>1. Undo(p, "race") /\ UNCHANGED <<tables, ghosts>> /\ "race" \in Causes
        /\ call[p].at \notin {"idle", "tell"}
    BY <1>2 DEF Insert, At, Causes
  <2>2. QED BY <1>2, <2>1, UndoKeeps
<1>3. QED BY <1>1, <1>2

\* The second look answers, or gives up.
LEMMA AgainKeeps ==
  ASSUME IInv, NEW p \in Procs, Again(p) PROVE IInv'
<1>1. CASE row[Key(p)] # NoId
  <2>1. call[p].at = "again" /\ Kind(p) \notin Batched
    BY DEF IInv, ListsOK, Again, At, Retried, Batched
  <2>2. QED BY <1>1, <2>1, FoundStep DEF Again
<1>2. CASE row[Key(p)] = NoId
  <2>1. call' = [call EXCEPT ![p] = NoCall] /\ call[p].at # "tell"
    BY <1>2 DEF Again, Goes, At
  <2>2. template' \in [Templates -> {"absent", "running", "stopped"}]
        /\ UNCHANGED <<row, code, counter, tasks, ghosts>>
    BY <1>2 DEF Again, Unanswered, IInv, TypeOK, tables, ghosts
  <2>3. NoCall \in Call /\ CallOK(p, NoCall) /\ \A q \in Procs \ {p} : Apart(NoCall, call[q])
    BY IdleOK
  <2>4. QED BY <2>1, <2>2, <2>3, QuietStep
<1>3. QED BY <1>1, <1>2

LEMMA FailKeeps ==
  ASSUME IInv, NEW p \in Procs, Fail(p) \/ Victim(p) PROVE IInv'
<1>1. CASE Fail(p)
  <2>1. call[p].at \notin {"idle", "tell"}
    BY <1>1 DEF Fail, InTx, At
  <2>2. Undo(p, "fault") /\ UNCHANGED <<tables, ghosts>> /\ "fault" \in Causes /\ "fault" # "race"
    BY <1>1 DEF Fail, Causes
  <2>3. QED BY <2>1, <2>2, UndoKeeps
<1>2. CASE Victim(p)
  <2>1. WaitsFor(p) # {}
    BY <1>2 DEF Victim, Deadlocked
  <2>2. call[p].at \in {"insert", "number"}
    BY <2>1 DEF WaitsFor, At
  <2>3. Undo(p, "deadlock") /\ UNCHANGED <<tables, ghosts>> /\ "deadlock" \in Causes
        /\ "deadlock" # "race" /\ call[p].at \notin {"idle", "tell"}
    BY <1>2, <2>2 DEF Victim, Causes
  <2>4. QED BY <2>3, UndoKeeps
<1>3. QED BY <1>1, <1>2
-----------------------------------------------------------------------------
(* The commit *)

\* What a commit does to the rows and the tasks: the keys it inserted were free,
\* and get what the call has of its own; nothing else changes.
LEMMA CommitRows ==
  ASSUME IInv, NEW p \in Procs, At(p, "commit"), Committed(p)
  PROVE  /\ row' \in [Keys -> Ids \cup {NoId}]
         /\ call[p].mine \subseteq Asked(call[p]) /\ Asked(call[p]) \subseteq Keys
         /\ \A k \in call[p].mine : row[k] = NoId /\ row'[k] = NewId(p, k) /\ row'[k] # NoId
         /\ \A k \in Keys \ call[p].mine : row'[k] = row[k]
         /\ \A k \in Asked(call[p]) : call[p].got[k] = row'[k] /\ row'[k] # NoId
<1>1. call[p].at = "commit" /\ call[p].at # "idle"
  BY DEF At
<1>2. PICK y \in Call : y = call[p] /\ CallOK(p, y)
  BY <1>1, CallFacts
<1>3. Done(y) = Asked(y)
  BY <1>1, <1>2 DEF Done, Over
<1>4. y.mine \subseteq Asked(y) /\ Asked(y) \subseteq Keys
  BY <1>1, <1>2, <1>3, ListFacts DEF CallOK, Rows, Asked
<1>5. \A k \in y.mine : row[k] = NoId /\ y.got[k] = NewId(p, k)
  BY <1>1, <1>2, <1>3, <1>4 DEF CallOK, Rows
<1>6. \A k \in Keys : row'[k] = IF k \in y.mine THEN y.got[k] ELSE row[k]
  BY <1>2 DEF Committed
<1>7. row' \in [Keys -> Ids \cup {NoId}]
  BY <1>2 DEF Committed, IInv, TypeOK, Call
<1>8. \A k \in y.mine : row'[k] = NewId(p, k) /\ row'[k] # NoId
  BY <1>4, <1>5, <1>6, KeyFacts
<1>9. \A k \in Asked(y) : y.got[k] = row'[k] /\ row'[k] # NoId
  BY <1>2, <1>3, <1>4, <1>5, <1>6, <1>8 DEF CallOK, Rows
<1>10. QED BY <1>2, <1>4, <1>5, <1>6, <1>7, <1>8, <1>9

LEMMA CommitTasks ==
  ASSUME IInv, NEW p \in Procs, At(p, "commit"), Committed(p)
  PROVE  /\ tasks' = tasks \cup call[p].new /\ tasks' \subseteq Ids
         /\ \A id \in call[p].new : \E k \in call[p].mine : id = NewId(p, k)
         /\ RowsOfKeys' /\ TasksHaveKeys'
<1>1. call[p].at = "commit" /\ call[p].at # "idle"
  BY DEF At
<1>2. PICK y \in Call : y = call[p] /\ CallOK(p, y)
  BY <1>1, CallFacts
<1>3. tasks' = tasks \cup y.new /\ tasks' \subseteq Ids
  BY <1>2 DEF Committed, IInv, TypeOK, Call
<1>4. y.new = {NewId(p, k) : k \in {j \in y.mine : KindOf[j] \in TaskKinds}}
  BY <1>1, <1>2 DEF CallOK, Made, MadeBy
<1>5. /\ y.mine \subseteq Keys
      /\ \A k \in y.mine : row[k] = NoId /\ row'[k] = NewId(p, k) /\ row'[k] # NoId
      /\ \A k \in Keys \ y.mine : row'[k] = row[k]
  BY <1>2, CommitRows
<1>6. RowsOfKeys'
  <2> SUFFICES ASSUME NEW k \in Keys, row'[k] # NoId PROVE row'[k] \in Procs \X {k}
    BY DEF RowsOfKeys
  <2>1. CASE k \in y.mine
    BY <2>1, <1>5 DEF NewId
  <2>2. CASE k \notin y.mine
    BY <2>2, <1>5 DEF IInv, RowsOfKeys
  <2>3. QED BY <2>1, <2>2
<1>7. TasksHaveKeys'
  <2>1. tasks = {row[k] : k \in {j \in Keys : KindOf[j] \in TaskKinds}} \ {NoId}
    BY DEF IInv, TasksHaveKeys
  <2>2. ASSUME NEW id \in tasks'
        PROVE  id # NoId /\ \E k \in Keys : KindOf[k] \in TaskKinds /\ id = row'[k]
    <3>1. CASE id \in tasks
      <4>1. PICK k \in Keys : KindOf[k] \in TaskKinds /\ id = row[k] /\ id # NoId
        BY <3>1, <2>1
      <4>2. k \notin y.mine
        BY <4>1, <1>5
      <4>3. QED BY <4>1, <4>2, <1>5
    <3>2. CASE id \in y.new
      <4>1. PICK k \in y.mine : KindOf[k] \in TaskKinds /\ id = NewId(p, k)
        BY <3>2, <1>4
      <4>2. k \in Keys /\ row'[k] = id /\ id # NoId
        BY <4>1, <1>5
      <4>3. QED BY <4>1, <4>2
    <3>3. QED BY <3>1, <3>2, <1>3
  <2>3. ASSUME NEW k \in Keys, KindOf[k] \in TaskKinds, row'[k] # NoId PROVE row'[k] \in tasks'
    <3>1. CASE k \in y.mine
      BY <3>1, <2>3, <1>3, <1>4, <1>5
    <3>2. CASE k \notin y.mine
      BY <3>2, <2>1, <2>3, <1>3, <1>5
    <3>3. QED BY <3>1, <3>2
  <2>4. tasks' = {row'[k] : k \in {j \in Keys : KindOf[j] \in TaskKinds}} \ {NoId}
    BY <2>2, <2>3
  <2>5. QED BY <2>4 DEF TasksHaveKeys
<1>8. \A id \in y.new : \E k \in y.mine : id = NewId(p, k)
  BY <1>4
<1>9. QED BY <1>2, <1>3, <1>6, <1>7, <1>8

\* The code of the thing it made, if it has one, is the next.
LEMMA CommitCodes ==
  ASSUME IInv, NEW p \in Procs, At(p, "commit"), Committed(p)
  PROVE  /\ code' \in [Keys -> Nat] /\ counter' \in [Numbered -> Nat] /\ CodesGapless'
         /\ \A kind \in Numbered : call[p].number = 0 \/ kind # Kind(p) => counter'[kind] = counter[kind]
<1>1. call[p].at = "commit" /\ call[p].at # "idle"
  BY DEF At
<1>2. PICK y \in Call :
        /\ y = call[p] /\ CallOK(p, y) /\ KeyOf(y) = Key(p) /\ KindIs(y) = Kind(p)
        /\ Key(p) \in Keys /\ Kind(p) \in Kinds
  BY <1>1, CallFacts
<1>3. /\ \A j \in 1 .. Len(y.list) : KindOf[y.list[j]] = Kind(p)
      /\ Kind(p) \notin Batched => Asked(y) = {Key(p)}
  BY <1>1, <1>2, ListFacts DEF CallOK
<1>4. /\ y.mine \subseteq Asked(y) /\ Asked(y) \subseteq Keys
      /\ \A k \in y.mine : row[k] = NoId /\ row'[k] # NoId
      /\ \A k \in Keys \ y.mine : row'[k] = row[k]
  BY <1>2, CommitRows
<1>5. /\ y.number \in Nat /\ (y.number # 0 <=> Kind(p) \in Numbered)
      /\ y.number # 0 => y.number = IF counter[Kind(p)] = 0 THEN 1 ELSE counter[Kind(p)]
      /\ Kind(p) \in Numbered => Kind(p) \notin Batched /\ Key(p) \in y.mine
  BY <1>1, <1>2 DEF CallOK, Counted, Rows, Call, Over, Numbered, Batched
<1>6. code' \in [Keys -> Nat]
      /\ \A k \in Keys : code'[k] = IF k \in y.mine THEN y.number ELSE code[k]
  BY <1>2, <1>5 DEF Committed, IInv, TypeOK
<1>7. counter' = IF y.number = 0 THEN counter ELSE [counter EXCEPT ![Kind(p)] = y.number + 1]
  BY <1>2 DEF Committed
<1>8. counter \in [Numbered -> Nat] /\ code \in [Keys -> Nat] /\ CodesGapless
  BY DEF IInv, TypeOK
<1>9. counter' \in [Numbered -> Nat]
  BY <1>5, <1>7, <1>8
<1>10. \A kind \in Numbered : y.number = 0 \/ kind # Kind(p) => counter'[kind] = counter[kind]
  BY <1>7, <1>8
<1>11. CodesGapless'
  <2> SUFFICES ASSUME NEW kind \in Numbered
               PROVE  LET made == {k \in Of(kind) : row'[k] # NoId}
                      IN  /\ {code'[k] : k \in made} = {n \in 1 .. counter'[kind] : n < counter'[kind]}
                          /\ \A j, k \in made : code'[j] = code'[k] => j = k
    BY DEF CodesGapless
  <2>1. PICK m : m = {k \in Of(kind) : row[k] # NoId}
    OBVIOUS
  <2>2. /\ {code[k] : k \in m} = {n \in 1 .. counter[kind] : n < counter[kind]}
        /\ \A j, k \in m : code[j] = code[k] => j = k
        /\ m \subseteq Keys /\ \A k \in m : k \notin y.mine /\ code'[k] = code[k]
    BY <1>4, <1>6, <1>8, <2>1 DEF CodesGapless, Of
  <2>3. CASE y.number = 0 \/ kind # Kind(p)
    <3>1. \A k \in y.mine : KindOf[k] # kind
      BY <2>3, <1>3, <1>4, <1>5 DEF Asked
    <3>2. {k \in Of(kind) : row'[k] # NoId} = m
      BY <3>1, <2>1, <1>4 DEF Of
    <3>3. {code'[k] : k \in m} = {code[k] : k \in m}
      BY <2>2
    <3>4. QED BY <3>2, <3>3, <2>2, <2>3, <1>10
  <2>4. CASE y.number # 0 /\ kind = Kind(p)
    <3>1. y.mine = {Key(p)} /\ KindOf[Key(p)] = kind
      BY <2>4, <1>3, <1>4, <1>5 DEF Kind
    <3>2. {k \in Of(kind) : row'[k] # NoId} = m \cup {Key(p)}
      BY <3>1, <2>1, <1>2, <1>4 DEF Of
    <3>3. code'[Key(p)] = y.number /\ counter'[kind] = y.number + 1 /\ Key(p) \notin m
      BY <3>1, <2>2, <2>4, <1>2, <1>6, <1>7, <1>8
    <3>4. {n \in 1 .. counter'[kind] : n < counter'[kind]}
            = {n \in 1 .. counter[kind] : n < counter[kind]} \cup {y.number}
      BY <3>3, <2>4, <1>5, <1>8
    <3>5. {code'[k] : k \in m \cup {Key(p)}} = {code[k] : k \in m} \cup {y.number}
      BY <3>3, <2>2
    <3>6. y.number \notin {n \in 1 .. counter[kind] : n < counter[kind]}
      BY <2>4, <1>5, <1>8
    <3>7. ASSUME NEW j \in m \cup {Key(p)}, NEW k \in m \cup {Key(p)}, code'[j] = code'[k] PROVE j = k
      BY <3>3, <3>6, <3>7, <2>2
    <3>8. QED BY <3>2, <3>4, <3>5, <3>7, <2>2
  <2>5. QED BY <2>3, <2>4
<1>12. QED BY <1>2, <1>6, <1>9, <1>10, <1>11

\* The other calls do not see a commit.
LEMMA CommitOthers ==
  ASSUME IInv, NEW p \in Procs, At(p, "commit"), Committed(p), UNCHANGED told,
         NEW x \in Call, call' = [call EXCEPT ![p] = x],
         \A k \in Keys \ call[p].mine : opened'[k] = opened[k],
         CallOK(p, x)', x.mine \subseteq call[p].mine, x.number = 0
  PROVE  /\ \A q \in Procs : CallOK(q, call[q])'
         /\ \A q \in Procs : \A r \in Procs \ {q} : Apart(call[q], call[r])'
<1>1. call'[p] = x /\ \A q \in Procs \ {p} : call'[q] = call[q]
  BY DEF IInv, TypeOK
<1>2. ASSUME NEW q \in Procs \ {p} PROVE CallOK(q, call[q])'
  <2>1. PICK y \in Call : y = call[q] /\ y = call'[q] /\ CallOK(q, y) /\ Apart(call[p], y)
    BY <1>1, OfCall
  <2>2. Shape(y)' /\ Holds(y)'
    BY <2>1 DEF CallOK, Shape, Holds
  <2>3. Rows(q, y)'
    <3>1. CASE y.at = "idle"
      <4>1. y = NoCall
        BY <2>1, <3>1 DEF CallOK, Shape
      <4>2. QED BY <4>1, IdleOK DEF CallOK
    <3>2. CASE y.at # "idle"
      <4>1. Done(y) \subseteq Keys /\ KeyOf(y) \in Keys /\ y.mine \subseteq Keys
        <5>1. Shape(y)
          BY <2>1 DEF CallOK
        <5>2. /\ Len(y.list) \in Nat /\ y.i \in 1 .. Len(y.list) /\ KeyOf(y) \in Keys
              /\ \A j \in 1 .. Len(y.list) : y.list[j] \in Keys
          BY <3>2, <5>1, ListFacts
        <5>3. y.mine \subseteq Keys
          BY DEF Call
        <5>4. QED BY <5>2, <5>3 DEF Done, Asked
      <4>2. \A k \in Keys : row[k] # NoId => row'[k] = row[k]
        BY CommitRows
      <4>3. \A k \in y.mine : k \notin call[p].mine /\ row'[k] = row[k] /\ opened'[k] = opened[k]
        BY <2>1, <4>1, CommitRows DEF Apart
      <4>4. Rows(q, y)
        BY <2>1 DEF CallOK
      <4>5. \A k \in Done(y) : y.got[k] = IF k \in y.mine THEN NewId(q, k) ELSE row'[k]
        BY <4>1, <4>2, <4>4 DEF Rows
      <4>6. \A k \in Done(y) \ y.mine : row'[k] # NoId
        BY <4>1, <4>2, <4>4 DEF Rows
      <4>7. \A k \in y.mine : /\ row'[k] = IF y.at = "tell" THEN NewId(q, k) ELSE NoId
                              /\ opened'[k] = 0
        BY <4>3, <4>4 DEF Rows
      <4>8. y.at = "again" /\ y.why = "race" => row'[KeyOf(y)] # NoId
        BY <4>1, <4>2, <4>4 DEF Rows
      <4>9. QED BY <4>4, <4>5, <4>6, <4>7, <4>8 DEF Rows
    <3>3. QED BY <3>1, <3>2
  <2>4. Made(q, y)'
    <3>1. tasks' = tasks \cup call[p].new
          /\ \A id \in call[p].new : \E k \in call[p].mine : id = NewId(p, k)
      BY CommitTasks
    <3>2. \A k : NewId(q, k) \notin call[p].new
      BY <3>1 DEF NewId
    <3>3. Made(q, y)
      BY <2>1 DEF CallOK
    <3>4. y.new \cap call[p].new = {}
      BY <3>2, <3>3 DEF Made
    <3>5. QED BY <3>1, <3>2, <3>3, <3>4 DEF Made
  <2>5. Counted(y)'
    <3>1. Counted(y)
      BY <2>1 DEF CallOK
    <3>2. CASE y.number = 0
      BY <3>1, <3>2 DEF Counted
    <3>3. CASE y.number # 0
      <4>1. KindIs(y) \in Numbered
        BY <3>1, <3>3 DEF Counted
      <4>2. call[p].number = 0 \/ KindIs(y) # Kind(p)
        BY <2>1, <3>3 DEF Apart, KindIs, KeyOf, Kind, Key
      <4>3. counter'[KindIs(y)] = counter[KindIs(y)]
        BY <4>1, <4>2, CommitCodes
      <4>4. QED BY <3>1, <4>3 DEF Counted
    <3>4. QED BY <3>2, <3>3
  <2>6. CallOK(q, y)'
    BY <2>2, <2>3, <2>4, <2>5 DEF CallOK
  <2>7. QED BY <2>1, <2>6
<1>3. \A q \in Procs : CallOK(q, call[q])'
  BY <1>1, <1>2
<1>4. ASSUME NEW q \in Procs, NEW r \in Procs \ {q} PROVE Apart(call'[q], call'[r])
  <2>1. Apart(call[q], call[r])
    BY OfCall
  <2>2. QED BY <2>1, <1>1 DEF Apart
<1>5. QED BY <1>3, <1>4

\* What the tables and the types are after a commit, however the call goes on.
LEMMA CommitTables ==
  ASSUME IInv, NEW p \in Procs, At(p, "commit"), Committed(p), UNCHANGED told,
         NEW x \in Call, call' = [call EXCEPT ![p] = x], lost' \subseteq Ids,
         opened' \in [Keys -> Nat], answers' \subseteq Keys \X (Ids \cup {NoId}), AnsweredAlike'
  PROVE  TypeOK' /\ TablesOK'
<1>1. TypeOK'
  BY CommitRows, CommitTasks, CommitCodes DEF Committed, IInv, TypeOK
<1>2. ToldOfCommitted'
  BY CommitTasks DEF IInv, TaskEventsPublished, ToldOfCommitted
<1>3. QED BY <1>1, <1>2, CommitTasks, CommitCodes DEF TablesOK

\* Up to its commit a call holds every event of the tasks it has created.
LEMMA CommitHolds ==
  ASSUME IInv, NEW p \in Procs, At(p, "commit"), Committed(p),
         NEW id \in tasks' \ tasks, NEW j \in 1 .. Len(Events(id))
  PROVE  \E h \in 1 .. Len(call[p].held) : call[p].held[h] = Events(id)[j] /\ call[p].held[h][2] = id
<1>1. call[p].at = "commit" /\ call[p].at # "idle"
  BY DEF At
<1>2. PICK y \in Call : y = call[p] /\ CallOK(p, y)
  BY <1>1, CallFacts
<1>3. id \in y.new
  BY <1>2, CommitTasks
<1>4. PICK h \in 1 .. Len(y.held) : y.held[h] = Events(id)[j]
  BY <1>1, <1>2, <1>3 DEF CallOK, Holds
<1>5. PICK k \in y.mine : id = NewId(p, k)
  BY <1>2, <1>3, CommitTasks
<1>6. k \in Keys
  BY <1>5 DEF Call
<1>7. Events(id)[j][2] = id
  BY <1>5, <1>6, EventsFacts
<1>8. QED BY <1>2, <1>4, <1>7

\* AnsweredAlike after a commit that answers nobody.
LEMMA CommitUnanswered ==
  ASSUME IInv, NEW p \in Procs, At(p, "commit"), Committed(p), Unanswered
  PROVE  /\ opened' \in [Keys -> Nat] /\ answers' \subseteq Keys \X (Ids \cup {NoId})
         /\ AnsweredAlike'
<1>1. \A k \in Keys : row[k] # NoId => row'[k] = row[k]
  BY CommitRows
<1>2. opened' = opened /\ answers' = answers /\ AnsweredAlike
      /\ opened \in [Keys -> Nat] /\ answers \subseteq Keys \X (Ids \cup {NoId})
  BY DEF Unanswered, IInv, TypeOK
<1>3. \A k \in Keys : opened'[k] <= 1 /\ (opened'[k] = 1 => row'[k] # NoId)
  BY <1>1, <1>2 DEF AnsweredAlike
<1>4. \A a \in answers' : a[2] = row'[a[1]] /\ a[2] # NoId
  BY <1>1, <1>2 DEF AnsweredAlike
<1>5. QED BY <1>2, <1>3, <1>4 DEF AnsweredAlike

LEMMA CommitKeeps ==
  ASSUME IInv, NEW p \in Procs, Commit(p) PROVE IInv'
<1>1. call[p].at = "commit" /\ call[p].at # "idle" /\ call[p].at # "tell" /\ At(p, "commit")
      /\ Committed(p) /\ told' = told /\ lost' = lost /\ lost \subseteq Ids
  BY DEF Commit, At, IInv, TypeOK
<1>2. PICK y \in Call : y = call[p] /\ CallOK(p, y)
  BY <1>1, CallFacts
<1>3. CASE y.held = <<>>
  <2>1. Answer(p, y.got)
    BY <1>2, <1>3 DEF Commit
  <2>2. y.got \in [Keys -> Ids \cup {NoId}]
    BY DEF Call
  <2>3. /\ opened' \in [Keys -> Nat] /\ answers' \subseteq Keys \X (Ids \cup {NoId})
        /\ AnsweredAlike' /\ call' = [call EXCEPT ![p] = NoCall]
        /\ \A k \in Keys \ call[p].mine : opened'[k] = opened[k]
    <3>1. /\ row' \in [Keys -> Ids \cup {NoId}] /\ Asked(call[p]) \subseteq Keys
          /\ \A k \in Keys : row[k] # NoId => row'[k] = row[k]
          /\ \A k \in Asked(call[p]) : y.got[k] = row'[k] /\ row'[k] # NoId
          /\ call[p].mine \subseteq Asked(call[p])
      BY <1>1, <1>2, CommitRows
    <3>2. QED BY <2>1, <2>2, <3>1, AnswerIs
  <2>4. TypeOK' /\ TablesOK'
    BY <1>1, <2>3, IdleOK, CommitTables
  <2>5. NothingUnsaid'
    <3>1. \A id \in tasks' \ tasks : \A j \in 1 .. Len(Events(id)) : FALSE
      BY <1>1, <1>2, <1>3, CommitHolds
    <3>2. QED BY <1>1, <2>3, <3>1, UnsaidKeeps DEF Covers
  <2>6. /\ \A q \in Procs : CallOK(q, call[q])'
        /\ \A q \in Procs : \A r \in Procs \ {q} : Apart(call[q], call[r])'
    <3>1. NoCall \in Call /\ CallOK(p, NoCall)' /\ NoCall.mine \subseteq call[p].mine /\ NoCall.number = 0
      BY IdleOK, NoCallIs
    <3>2. QED BY <1>1, <2>3, <3>1, CommitOthers
  <2>7. QED BY <2>4, <2>5, <2>6, OfCalls
<1>4. CASE y.held # <<>>
  <2>1. PICK x : x = [y EXCEPT !.at = "tell", !.number = 0]
    OBVIOUS
  <2>2. call' = [call EXCEPT ![p] = x] /\ Unanswered
    BY <1>2, <1>4, <2>1 DEF Commit, Goes
  <2>3. /\ x \in Call /\ x.at = "tell" /\ x.list = y.list /\ x.i = y.i /\ x.got = y.got /\ x.mine = y.mine
        /\ x.new = y.new /\ x.number = 0 /\ x.held = y.held /\ x.why = y.why
    BY <2>1 DEF Call
  <2>4. TypeOK' /\ TablesOK'
    BY <1>1, <2>2, <2>3, CommitUnanswered, CommitTables
  <2>5. NothingUnsaid'
    <3>1. ASSUME NEW id \in tasks' \ tasks, NEW j \in 1 .. Len(Events(id))
          PROVE  \E h \in 1 .. Len(x.held) : x.held[h] = Events(id)[j]
      <4>1. PICK h \in 1 .. Len(call[p].held) : call[p].held[h] = Events(id)[j]
        BY <1>1, CommitHolds
      <4>2. x.held = call[p].held
        BY <1>2, <2>3
      <4>3. QED BY <4>1, <4>2
    <3>2. /\ call' = [call EXCEPT ![p] = x] /\ x.at = "tell" /\ call[p].at # "tell"
          /\ told' = told /\ lost \subseteq lost'
      BY <1>1, <2>2, <2>3
    <3>3. Covers(x)
      BY <3>1, <3>2 DEF Covers
    <3>4. QED BY <3>2, <3>3, UnsaidKeeps
  <2>6. CallOK(p, x)'
    <3>1. KeyOf(x) = KeyOf(y) /\ KindIs(x) = KindIs(y) /\ Done(x) = Done(y) /\ Over(x) /\ Over(y)
          /\ Done(x) = Asked(y)
      BY <1>1, <1>2, <2>3 DEF KeyOf, KindIs, Done, Over, Asked
    <3>2. Shape(x)'
      <4>1. x # NoCall
        BY <2>3, NoCallIs
      <4>2. Shape(y) /\ y.at # "idle"
        BY <1>1, <1>2 DEF CallOK
      <4>3. QED BY <2>3, <3>1, <4>1, <4>2 DEF Shape
    <3>3. Rows(p, x)'
      <4>1. Rows(p, y)
        BY <1>2 DEF CallOK
      <4>2. /\ \A k \in y.mine : row'[k] = NewId(p, k)
            /\ \A k \in Asked(y) : y.got[k] = row'[k] /\ row'[k] # NoId
            /\ opened' = opened
        BY <1>1, <1>2, <2>2, CommitRows DEF Unanswered
      <4>3. \A k \in y.mine : opened[k] = 0
        BY <4>1 DEF Rows
      <4>4. y.mine \subseteq Asked(y) /\ (KindIs(y) \notin Batched => KeyOf(y) \in y.mine)
        BY <3>1, <4>1 DEF Rows
      <4>5. QED BY <2>3, <3>1, <4>2, <4>3, <4>4 DEF Rows
    <3>4. Made(p, x)'
      <4>1. MadeBy(x) = MadeBy(y)
        BY <1>1, <1>2, <2>3 DEF MadeBy
      <4>2. y.new \subseteq tasks'
        BY <1>1, <1>2, CommitTasks
      <4>3. QED BY <1>2, <2>3, <4>1, <4>2 DEF CallOK, Made
    <3>5. Holds(x)'
      BY <1>1, <1>2, <1>4, <2>3 DEF CallOK, Holds
    <3>6. Counted(x)'
      BY <2>3 DEF Counted
    <3>7. QED BY <3>2, <3>3, <3>4, <3>5, <3>6 DEF CallOK
  <2>7. /\ \A q \in Procs : CallOK(q, call[q])'
        /\ \A q \in Procs : \A r \in Procs \ {q} : Apart(call[q], call[r])'
    <3>1. x.mine \subseteq call[p].mine /\ \A k \in Keys \ call[p].mine : opened'[k] = opened[k]
      BY <1>2, <2>2, <2>3 DEF Unanswered
    <3>2. QED BY <1>1, <2>2, <2>3, <2>6, <3>1, CommitOthers
  <2>8. QED BY <2>4, <2>5, <2>7, OfCalls
<1>5. QED BY <1>3, <1>4

\* The commit is done and the caller does not hear of it.
LEMMA CommitUnheardKeeps ==
  ASSUME IInv, NEW p \in Procs, CommitUnheard(p) PROVE IInv'
<1>1. call[p].at = "commit" /\ call[p].at # "idle" /\ call[p].at # "tell" /\ At(p, "commit")
      /\ Committed(p) /\ told' = told /\ lost' = lost \cup Unsaid(p) /\ Unanswered
      /\ Undo(p, "fault") /\ "fault" \in Causes /\ "fault" # "race"
  BY DEF CommitUnheard, At, Unanswered, Causes
<1>2. PICK x \in Call :
        /\ call' = [call EXCEPT ![p] = x] /\ Shape(x)
        /\ x = NoCall \/ /\ x.at = "again" /\ x.i = 1 /\ x.mine = {} /\ x.new = {}
                         /\ x.held = <<>> /\ x.number = 0 /\ x.why = "fault" /\ KeyOf(x) = Key(p)
  BY <1>1, OfCall, UndoIs
<1>3. CallOK(p, x)' /\ x.mine = {} /\ x.number = 0
  BY <1>1, <1>2, IdleOK, NoCallIs, FreshOK
<1>4. lost' \subseteq Ids
  <2>1. PICK y \in Call : y = call[p] /\ CallOK(p, y)
    BY <1>1, CallFacts
  <2>2. \A h \in 1 .. Len(y.held) : y.held[h][2] \in y.new
    BY <2>1 DEF CallOK, Holds
  <2>3. QED BY <1>1, <2>1, <2>2 DEF Unsaid, IInv, TypeOK, Call
<1>5. TypeOK' /\ TablesOK'
  BY <1>1, <1>2, <1>4, CommitUnanswered, CommitTables
<1>6. NothingUnsaid'
  <2>1. \A id \in tasks' \ tasks : \A j \in 1 .. Len(Events(id)) : id \in lost'
    BY <1>1, CommitHolds DEF Unsaid
  <2>2. QED BY <1>1, <1>2, <2>1, UnsaidKeeps DEF Covers
<1>7. /\ \A q \in Procs : CallOK(q, call[q])'
      /\ \A q \in Procs : \A r \in Procs \ {q} : Apart(call[q], call[r])'
  <2>1. x.mine \subseteq call[p].mine /\ \A k \in Keys \ call[p].mine : opened'[k] = opened[k]
    BY <1>1, <1>3 DEF Unanswered
  <2>2. QED BY <1>1, <1>2, <1>3, <2>1, CommitOthers
<1>8. QED BY <1>5, <1>6, <1>7, OfCalls
-----------------------------------------------------------------------------
(* The events, and a crash *)

\* What a call tells: an event of its own that nobody has told.
LEMMA TellIs ==
  ASSUME IInv, NEW p \in Procs, Tell(p)
  PROVE  \E e \in Topics \X Ids :
           /\ call[p].held[1] = e /\ Len(call[p].held) \in Nat \ {0} /\ e[2] \in call[p].new
           /\ e[2] \in tasks /\ told[e] = 0 /\ told'[e] = 1
           /\ \A d \in (Topics \X Ids) \ {e} : told'[d] = told[d]
           /\ told' \in [Topics \X Ids -> Nat] /\ ToldOfCommitted'
<1>1. call[p].at = "tell" /\ call[p].at # "idle" /\ UNCHANGED <<tables, lost>>
  BY DEF Tell, At
<1>2. PICK y \in Call : y = call[p] /\ CallOK(p, y)
  BY <1>1, CallFacts
<1>3. y.held \in Seq(Topics \X Ids) /\ y.held # <<>>
  BY <1>1, <1>2 DEF CallOK, Holds, Call
<1>4. PICK e \in Topics \X Ids : e = y.held[1] /\ e = Head(y.held) /\ Len(y.held) \in Nat \ {0}
  BY <1>3
<1>5. e[2] \in y.new /\ told[e] = 0
  BY <1>2, <1>4 DEF CallOK, Holds
<1>6. e[2] \in tasks
  BY <1>1, <1>2, <1>5 DEF CallOK, Made
<1>7. told \in [Topics \X Ids -> Nat] /\ told' = [told EXCEPT ![e] = @ + 1]
  BY <1>2, <1>4 DEF Tell, IInv, TypeOK
<1>8. /\ told' \in [Topics \X Ids -> Nat] /\ told'[e] = 1
      /\ \A d \in (Topics \X Ids) \ {e} : told'[d] = told[d]
  BY <1>5, <1>7
<1>9. ToldOfCommitted'
  <2>1. tasks' = tasks
    BY <1>1 DEF tables
  <2>2. \A d \in Topics \X Ids : told[d] <= 1 /\ (told[d] = 1 => d[2] \in tasks)
    BY <1>7 DEF IInv, TaskEventsPublished, ToldOfCommitted
  <2>3. \A d \in Topics \X Ids : told'[d] <= 1 /\ (told'[d] = 1 => d[2] \in tasks)
    BY <1>6, <1>8, <2>2
  <2>4. DOMAIN told' = Topics \X Ids
    BY <1>8
  <2>5. QED BY <2>1, <2>3, <2>4 DEF ToldOfCommitted
<1>10. QED BY <1>2, <1>4, <1>5, <1>6, <1>8, <1>9

\* The other calls hold other events.
LEMMA TellOthers ==
  ASSUME IInv, NEW p \in Procs, Tell(p), NEW x \in Call, call' = [call EXCEPT ![p] = x],
         \A k \in Keys \ call[p].mine : opened'[k] = opened[k],
         CallOK(p, x)', x.mine \subseteq call[p].mine, x.number = 0
  PROVE  /\ \A q \in Procs : CallOK(q, call[q])'
         /\ \A q \in Procs : \A r \in Procs \ {q} : Apart(call[q], call[r])'
<1>1. call'[p] = x /\ \A q \in Procs \ {p} : call'[q] = call[q]
  BY DEF IInv, TypeOK
<1>2. UNCHANGED <<row, code, counter, tasks>>
  BY DEF Tell, tables
<1>3. PICK e \in Topics \X Ids :
        /\ e[2] \in call[p].new /\ \A d \in (Topics \X Ids) \ {e} : told'[d] = told[d]
  BY TellIs
<1>4. \A q \in Procs : call[q].new = {NewId(q, k) : k \in {j \in MadeBy(call[q]) : KindOf[j] \in TaskKinds}}
  BY OfCall DEF CallOK, Made
<1>5. ASSUME NEW q \in Procs \ {p} PROVE CallOK(q, call[q])'
  <2>1. PICK y \in Call : y = call[q] /\ y = call'[q] /\ CallOK(q, y) /\ Apart(call[p], y)
    BY <1>1, OfCall
  <2>2. e[2] \notin y.new
    BY <1>3, <1>4, <2>1 DEF NewId
  <2>3. \A h \in 1 .. Len(y.held) : y.held[h] \in Topics \X Ids /\ y.held[h][2] \in y.new /\ told[y.held[h]] = 0
    BY <2>1 DEF CallOK, Holds, Call
  <2>4. \A h \in 1 .. Len(y.held) : told'[y.held[h]] = 0
    BY <1>3, <2>2, <2>3
  <2>5. Holds(y)'
    BY <2>1, <2>3, <2>4 DEF CallOK, Holds
  <2>6. Shape(y)' /\ Made(q, y)' /\ Counted(y)'
    BY <1>2, <2>1 DEF CallOK, Shape, Made, Counted
  <2>7. Rows(q, y)'
    <3>1. \A k \in y.mine : opened'[k] = opened[k]
      BY <2>1 DEF Apart, Call
    <3>2. QED BY <1>2, <2>1, <3>1 DEF CallOK, Rows
  <2>8. CallOK(q, y)'
    BY <2>5, <2>6, <2>7 DEF CallOK
  <2>9. QED BY <2>1, <2>8
<1>6. \A q \in Procs : CallOK(q, call[q])'
  BY <1>1, <1>5
<1>7. ASSUME NEW q \in Procs, NEW r \in Procs \ {q} PROVE Apart(call'[q], call'[r])
  <2>1. Apart(call[q], call[r])
    BY OfCall
  <2>2. QED BY <2>1, <1>1 DEF Apart
<1>8. QED BY <1>6, <1>7

\* Nothing is unsaid that the call does not go on to hold.
LEMMA TellUnsaid ==
  ASSUME IInv, NEW p \in Procs, Tell(p), NEW x, call' = [call EXCEPT ![p] = x],
         \A h \in 2 .. Len(call[p].held) :
           x.at = "tell" /\ \E g \in 1 .. Len(x.held) : x.held[g] = call[p].held[h]
  PROVE  NothingUnsaid'
<1>1. call'[p] = x /\ \A q \in Procs \ {p} : call'[q] = call[q]
  BY DEF IInv, TypeOK
<1>2. tasks' = tasks /\ lost' = lost /\ tasks \subseteq Ids
  BY DEF Tell, tables, IInv, TypeOK
<1>3. PICK e \in Topics \X Ids :
        /\ call[p].held[1] = e /\ Len(call[p].held) \in Nat \ {0} /\ told[e] = 0 /\ told'[e] = 1
        /\ \A d \in (Topics \X Ids) \ {e} : told'[d] = told[d]
  BY TellIs
<1> SUFFICES ASSUME NEW id \in tasks, NEW j \in 1 .. Len(Events(id))
             PROVE  \/ told'[Events(id)[j]] = 1 \/ id \in lost
                    \/ \E q \in Procs : At(q, "tell")' /\ \E h \in 1 .. Len(call'[q].held) :
                                               call'[q].held[h] = Events(id)[j]
  BY <1>2 DEF NothingUnsaid
<1>4. PICK d \in Topics \X Ids : d = Events(id)[j]
  <2>1. PICK q \in Procs, k \in Keys : id = NewId(q, k)
    BY <1>2 DEF Ids, NewId
  <2>2. QED BY <2>1, EventsFacts
<1>5. CASE told[d] = 1 \/ id \in lost
  BY <1>3, <1>4, <1>5
<1>6. CASE ~(told[d] = 1 \/ id \in lost)
  <2> PICK q \in Procs : At(q, "tell") /\ \E h \in 1 .. Len(call[q].held) : call[q].held[h] = d
    BY <1>4, <1>6 DEF IInv, TaskEventsPublished, NothingUnsaid
  <2>1. PICK h \in 1 .. Len(call[q].held) : At(q, "tell") /\ call[q].held[h] = d
    OBVIOUS
  <2>2. CASE q # p
    BY <2>1, <2>2, <1>1, <1>4 DEF At
  <2>3. CASE q = p /\ h = 1
    BY <2>1, <2>3, <1>3, <1>4
  <2>4. CASE q = p /\ h # 1
    <3>1. h \in 2 .. Len(call[p].held)
      BY <2>1, <2>4, <1>3
    <3>2. x.at = "tell" /\ \E g \in 1 .. Len(x.held) : x.held[g] = d
      BY <3>1, <2>1, <2>4
    <3>3. QED BY <3>2, <1>1, <1>4 DEF At
  <2>5. QED BY <2>2, <2>3, <2>4
<1>7. QED BY <1>5, <1>6

LEMMA Tailed ==
  ASSUME NEW S, NEW s \in Seq(S), Len(s) \in Nat \ {0}, Len(s) # 1
  PROVE  /\ Tail(s) \in Seq(S) /\ Len(Tail(s)) = Len(s) - 1 /\ Tail(s) # <<>>
         /\ \A g \in 1 .. Len(Tail(s)) : g + 1 \in 2 .. Len(s) /\ Tail(s)[g] = s[g + 1]
         /\ \A h \in 2 .. Len(s) : h - 1 \in 1 .. Len(Tail(s)) /\ Tail(s)[h - 1] = s[h]
<1>1. Tail(s) \in Seq(S) /\ Len(Tail(s)) = Len(s) - 1
  OBVIOUS
<1>2. Tail(s) # <<>>
  <2> SUFFICES ASSUME Tail(s) = <<>> PROVE FALSE
    OBVIOUS
  <2>1. Len(Tail(s)) # 0
    BY <1>1
  <2>2. Len(<<>>) = 0
    OBVIOUS
  <2>3. QED BY <2>1, <2>2
<1>3. \A g \in 1 .. Len(Tail(s)) : g + 1 \in 2 .. Len(s) /\ Tail(s)[g] = s[g + 1]
  BY <1>1
<1>4. ASSUME NEW h \in 2 .. Len(s) PROVE h - 1 \in 1 .. Len(Tail(s)) /\ Tail(s)[h - 1] = s[h]
  <2>1. h - 1 \in 1 .. Len(Tail(s)) /\ (h - 1) + 1 = h
    BY <1>1
  <2>2. PICK g \in 1 .. Len(Tail(s)) : g = h - 1 /\ g + 1 = h
    BY <2>1
  <2>3. Tail(s)[g] = s[g + 1]
    BY <1>3
  <2>4. QED BY <2>1, <2>2, <2>3
<1>5. QED BY <1>1, <1>2, <1>3, <1>4

LEMMA TellKeeps ==
  ASSUME IInv, NEW p \in Procs, Tell(p) PROVE IInv'
<1>1. call[p].at = "tell" /\ call[p].at # "idle" /\ UNCHANGED <<row, code, counter, tasks, template, lost>>
  BY DEF Tell, At, tables
<1>2. PICK y \in Call : y = call[p] /\ CallOK(p, y)
  BY <1>1, CallFacts
<1>3. PICK e \in Topics \X Ids :
        /\ y.held[1] = e /\ Len(y.held) \in Nat \ {0} /\ told'[e] = 1
        /\ \A d \in (Topics \X Ids) \ {e} : told'[d] = told[d]
        /\ told' \in [Topics \X Ids -> Nat] /\ ToldOfCommitted'
  BY <1>2, TellIs
<1>4. RowsOfKeys' /\ TasksHaveKeys' /\ CodesGapless'
  BY <1>1 DEF IInv, RowsOfKeys, TasksHaveKeys, CodesGapless
<1>5. y.number = 0
  BY <1>1, <1>2 DEF CallOK, Counted
<1>6. CASE Len(y.held) = 1
  <2>1. Answer(p, y.got) /\ y.got \in [Keys -> Ids \cup {NoId}] /\ row' \in [Keys -> Ids \cup {NoId}]
    BY <1>1, <1>2, <1>6 DEF Tell, Call, IInv, TypeOK
  <2>2. Done(y) = Asked(y) /\ Asked(y) \subseteq Keys /\ y.mine \subseteq Asked(y)
    <3>1. Shape(y) /\ Rows(p, y)
      BY <1>2 DEF CallOK
    <3>2. \A j \in 1 .. Len(y.list) : y.list[j] \in Keys
      BY <1>1, <1>2, <3>1, ListFacts
    <3>3. QED BY <1>1, <1>2, <3>1, <3>2 DEF Rows, Done, Over, Asked
  <2>3. \A k \in Asked(y) : y.got[k] = row'[k] /\ row'[k] # NoId
    <3>1. Rows(p, y)
      BY <1>2 DEF CallOK
    <3>2. \A k \in y.mine : NewId(p, k) # NoId
      BY <2>2, KeyFacts
    <3>3. QED BY <1>1, <1>2, <2>2, <3>1, <3>2 DEF Rows
  <2>4. /\ opened' \in [Keys -> Nat] /\ answers' \subseteq Keys \X (Ids \cup {NoId})
        /\ AnsweredAlike' /\ call' = [call EXCEPT ![p] = NoCall]
        /\ \A k \in Keys \ call[p].mine : opened'[k] = opened[k]
    <3>1. \A k \in Keys : row[k] # NoId => row'[k] = row[k]
      BY <1>1
    <3>2. QED BY <1>2, <2>1, <2>2, <2>3, <3>1, AnswerIs
  <2>5. TypeOK' /\ TablesOK'
    BY <1>1, <1>3, <1>4, <2>4, IdleOK DEF IInv, TypeOK, TablesOK
  <2>6. NothingUnsaid'
    <3>1. 2 .. Len(call[p].held) = {}
      BY <1>2, <1>6
    <3>2. QED BY <2>4, <3>1, TellUnsaid
  <2>7. /\ \A q \in Procs : CallOK(q, call[q])'
        /\ \A q \in Procs : \A r \in Procs \ {q} : Apart(call[q], call[r])'
    <3>1. NoCall \in Call /\ CallOK(p, NoCall)' /\ NoCall.mine \subseteq call[p].mine /\ NoCall.number = 0
      BY IdleOK, NoCallIs
    <3>2. QED BY <2>4, <3>1, TellOthers
  <2>8. QED BY <2>5, <2>6, <2>7, OfCalls
<1>7. CASE Len(y.held) # 1
  <2>1. PICK t \in Seq(Topics \X Ids) :
          /\ t = Tail(y.held) /\ Len(t) = Len(y.held) - 1 /\ t # <<>>
          /\ \A g \in 1 .. Len(t) : g + 1 \in 2 .. Len(y.held) /\ t[g] = y.held[g + 1]
          /\ \A h \in 2 .. Len(y.held) : h - 1 \in 1 .. Len(t) /\ t[h - 1] = y.held[h]
    <3>1. PICK s \in Seq(Topics \X Ids) : s = y.held
      BY DEF Call
    <3>2. PICK t : t = Tail(s)
      OBVIOUS
    <3>3. /\ t \in Seq(Topics \X Ids) /\ Len(t) = Len(s) - 1 /\ t # <<>>
          /\ \A g \in 1 .. Len(t) : g + 1 \in 2 .. Len(s) /\ t[g] = s[g + 1]
          /\ \A h \in 2 .. Len(s) : h - 1 \in 1 .. Len(t) /\ t[h - 1] = s[h]
      <4>1. Len(s) \in Nat \ {0} /\ Len(s) # 1
        BY <3>1, <1>3, <1>7
      <4>2. QED BY <4>1, <3>2, Tailed
    <3>4. QED BY <3>1, <3>2, <3>3
  <2>2. PICK x : x = [y EXCEPT !.held = t]
    OBVIOUS
  <2>3. call' = [call EXCEPT ![p] = x] /\ Unanswered
    BY <1>2, <1>7, <2>1, <2>2 DEF Tell, Goes
  <2>4. /\ x \in Call /\ x.at = "tell" /\ x.list = y.list /\ x.i = y.i /\ x.got = y.got /\ x.mine = y.mine
        /\ x.new = y.new /\ x.number = 0 /\ x.held = t /\ x.why = y.why
    BY <1>1, <1>2, <1>5, <2>2 DEF Call
  <2>5. TypeOK' /\ TablesOK'
    <3>1. opened' = opened /\ answers' = answers /\ AnsweredAlike'
      BY <1>1, <2>3 DEF Unanswered, IInv, AnsweredAlike
    <3>2. QED BY <1>1, <1>3, <1>4, <2>3, <2>4, <3>1 DEF IInv, TypeOK, TablesOK
  <2>6. NothingUnsaid'
    <3>1. ASSUME NEW h \in 2 .. Len(y.held) PROVE \E g \in 1 .. Len(t) : t[g] = y.held[h]
      <4>1. h - 1 \in 1 .. Len(t) /\ t[h - 1] = y.held[h]
        BY <2>1
      <4>2. QED BY <4>1
    <3>2. QED BY <1>2, <2>3, <2>4, <3>1, TellUnsaid
  <2>7. CallOK(p, x)'
    <3>1. KeyOf(x) = KeyOf(y) /\ KindIs(x) = KindIs(y) /\ Done(x) = Done(y) /\ MadeBy(x) = MadeBy(y)
          /\ (Over(x) <=> Over(y))
      BY <1>1, <1>2, <2>4 DEF KeyOf, KindIs, Done, Over, Asked, MadeBy
    <3>2. Shape(x)'
      <4>1. x # NoCall
        BY <2>4, NoCallIs
      <4>2. Shape(y) /\ y.at # "idle"
        BY <1>1, <1>2 DEF CallOK
      <4>3. QED BY <2>4, <3>1, <4>1, <4>2 DEF Shape
    <3>3. Rows(p, x)' /\ Made(p, x)'
      BY <1>1, <1>2, <2>3, <2>4, <3>1 DEF CallOK, Rows, Made, Unanswered
    <3>4. Holds(x)'
      <4>1. /\ \A h \in 1 .. Len(y.held) : y.held[h] \in Topics \X Ids /\ y.held[h][2] \in y.new /\ told[y.held[h]] = 0
            /\ \A h, g \in 1 .. Len(y.held) : y.held[h] = y.held[g] => h = g
        BY <1>2 DEF CallOK, Holds, Call
      <4>2. ASSUME NEW g \in 1 .. Len(t) PROVE t[g][2] \in y.new /\ told'[t[g]] = 0
        <5>1. PICK h \in 2 .. Len(y.held) : t[g] = y.held[h]
          BY <2>1
        <5>2. h \in 1 .. Len(y.held) /\ h # 1 /\ 1 \in 1 .. Len(y.held)
          BY <1>3
        <5>3. t[g] # e
          BY <1>3, <4>1, <5>1, <5>2
        <5>4. QED BY <1>3, <4>1, <5>1, <5>2, <5>3
      <4>3. ASSUME NEW h \in 1 .. Len(t), NEW g \in 1 .. Len(t), t[h] = t[g] PROVE h = g
        <5>1. PICK a \in 2 .. Len(y.held), b \in 2 .. Len(y.held) :
                a = h + 1 /\ b = g + 1 /\ y.held[a] = y.held[b]
          BY <2>1, <4>3
        <5>2. a = b
          BY <1>3, <4>1, <5>1
        <5>3. Len(t) \in Nat
          BY <2>1
        <5>4. QED BY <5>1, <5>2, <5>3
      <4>4. x.held = t /\ x.new = y.new /\ x.at = "tell" /\ t # <<>>
        BY <2>1, <2>4
      <4>5. QED BY <4>2, <4>3, <4>4 DEF Holds
    <3>5. Counted(x)'
      BY <2>4 DEF Counted
    <3>6. QED BY <3>2, <3>3, <3>4, <3>5 DEF CallOK
  <2>8. /\ \A q \in Procs : CallOK(q, call[q])'
        /\ \A q \in Procs : \A r \in Procs \ {q} : Apart(call[q], call[r])'
    <3>1. x.mine \subseteq call[p].mine /\ \A k \in Keys \ call[p].mine : opened'[k] = opened[k]
      BY <1>2, <2>3, <2>4 DEF Unanswered
    <3>2. QED BY <2>3, <2>4, <2>7, <3>1, TellOthers
  <2>9. QED BY <2>5, <2>6, <2>8, OfCalls
<1>8. QED BY <1>6, <1>7

LEMMA CrashKeeps ==
  ASSUME IInv, Crash PROVE IInv'
<1>1. /\ UNCHANGED <<row, code, counter, tasks, template, told, opened, answers>>
      /\ call' = [p \in Procs |-> NoCall]
      /\ lost' = lost \cup UNION {Unsaid(p) : p \in {q \in Procs : At(q, "tell")}}
  BY DEF Crash, tables
<1>2. \A p \in Procs : \A h \in 1 .. Len(call[p].held) : call[p].held[h][2] \in Ids
  <2> SUFFICES ASSUME NEW p \in Procs, NEW h \in 1 .. Len(call[p].held) PROVE call[p].held[h][2] \in Ids
    OBVIOUS
  <2>1. call[p] \in Call
    BY OfCall
  <2>2. call[p].held \in Seq(Topics \X Ids)
    BY <2>1 DEF Call
  <2>3. call[p].held[h] \in Topics \X Ids
    BY <2>2
  <2>4. QED BY <2>3
<1>3. lost' \subseteq Ids
  BY <1>1, <1>2 DEF Unsaid, IInv, TypeOK
<1>4. TypeOK'
  BY <1>1, <1>3, IdleOK DEF IInv, TypeOK
<1>5. TablesOK'
  BY <1>1 DEF IInv, TablesOK, TaskEventsPublished, RowsOfKeys, TasksHaveKeys, CodesGapless,
              ToldOfCommitted, AnsweredAlike
<1>6. NothingUnsaid'
  <2> SUFFICES ASSUME NEW id \in tasks, NEW j \in 1 .. Len(Events(id))
               PROVE  told[Events(id)[j]] = 1 \/ id \in lost'
    BY <1>1 DEF NothingUnsaid
  <2>1. CASE told[Events(id)[j]] = 1 \/ id \in lost
    BY <2>1, <1>1
  <2>2. CASE ~(told[Events(id)[j]] = 1 \/ id \in lost)
    <3>1. PICK q \in Procs : At(q, "tell") /\ \E h \in 1 .. Len(call[q].held) :
                                                 call[q].held[h] = Events(id)[j]
      BY <2>2 DEF IInv, TaskEventsPublished, NothingUnsaid
    <3>2. PICK h \in 1 .. Len(call[q].held) : call[q].held[h] = Events(id)[j]
      BY <3>1
    <3>3. PICK r \in Procs, k \in Keys : id = NewId(r, k)
      BY DEF IInv, TypeOK, Ids, NewId
    <3>4. Events(id)[j][2] = id
      BY <3>3, EventsFacts
    <3>5. id \in Unsaid(q)
      BY <3>2, <3>4 DEF Unsaid
    <3>6. QED BY <3>1, <3>5, <1>1
  <2>3. QED BY <2>1, <2>2
<1>7. \A p \in Procs : CallOK(p, call[p])'
  <2> SUFFICES ASSUME NEW p \in Procs PROVE CallOK(p, call[p])'
    OBVIOUS
  <2>1. PICK x : x = NoCall /\ x = call'[p]
    BY <1>1
  <2>2. CallOK(p, x)'
    BY <2>1, IdleOK
  <2>3. QED BY <2>1, <2>2
<1>8. \A p \in Procs : \A q \in Procs \ {p} : Apart(call[p], call[q])'
  BY <1>1, IdleOK
<1>9. QED BY <1>4, <1>5, <1>6, <1>7, <1>8, OfCalls
-----------------------------------------------------------------------------
(* The invariant *)

LEMMA InitInvariant == Init => IInv
<1> SUFFICES ASSUME Init PROVE IInv
  OBVIOUS
<1>1. /\ \A k \in Keys : row[k] = NoId /\ opened[k] = 0 /\ code[k] = 0
      /\ \A p \in Procs : call[p] = NoCall
      /\ \A kind \in Numbered : counter[kind] = 0
      /\ tasks = {} /\ answers = {} /\ lost = {}
      /\ told \in [Topics \X Ids -> Nat] /\ \A e \in Topics \X Ids : told[e] = 0
      /\ DOMAIN told = Topics \X Ids
  BY DEF Init, Nothing
<1>2. TypeOK
  BY NothingType, NoCallIs DEF Init, TypeOK
<1>3. \A p \in Procs : CallOK(p, call[p])
  <2> SUFFICES ASSUME NEW p \in Procs PROVE CallOK(p, call[p])
    OBVIOUS
  <2>1. call[p] = NoCall /\ CallOK(p, NoCall)
    BY <1>1, IdleOK
  <2>2. QED BY <2>1
<1>4. ListsOK
  BY <1>3 DEF CallOK, ListsOK, Shape, At, Key, Kind, KeyOf, KindIs
<1>5. OutcomesOK /\ LostRaceFindsRow
  BY <1>3 DEF CallOK, OutcomesOK, LostRaceFindsRow, Rows, At, Key, Kind, KeyOf, KindIs
<1>6. KeysExclusive
  BY <1>1, NoCallIs DEF KeysExclusive
<1>7. TasksOK
  BY <1>3 DEF CallOK, TasksOK, Made, MadeBy, At, Key, KeyOf
<1>8. EventsHeld
  BY <1>3 DEF CallOK, EventsHeld, Holds, At
<1>9. NumbersOK
  BY <1>1, <1>3, NoCallIs DEF CallOK, NumbersOK, Counted, Key, Kind, KeyOf, KindIs
<1>10. RowsOfKeys /\ AnsweredAlike
  BY <1>1 DEF RowsOfKeys, AnsweredAlike
<1>11. TasksHaveKeys
  BY <1>1 DEF TasksHaveKeys
<1>12. TaskEventsPublished
  BY <1>1 DEF TaskEventsPublished, ToldOfCommitted, NothingUnsaid
<1>13. CodesGapless
  <2> SUFFICES ASSUME NEW kind \in Numbered
               PROVE  LET made == {k \in Of(kind) : row[k] # NoId}
                      IN  /\ {code[k] : k \in made} = {n \in 1 .. counter[kind] : n < counter[kind]}
                          /\ \A j, k \in made : code[j] = code[k] => j = k
    BY DEF CodesGapless
  <2>1. {k \in Of(kind) : row[k] # NoId} = {}
    BY <1>1 DEF Of
  <2>2. {n \in 1 .. counter[kind] : n < counter[kind]} = {}
    BY <1>1
  <2>3. QED BY <2>1, <2>2
<1>14. QED BY <1>2, <1>4, <1>5, <1>6, <1>7, <1>8, <1>9, <1>10, <1>11, <1>12, <1>13 DEF IInv

LEMMA NextInvariant == IInv /\ [Next]_vars => IInv'
<1> SUFFICES ASSUME IInv, [Next]_vars PROVE IInv'
  OBVIOUS
<1>1. CASE UNCHANGED vars
  <2>1. TypeOK' /\ ListsOK' /\ OutcomesOK' /\ LostRaceFindsRow'
    BY <1>1 DEF vars, IInv, TypeOK, ListsOK, OutcomesOK, LostRaceFindsRow, At, Key, Kind
  <2>2. KeysExclusive' /\ RowsOfKeys' /\ TasksOK' /\ TasksHaveKeys'
    BY <1>1 DEF vars, IInv, KeysExclusive, RowsOfKeys, TasksOK, TasksHaveKeys, At, Key
  <2>3. EventsHeld' /\ NumbersOK' /\ CodesGapless' /\ AnsweredAlike'
    <3>1. EventsHeld'
      BY <1>1 DEF vars, IInv, EventsHeld, At
    <3>2. NumbersOK'
      BY <1>1 DEF vars, IInv, NumbersOK, Key, Kind
    <3>3. CodesGapless' /\ AnsweredAlike'
      BY <1>1 DEF vars, IInv, CodesGapless, AnsweredAlike
    <3> QED BY <3>1, <3>2, <3>3
  <2>4. TaskEventsPublished'
    <3>1. ToldOfCommitted'
      BY <1>1 DEF vars, IInv, TaskEventsPublished, ToldOfCommitted
    <3>2. NothingUnsaid'
      BY <1>1 DEF vars, IInv, TaskEventsPublished, NothingUnsaid, At
    <3> QED BY <3>1, <3>2 DEF TaskEventsPublished
  <2>5. QED BY <2>1, <2>2, <2>3, <2>4 DEF IInv
<1>2. ASSUME NEW p \in Procs, Starts(p) PROVE IInv'
  BY <1>2, StartsKeep
<1>3. ASSUME NEW p \in Procs, Runs(p) PROVE IInv'
  BY <1>3, FindKeeps, NumberKeeps, CreateKeeps, InsertKeeps, CommitKeeps, TellKeeps, AgainKeeps DEF Runs
<1>4. ASSUME NEW p \in Procs, Victim(p) \/ Faults(p) PROVE IInv'
  BY <1>4, FailKeeps, CommitUnheardKeeps DEF Faults
<1>5. CASE Crash
  BY <1>5, CrashKeeps
<1>6. QED BY <1>1, <1>2, <1>3, <1>4, <1>5 DEF Next

\* The invariant of the calls, the tables and the history holds in every state.
THEOREM Invariant == Spec => []IInv
<1>1. QED BY InitInvariant, NextInvariant, PTL DEF Spec

\* A task is in the table exactly if the row that names it is, however many
\* callers create under the same keys and whatever is undone: no task without a
\* key, and no key without its task (repeating_store.go:222, sourced.go:69).
THEOREM TasksAndKeys == Spec => []TasksHaveKeys
<1>1. IInv => TasksHaveKeys
  BY DEF IInv
<1>2. QED BY <1>1, Invariant, PTL

\* Who loses the insert to another call finds that call's row at the second look
\* (repeating_store.go:248, task_impl_task.go:300).
THEOREM LostRaces == Spec => []LostRaceFindsRow
<1>1. IInv => LostRaceFindsRow
  BY DEF IInv
<1>2. QED BY <1>1, Invariant, PTL

\* The events of what was made are published once each, and of nothing that was
\* undone; an event that is neither published nor held was dropped by a crash or
\* an unheard commit (repeating_store.go:254).
THEOREM EventsPublished == Spec => []TaskEventsPublished
<1>1. IInv => TaskEventsPublished
  BY DEF IInv
<1>2. QED BY <1>1, Invariant, PTL

\* The codes given out have no gap and no duplicate, whoever numbers at once and
\* whatever is undone (codesequence.go:11).
THEOREM Codes == Spec => []CodesGapless
<1>1. IInv => CodesGapless
  BY DEF IInv
<1>2. QED BY <1>1, Invariant, PTL
-----------------------------------------------------------------------------
(* The registry *)

\* A commit that inserted something is one claim of the registry, of all the keys
\* the call was asked for.
LEMMA CommitClaims ==
  ASSUME IInv, NEW p \in Procs, At(p, "commit"), Committed(p)
  PROVE  [Registry!Next]_row
<1>1. call[p].at = "commit" /\ call[p].at # "idle"
  BY DEF At
<1>2. PICK y \in Call : y = call[p] /\ CallOK(p, y) /\ KeyOf(y) = Key(p) /\ KindIs(y) = Kind(p)
  BY <1>1, CallFacts
<1>3. /\ row' \in [Keys -> Ids \cup {NoId}] /\ row \in [Keys -> Ids \cup {NoId}]
      /\ y.mine \subseteq Asked(y) /\ Asked(y) \subseteq Keys
      /\ \A k \in y.mine : row[k] = NoId /\ row'[k] = NewId(p, k) /\ row'[k] # NoId
      /\ \A k \in Keys \ y.mine : row'[k] = row[k]
      /\ \A k \in Asked(y) : row'[k] # NoId
  BY <1>2, CommitRows DEF IInv, TypeOK
<1>4. CASE y.mine = {}
  BY <1>3, <1>4
<1>5. CASE y.mine # {}
  <2>1. PICK R : R = Asked(y)
    OBVIOUS
  <2>2. R \in {{s[i] : i \in 1 .. Len(s)} : s \in Lists} \cup {{k} : k \in {j \in Keys : KindOf[j] \notin Batched}}
    <3>1. CASE Kind(p) \in Batched
      <4>1. y.list \in Lists
        BY <1>1, <1>2, <3>1, ListFacts DEF CallOK
      <4>2. QED BY <4>1, <2>1 DEF Asked
    <3>2. CASE Kind(p) \notin Batched
      <4>1. R = {Key(p)} /\ Key(p) \in Keys
        BY <1>1, <1>2, <2>1, <3>2, ListFacts DEF CallOK
      <4>2. QED BY <4>1, <3>2 DEF Kind
    <3>3. QED BY <3>1, <3>2
  <2>3. R \cap Registry!Free = y.mine
    BY <1>2, <1>3, <2>1 DEF Registry!Free
  <2>4. \A k \in y.mine : row'[k] \in Ids
    BY <1>3, KeyFacts
  <2>5. ASSUME NEW k \in y.mine, NEW j \in Keys, row'[j] = row'[k] PROVE j = k
    <3>1. RowsOfKeys'
      BY CommitTasks
    <3>2. row'[j] \in Procs \X {j} /\ row'[k] \in Procs \X {k}
      BY <2>5, <3>1, <1>3 DEF RowsOfKeys
    <3>3. QED BY <2>5, <3>2
  <2>6. row' = [k \in Keys |-> IF k \in y.mine THEN row'[k] ELSE row[k]]
    BY <1>3
  <2>7. Registry!Claim(R)
    BY <1>5, <2>3, <2>4, <2>5, <2>6 DEF Registry!Claim
  <2>8. QED BY <2>2, <2>7 DEF Registry!Next
<1>6. QED BY <1>4, <1>5

LEMMA OthersClaimNothing ==
  ASSUME IInv, [Next]_vars, row' # row
  PROVE  \E p \in Procs : At(p, "commit") /\ Committed(p)
<1>1. CASE UNCHANGED vars
  BY <1>1 DEF vars
<1>2. ASSUME NEW p \in Procs, Starts(p) PROVE FALSE
  BY <1>2 DEF Starts, StartRepeatingTask, StopRepeatingTask, MakeRepeatingTaskDue, OpenSourcedTasks,
              GenerateTasks, UpsertTag, UpsertAgent, CreateTaskTodo, Begin, tables
<1>3. ASSUME NEW p \in Procs, Runs(p) PROVE Commit(p)
  BY <1>3 DEF Runs, Find, Number, Create, Insert, Tell, Again, tables
<1>4. ASSUME NEW p \in Procs, Victim(p) \/ Faults(p) PROVE CommitUnheard(p)
  BY <1>4 DEF Victim, Faults, Fail, tables
<1>5. CASE Crash
  BY <1>5 DEF Crash, tables
<1>6. QED BY <1>1, <1>2, <1>3, <1>4, <1>5 DEF Next, Commit, CommitUnheard

\* Creation under a key implements the registry: a key gets one thing, for good,
\* and a batch gives all its free keys theirs in one step or none (sourced.go:69,
\* generated.go:71).
THEOREM Registers == Spec => KeepsRegistry
<1>1. Init => Registry!Init
  BY DEF Init, Registry!Init, Nothing
<1>2. IInv /\ [Next]_vars => [Registry!Next]_row
  BY CommitClaims, OthersClaimNothing
<1>3. QED BY <1>1, <1>2, Invariant, PTL DEF Spec, KeepsRegistry, Registry!Spec
=============================================================================
