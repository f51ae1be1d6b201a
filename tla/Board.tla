------------------------------- MODULE Board -------------------------------
(***************************************************************************)
(* The board: its cards, which are tasks with a status and a rank          *)
(* (task_rank.go), the states its owner has given names to (task_state.go, *)
(* models/task_state.go), and the walk that takes a card to a state        *)
(* (task_state_move.go).  A step of a call is a database statement, or the *)
(* commit of a transaction.                                                *)
(***************************************************************************)
EXTENDS Integers, SequencesExt, FiniteSets, Lifecycle, Ordering

CONSTANTS
  Procs,     \* callers
  Cards,     \* the ids of the tasks
  NoCard,
  Gap,       \* rankGap
  Given,     \* the ranks a caller may send in the row of a new card
  Sent,      \* and in the row of an update, besides the one the card has
  Gated,     \* the cards that an unfinished task blocks
  Values,    \* the values a host may try to store
  NoValue    \* a settings layer without a value

ASSUME RanksAreNumbers == Gap \in Nat \ {0} /\ Given \subseteq Int /\ Sent \subseteq Int
ASSUME NoCardIsNone == NoCard \notin Cards
ASSUME ValuesAreLists == \A v \in Values : v \in Seq([name : STRING, statuses : Seq(STRING)])

VARIABLES
  card,        \* the task rows: whether they are there, status, rank
  older,       \* the order of created_at and id
  definition,  \* the template's layer of the setting task_states
  override,    \* the owner's layer
  call         \* per caller: the call under way

setting == <<definition, override>>
vars    == <<card, older, definition, override, call>>
-----------------------------------------------------------------------------
(* Task states *)

\* A status once in a list of states, or in none.
OnceMapped(states) ==
  \A i, j \in 1 .. Len(states) :
    \A k \in 1 .. Len(states[i].statuses), l \in 1 .. Len(states[j].statuses) :
      states[i].statuses[k] = states[j].statuses[l] => i = j /\ k = l

\* ParseTaskStates: whether a value is a list of task states.
Parses_MapsTwice(states) == states # <<>>
Parses(states) ==
  /\ states # <<>>
  /\ \A i, j \in 1 .. Len(states) : states[i].name = states[j].name => i = j
  /\ \A i \in 1 .. Len(states) : ToSet(states[i].statuses) \subseteq TaskStatus
  /\ OnceMapped(states)

DefaultTaskStates ==
  << [name |-> "To do",     statuses |-> <<"pending">>],
     [name |-> "Doing",     statuses |-> <<"in_progress", "split">>],
     [name |-> "Waiting",   statuses |-> <<"blocked", "awaiting-direction", "failed">>],
     [name |-> "Done",      statuses |-> <<"completed">>],
     [name |-> "Cancelled", statuses |-> <<"cancelled">>] >>

\* StoredTaskStates: the owner's value, else the template's, else the blueprint's,
\* which declares the default.
TaskStates ==
  IF override # NoValue THEN override
  ELSE IF definition # NoValue THEN definition ELSE DefaultTaskStates

\* StateNameFor: the first state that maps the status; findTaskState: the state
\* of a name.
Mapping(states, status) == {i \in 1 .. Len(states) : Contains(states[i].statuses, status)}
Named(states, name) == {i \in 1 .. Len(states) : states[i].name = name}
First(S) == CHOOSE i \in S : \A j \in S : i <= j
Position(seq, x) == First({i \in 1 .. Len(seq) : seq[i] = x})

\* A set as a sequence, by keys that are all different.
Sorted(S, key) ==
  [i \in 1 .. Cardinality(S) |-> CHOOSE x \in S : Cardinality({y \in S : key[y] < key[x]}) = i - 1]

\* allTaskStatuses, in the order the search tries them.
AllStatuses == <<"pending", "in_progress", "blocked", "awaiting-direction", "failed",
                 "split", "completed", "cancelled">>

\* What a transition leads to from one of S.
Nexts(S) == UNION {TaskNext[x] : x \in S}

\* One round of the search: from each status of the last one, in order, every
\* status a transition leads to and nothing has led to before.
Round(s) ==
  LET new == Nexts(ToSet(s.last)) \ DOMAIN s.previous
      parent == [x \in new |-> First({i \in 1 .. Len(s.last) : x \in TaskNext[s.last[i]]})]
      when == [x \in new |-> parent[x] * Len(AllStatuses) + Position(AllStatuses, x)]
  IN  [previous |-> [x \in new \cup DOMAIN s.previous |->
                       IF x \in new THEN s.last[parent[x]] ELSE s.previous[x]],
       last |-> Sorted(new, when)]

\* The rounds end when one reaches the state, or finds nothing new: there are no
\* more of them than statuses.
Arrived(s, target) == ToSet(s.last) \cap ToSet(target) # {}
Search(from, target) ==
  LET search[n \in 0 .. Len(AllStatuses)] ==
        IF n = 0 THEN [previous |-> [x \in {from} |-> from], last |-> <<from>>]
        ELSE LET s == search[n - 1]
             IN  IF Arrived(s, target) \/ s.last = <<>> THEN s ELSE Round(s)
  IN  search

\* walkBack: the statuses to set one after the other.
WalkBack(previous, from, to) ==
  LET back[x \in DOMAIN previous] ==
        IF x = from THEN <<>> ELSE Append(back[previous[x]], x)
  IN  back[to]

\* Of the statuses the search has reached, the one the state lists first.
Best_FirstFound(reached, target) ==
  reached[First({i \in 1 .. Len(reached) : Contains(target, reached[i])})]
Best(reached, target) ==
  target[First({i \in 1 .. Len(target) : Contains(reached, target[i])})]

StatusPathToState(from, target) ==
  LET found == Search(from, target)[Len(AllStatuses)]
  IN  IF Arrived(found, target)
      THEN [ok |-> TRUE, path |-> WalkBack(found.previous, from, Best(found.last, target))]
      ELSE [ok |-> FALSE, path |-> <<>>]
-----------------------------------------------------------------------------
(* The order of the cards *)

Live == {c \in Cards : card[c].is = "live"}
Born == {c \in Cards : card[c].is # "none"}

\* taskOrder: by rank, then created_at and id.
Before(c, d) ==
  card[c].rank < card[d].rank \/ (card[c].rank = card[d].rank /\ <<c, d>> \in older)

Order == {e \in Live \X Live : Before(e[1], e[2])}

\* insertionIndex: those of the others that come before a card that goes after one
\* or before another.
Preceding(c, after, before) ==
  {d \in Live \ {c} : IF after # NoCard THEN d = after \/ Before(d, after)
                                        ELSE Before(d, before)}

\* rankAt: a rank for a card between S and T, when there is room.
Top(T)    == CHOOSE d \in T : \A e \in T \ {d} : Before(d, e)
Bottom(S) == CHOOSE d \in S : \A e \in S \ {d} : Before(e, d)

Room(S, T) == S # {} /\ T # {} => card[Top(T)].rank - card[Bottom(S)].rank >= 2
RankAt(S, T) ==
  LET low == card[Bottom(S)].rank  high == card[Top(T)].rank
  IN  IF S = {} /\ T = {} THEN Gap
      ELSE IF S = {} THEN high - Gap
      ELSE IF T = {} THEN low + Gap ELSE low + (high - low) \div 2

\* renumber: the ranks of all, in their new order with c between S and T, that are
\* not right already.
Ahead(X, d) == Cardinality({e \in X : Before(e, d)})
Place(S, T, c, d) ==
  IF d = c THEN Cardinality(S) + 1
  ELSE IF d \in S THEN Ahead(S, d) + 1 ELSE Cardinality(S) + Ahead(T, d) + 2
Renumbered(S, T, c) ==
  LET wrong == {d \in S \cup T : card[d].rank # Place(S, T, c, d) * Gap}
  IN  [d \in wrong \cup {c} |-> Place(S, T, c, d) * Gap]

Ranks_NoRoom(S, T, c) == [d \in {c} |-> RankAt(S, T)]
Ranks(S, T, c) ==
  IF Room(S, T) THEN [d \in {c} |-> RankAt(S, T)] ELSE Renumbered(S, T, c)
-----------------------------------------------------------------------------
(* Calls *)

\* at: the statement about to run. card: the card it is about. row: the row to
\* save. path: the statuses still to set. beside, ranks: the cards named by a
\* placement, and the ranks to write.
NoRow  == [is |-> "none", status |-> "pending", rank |-> 0]
NoCall == [at |-> "idle", card |-> NoCard, row |-> NoRow, path |-> <<>>,
           beside |-> <<NoCard, NoCard>>, ranks |-> <<>>]

At(p, s) == call[p].at = s
Goes(p, x) == call' = [call EXCEPT ![p] = x]
Return(p) == Goes(p, NoCall)

\* DefineTaskStates, OverrideTaskStates and ClearTaskStatesOverride.
DefineTaskStates(p, v) ==
  /\ At(p, "idle") /\ Parses(v)
  /\ definition' = v
  /\ UNCHANGED <<card, older, override, call>>

OverrideTaskStates(p, v) ==
  /\ At(p, "idle") /\ Parses(v)
  /\ override' = v
  /\ UNCHANGED <<card, older, definition, call>>

ClearTaskStatesOverride(p) ==
  /\ At(p, "idle") /\ override # NoValue
  /\ override' = NoValue
  /\ UNCHANGED <<card, older, definition, call>>

\* CreateTask stores the caller's row with the rank in it.  created_at counts
\* seconds, and the ids of one second come in any order.
CreateTask(p, c, rank) ==
  /\ At(p, "idle") /\ card[c].is = "none"
  /\ card' = [card EXCEPT ![c] = [is |-> "live", status |-> "pending", rank |-> rank]]
  /\ \E S \in SUBSET Born : IsCut(older, Born, S) /\ older' = Put(older, Born, c, S)
  /\ UNCHANGED <<setting, call>>

\* Nothing reads the row of a deleted card.
DeleteTask(p, c) ==
  /\ At(p, "idle") /\ c \in Live
  /\ card' = [card EXCEPT ![c] = [NoRow EXCEPT !.is = "deleted"]]
  /\ UNCHANGED <<older, setting, call>>

\* PlaceTask: the cards are read in their order, and the ranks to write computed.
PlaceTask(p, c, after, before) ==
  /\ after # NoCard \/ before # NoCard
  /\ c \in Live \ {after, before}
  /\ {after, before} \subseteq Live \cup {NoCard}
  /\ after # NoCard /\ before # NoCard => Before(after, before)
  /\ At(p, "idle")
  /\ LET S == Preceding(c, after, before)
     IN  Goes(p, [NoCall EXCEPT !.at = "place", !.card = c, !.beside = <<after, before>>,
                                !.ranks = Ranks(S, (Live \ {c}) \ S, c)])
  /\ UNCHANGED <<card, older, setting>>

\* The transaction's writes, WHERE id = ? alone, are seen together.
WriteRanks(p) ==
  /\ At(p, "place")
  /\ card' = [c \in Cards |-> IF c \in DOMAIN call[p].ranks
                                THEN [card[c] EXCEPT !.rank = call[p].ranks[c]] ELSE card[c]]
  /\ Return(p)
  /\ UNCHANGED <<older, setting>>

\* UpdateTask's read and checks.
Allowed(c, status) ==
  /\ c \in Live
  /\ status # card[c].status => status \in TaskNext[card[c].status]
  /\ card[c].status = "pending" /\ status = "in_progress" => c \notin Gated

UpdateTask(p, c, status, rank) ==
  /\ At(p, "idle") /\ Allowed(c, status)
  /\ Goes(p, [NoCall EXCEPT !.at = "save", !.card = c,
                !.row = [is |-> "live", status |-> status, rank |-> rank]])
  /\ UNCHANGED <<card, older, setting>>

\* MoveTaskToState: the states, the card and the walk.
MoveTaskToState(p, c, name) ==
  /\ At(p, "idle") /\ c \in Live
  /\ Named(TaskStates, name) # {}
  /\ LET target == TaskStates[First(Named(TaskStates, name))].statuses
         walk == StatusPathToState(card[c].status, target)
     IN  /\ walk.ok /\ walk.path # <<>>
         /\ Goes(p, [NoCall EXCEPT !.at = "step", !.card = c, !.row = card[c],
                                   !.path = walk.path])
  /\ UNCHANGED <<card, older, setting>>

\* A step of the walk is an UpdateTask of the row the last one returned.
Step(p) ==
  /\ At(p, "step")
  /\ Goes(p, IF Allowed(call[p].card, Head(call[p].path))
               THEN [call[p] EXCEPT !.at = "save", !.row.status = Head(call[p].path),
                                    !.path = Tail(@)]
               ELSE NoCall)
  /\ UNCHANGED <<card, older, setting>>

\* UpdateTask's write, WHERE it is not deleted: the whole row, its rank with it.
Save(p) ==
  /\ At(p, "save")
  /\ LET c == call[p].card
     IN  /\ card' = IF c \in Live THEN [card EXCEPT ![c] = call[p].row] ELSE card
         /\ Goes(p, IF c \in Live /\ call[p].path # <<>>
                      THEN [call[p] EXCEPT !.at = "step"] ELSE NoCall)
  /\ UNCHANGED <<older, setting>>
-----------------------------------------------------------------------------
Init ==
  /\ card = [c \in Cards |-> NoRow] /\ older = {}
  /\ definition = NoValue /\ override = NoValue
  /\ call = [p \in Procs |-> NoCall]

Names == UNION {{v[i].name : i \in 1 .. Len(v)} : v \in Values \cup {DefaultTaskStates}}

Begin(p) ==
  \/ \E v \in Values : DefineTaskStates(p, v) \/ OverrideTaskStates(p, v)
  \/ ClearTaskStatesOverride(p)
  \/ \E c \in Cards :
       \/ \E r \in Given : CreateTask(p, c, r)
       \/ DeleteTask(p, c)
       \/ \E a, b \in Cards \cup {NoCard} : PlaceTask(p, c, a, b)
       \/ \E s \in TaskStatus, r \in Sent \cup {card[c].rank} : UpdateTask(p, c, s, r)
       \/ \E name \in Names : MoveTaskToState(p, c, name)

Run(p) == WriteRanks(p) \/ Step(p) \/ Save(p)

Next == \E p \in Procs : Begin(p) \/ Run(p)

Spec == Init /\ [][Next]_vars
-----------------------------------------------------------------------------
(* The tables and the calls *)

CardRow == [is : {"none", "live", "deleted"}, status : TaskStatus, rank : Int]

CallOK(x) ==
  /\ x = [at |-> x.at, card |-> x.card, row |-> x.row, path |-> x.path,
          beside |-> x.beside, ranks |-> x.ranks]
  /\ x.at \in {"idle", "place", "step", "save"}
  /\ x.at = "idle" => x = NoCall
  /\ x.at \in {"step", "save"} => x.card \in Cards /\ x.row \in CardRow /\ x.row.is = "live"
  /\ x.at = "place" => /\ x.ranks \in [DOMAIN x.ranks -> Int]
                       /\ DOMAIN x.ranks \subseteq Cards

SettingsParse == \A v \in {definition, override} : v = NoValue \/ (v \in Values /\ Parses(v))

\* The tables hold what their types say, created_at and id order the cards that were
\* ever there, each call holds what its next statement needs, and a stored setting is
\* a list of task states (task_state.go:37, task_rank.go:14).
IInv ==
  /\ card \in [Cards -> CardRow]
  /\ IsFiniteSet(Born) /\ IsLinear(older, Born)
  /\ call = [p \in Procs |-> call[p]] /\ \A p \in Procs : CallOK(call[p])
  /\ SettingsParse

\* What a call has read still holds when no other runs beside it: the ranks to write
\* are those of the cards as they lie, and a row to save has the rank of its card.
Current(p) ==
  LET x == call[p]  c == x.card  S == Preceding(c, x.beside[1], x.beside[2])
  IN  /\ x.at = "place" =>
           /\ c \in Live /\ {x.beside[1], x.beside[2]} \subseteq (Live \cup {NoCard}) \ {c}
           /\ x.beside[1] # NoCard \/ x.beside[2] # NoCard
           /\ x.beside[1] # NoCard /\ x.beside[2] # NoCard => Before(x.beside[1], x.beside[2])
           /\ x.ranks = Ranks(S, (Live \ {c}) \ S, c)
      /\ x.at \in {"step", "save"} => c \in Live /\ x.row.rank = card[c].rank
-----------------------------------------------------------------------------
(* Properties *)

\* The statuses within n transitions of those in S.
Within(S) ==
  LET within[n \in 0 .. Len(AllStatuses)] ==
        IF n = 0 THEN S
        ELSE within[n - 1] \cup Nexts(within[n - 1])
  IN  within

IsWalk(from, path) ==
  \A i \in 1 .. Len(path) :
    path[i] \in TaskNext[IF i = 1 THEN from ELSE path[i - 1]]

\* The walk is there exactly if the transitions lead to one of the statuses, follows
\* them, is as short as any, and ends in the first of the nearest.
ShortestWalk(from, target) ==
  LET walk == StatusPathToState(from, target)
      within == Within({from})
      near == {n \in 0 .. Len(AllStatuses) : within[n] \cap ToSet(target) # {}}
      d == First(near)
  IN  /\ walk.ok <=> near # {}
      /\ walk.ok => /\ Len(walk.path) = d /\ IsWalk(from, walk.path)
                    /\ d > 0 => walk.path[d] =
                         target[First({k \in 1 .. Len(target) : target[k] \in within[d]})]

\* From wherever a card is, to any of the states in force, a card goes by a shortest
\* walk of legal steps, or is refused because there is none (task_state_move.go:68).
WalksAreShortest ==
  \A c \in Live, i \in 1 .. Len(TaskStates) :
    ShortestWalk(card[c].status, TaskStates[i].statuses)

\* The states in force name the state of a status once: to move a card to the
\* state it reads as moves it nowhere (models/task_state.go:25, task_state_move.go:73).
OwnStateIsHere ==
  \A c \in Live :
    LET mapping == Mapping(TaskStates, card[c].status)
        name == TaskStates[First(mapping)].name
    IN  mapping # {} => /\ Named(TaskStates, name) = mapping
                        /\ Contains(TaskStates[First(Named(TaskStates, name))].statuses,
                                    card[c].status)

\* One caller's placements put a card directly beside the one it named and leave
\* the others in their order, whatever ranks there were, ties and no room between
\* two cards included (task_rank.go:62).
Asked ==
  LET placing == {p \in Procs : At(p, "place")}
      x == call[CHOOSE p \in placing : TRUE]
  IN  IF placing = {} THEN <<NoCard, NoCard, NoCard>> ELSE <<x.card, x.beside[1], x.beside[2]>>

List == INSTANCE CardList WITH cards <- Live, order <- Order, asked <- Asked
KeepsCardList == List!Spec

\* What the blueprint says of the column rank: "changed only by placing the card;
\* an update never touches it".
OnlyPlacingMoves ==
  [][\A c \in Live : card'[c].is = "live" /\ card'[c].rank # card[c].rank
       => \E p \in Procs : At(p, "place") /\ c \in DOMAIN call[p].ranks]_vars
=============================================================================
