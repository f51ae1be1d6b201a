-------------------------------- MODULE Cases --------------------------------
(***************************************************************************)
(* Cases (case.go) and the votes on them (case_vote.go): a case is open    *)
(* until somebody ends it or until the last of its tasks settles, which    *)
(* every call that writes a task finds out for itself.                     *)
(*                                                                         *)
(* Each call is its statements; between two of them any other caller may   *)
(* run.  The tasks are those of WorkflowRuns, cut down to what a case can  *)
(* tell apart.                                                             *)
(***************************************************************************)
EXTENDS FiniteSets, Naturals, Lifecycle

CONSTANTS
  Procs,    \* concurrent callers
  Cases,    \* case ids
  Tasks,    \* task ids
  Members,  \* members who bring cases and vote on them
  Nobody,   \* no member
  NoCase,   \* no case
  NoTask,   \* no task
  Moves,    \* the statuses callers move tasks to (a bound)
  Ops       \* the operations callers issue (a bound)

ASSUME NotIds == NoCase \notin Cases /\ NoTask \notin Tasks /\ Nobody \notin Members
ASSUME Bounds ==
  /\ Moves \subseteq TaskStatus
  /\ Ops \subseteq {"update", "edit", "delete", "cascade", "reset", "link",
                    "end", "vote", "takeBack", "crash"}

VARIABLES
  cases,     \* the case table
  tasks,     \* the task table
  link,      \* the case_task table: the case each task serves
  unasked,   \* history: the tasks that settled and no call asks for their case
  votes,     \* the case_vote table: who cast the vote of each member
  announced, \* case.closed events published, per case and status
  untold,    \* history: the ended cases whose announcement a crash dropped
  call       \* per caller: the call under way

tables  == <<cases, tasks, link, votes, announced>>
history == <<unasked, untold>>
vars    == <<cases, tasks, link, unasked, votes, announced, untold, call>>
-----------------------------------------------------------------------------
(* Rows and calls *)

CaseStatus == {"absent", "open", "done", "cancelled"}
Ended      == {"done", "cancelled"}

CaseRow == [status: CaseStatus, requester: Members \cup {Nobody}]

TaskRow == [status: TaskStatus, deleted: BOOLEAN]

\* settlesCase: a failed task does not.
Settled == {"completed", "cancelled"}

Live(t)       == ~tasks[t].deleted
LiveTasks(c)  == {t \in Tasks : link[t] = c /\ Live(t)}
AllSettled(c) == \A t \in LiveTasks(c) : tasks[t].status \in Settled

\* at: the statement about to run. task, was, to: the task written and the
\* status it leaves and takes. left: the linked tasks still to be read; live
\* and open: whether one of those read was live, or not settled. todo: the
\* tasks a cascade has left to cancel. ends: the status EndCase was asked for.
Call == [at: {"idle", "write", "drop", "ofTask", "links", "read", "cancel",
              "check", "insert", "look", "vote", "takeBack"},
         case: Cases \cup {NoCase}, task: Tasks \cup {NoTask},
         was: TaskStatus, to: TaskStatus,
         left: SUBSET Tasks, live: BOOLEAN, open: BOOLEAN, todo: SUBSET Tasks,
         cascades: BOOLEAN, ends: {"open", "done", "cancelled"},
         member: Members \cup {Nobody}, by: Members \cup {Nobody}]

NoCall == [at |-> "idle", case |-> NoCase, task |-> NoTask,
           was |-> "pending", to |-> "pending",
           left |-> {}, live |-> FALSE, open |-> FALSE, todo |-> {},
           cascades |-> FALSE, ends |-> "open", member |-> Nobody, by |-> Nobody]

At(p, s) == call[p].at = s
Idle(p)  == At(p, "idle")

Goes(p, x) == call' = [call EXCEPT ![p] = x]
Return(p)  == Goes(p, NoCall)

\* A call of p that found nothing to refuse goes on from its first read.
Start(p, x) == Idle(p) /\ Goes(p, x) /\ UNCHANGED <<tables, history>>

Announce(c, s) == announced' = [announced EXCEPT ![c][s] = @ + 1]

Init ==
  /\ cases     = [c \in Cases |-> [status |-> "absent", requester |-> Nobody]]
  /\ tasks     = [t \in Tasks |-> [status |-> "pending", deleted |-> FALSE]]
  /\ link      = [t \in Tasks |-> NoCase]
  /\ unasked   = {}
  /\ untold    = {}
  /\ votes     = [c \in Cases |-> [m \in Members |-> Nobody]]
  /\ announced = [c \in Cases |-> [s \in Ended |-> 0]]
  /\ call      = [p \in Procs |-> NoCall]
-----------------------------------------------------------------------------
(* Opening a case and linking tasks to it *)

\* OpenCase: one insert, under an id nobody has yet.
OpenCase(p, c, m) ==
  /\ Idle(p) /\ cases[c].status = "absent"
  /\ cases' = [cases EXCEPT ![c] = [status |-> "open", requester |-> m]]
  /\ UNCHANGED <<tasks, link, votes, announced, history, call>>

\* LinkCaseTask: the case is read and must be open,
LinkCaseTask(p, c, t) ==
  /\ "link" \in Ops
  /\ cases[c].status = "open"
  /\ Start(p, [NoCall EXCEPT !.at = "check", !.case = c, !.task = t])

\* then the task must be live and serve no case,
CheckTask(p) ==
  /\ At(p, "check")
  /\ IF Live(call[p].task) /\ link[call[p].task] = NoCase
       THEN Goes(p, [call[p] EXCEPT !.at = "insert"])
       ELSE Return(p)
  /\ UNCHANGED <<tables, history>>

\* then the link is inserted: the task is its primary key, and a second
\* insert is refused.
InsertLink(p) ==
  /\ At(p, "insert")
  /\ LET t == call[p].task IN
       IF link[t] = NoCase
         THEN /\ link' = [link EXCEPT ![t] = call[p].case]
              /\ unasked' = IF tasks[t].status \in Settled THEN unasked \cup {t} ELSE unasked
         ELSE UNCHANGED <<link, unasked>>
  /\ Return(p)
  /\ UNCHANGED <<cases, tasks, votes, announced, untold>>
-----------------------------------------------------------------------------
(* Writing a task *)

\* UpdateTask up to its write, with the same status ("edit") or another.
UpdateTask(p, t, s) ==
  /\ Live(t)
  /\ \/ "update" \in Ops /\ s \in TaskNext[tasks[t].status]
     \/ "edit" \in Ops /\ s = tasks[t].status
  /\ Start(p, [NoCall EXCEPT !.at = "write", !.task = t, !.was = tasks[t].status, !.to = s])

\* Its write, WHERE deleted = false. A status that changed, as far as the call
\* read it, to a settling one asks whether the case is settled.
WriteTask_NoCheck(p) ==
  /\ At(p, "write")
  /\ tasks' = [tasks EXCEPT ![call[p].task].status = call[p].to]
  /\ Return(p)
  /\ UNCHANGED <<cases, link, votes, announced, history>>
WriteTask(p) ==
  /\ At(p, "write")
  /\ LET t == call[p].task  s == call[p].to IN
       CASE ~Live(t) -> Return(p) /\ UNCHANGED <<tasks, unasked>>
         [] Live(t) /\ call[p].was # s /\ s \in Settled ->
              /\ tasks' = [tasks EXCEPT ![t].status = s]
              /\ unasked' = unasked \ {t}
              /\ Goes(p, [NoCall EXCEPT !.at = "ofTask", !.task = t])
         [] OTHER ->
              /\ tasks' = [tasks EXCEPT ![t].status = s]
              /\ unasked' = IF s \in Settled /\ tasks[t].status \notin Settled
                              THEN unasked \cup {t} ELSE unasked
              /\ Return(p)
  /\ UNCHANGED <<cases, link, votes, announced, untold>>

\* DeleteTask.
DeleteTask(p, t) ==
  /\ "delete" \in Ops
  /\ Live(t)
  /\ Start(p, [NoCall EXCEPT !.at = "drop", !.task = t])

DropTask(p) ==
  /\ At(p, "drop")
  /\ tasks' = [tasks EXCEPT ![call[p].task].deleted = TRUE]
  /\ unasked' = unasked \ {call[p].task}
  /\ Goes(p, [call[p] EXCEPT !.at = "ofTask"])
  /\ UNCHANGED <<cases, link, votes, announced, untold>>

\* The cascade of a cancelled or stopped run, over the tasks its run holds.
Cascade(p, S) ==
  /\ "cascade" \in Ops
  /\ S # {}
  /\ \A t \in S : Live(t) /\ tasks[t].status \notin TaskEnd
  /\ Start(p, [NoCall EXCEPT !.at = "cancel", !.todo = S, !.cascades = TRUE])

\* cancelTask writes the whole row it was given, which was not deleted, and
\* then asks whether the case is settled. What has no way to cancelled is left.
CancelTask(p, t) ==
  /\ At(p, "cancel") /\ t \in call[p].todo
  /\ tasks' = [tasks EXCEPT ![t] = [status |-> "cancelled", deleted |-> FALSE]]
  /\ unasked' = unasked \ {t}
  /\ Goes(p, [call[p] EXCEPT !.at = "ofTask", !.task = t, !.todo = @ \ {t}])
  /\ UNCHANGED <<cases, link, votes, announced, untold>>

\* DeleteWorkflowRunArtifacts resets the tasks of a rolled back run.
ResetTask(p, t) ==
  /\ "reset" \in Ops
  /\ Idle(p) /\ Live(t)
  /\ tasks' = [tasks EXCEPT ![t].status = "pending"]
  /\ UNCHANGED <<cases, link, votes, announced, history, call>>
-----------------------------------------------------------------------------
(* closeCaseIfSettled, where a call that wrote a task ends *)

\* What follows it: the next task of a cascade, or nothing.
AfterSettle(p) ==
  IF call[p].cascades
    THEN Goes(p, [call[p] EXCEPT !.at = "cancel"])
    ELSE Return(p)

CaseOfTask(p) ==
  /\ At(p, "ofTask")
  /\ LET c == link[call[p].task] IN
       IF c = NoCase
         THEN AfterSettle(p)
         ELSE Goes(p, [call[p] EXCEPT !.at = "links", !.case = c])
  /\ UNCHANGED <<tables, history>>

CaseLinks(p) ==
  /\ At(p, "links")
  /\ Goes(p, [call[p] EXCEPT !.at = "read", !.left = {t \in Tasks : link[t] = call[p].case},
                             !.live = FALSE, !.open = FALSE])
  /\ UNCHANGED <<tables, history>>

\* GetTask of one linked task after the other; a deleted one is passed over.
\* EndCase keeps what it reads: those are the tasks it cancels.
ReadTask(p, t) ==
  /\ At(p, "read") /\ t \in call[p].left
  /\ LET x == [call[p] EXCEPT !.left = @ \ {t}]
         cancels == call[p].ends = "cancelled" /\ ~call[p].cascades IN
       IF ~Live(t) THEN Goes(p, x)
       ELSE Goes(p, [x EXCEPT
              !.live = TRUE,
              !.open = @ \/ tasks[t].status \notin Settled,
              !.todo = IF cancels /\ "cancelled" \in TaskNext[tasks[t].status]
                         THEN @ \cup {t} ELSE @])
  /\ UNCHANGED <<tables, history>>

HasRead(p)   == At(p, "read") /\ call[p].left = {}
Asked(p)     == call[p].ends # "open" /\ ~call[p].cascades

\* UPDATE ... WHERE status = 'open', and case.closed if a row was changed. A
\* case without a live task is not closed.
CloseCase_Unguarded(p) ==
  /\ HasRead(p) /\ ~Asked(p)
  /\ IF call[p].live /\ ~call[p].open
       THEN /\ cases' = [cases EXCEPT ![call[p].case].status = "done"]
            /\ Announce(call[p].case, "done")
       ELSE UNCHANGED <<cases, announced>>
  /\ AfterSettle(p)
  /\ UNCHANGED <<tasks, link, votes, history>>
CloseCase_AlwaysTells(p) ==
  /\ HasRead(p) /\ ~Asked(p)
  /\ LET c == call[p].case IN
       IF call[p].live /\ ~call[p].open
         THEN /\ cases' = IF cases[c].status = "open"
                            THEN [cases EXCEPT ![c].status = "done"] ELSE cases
              /\ Announce(c, "done")
         ELSE UNCHANGED <<cases, announced>>
  /\ AfterSettle(p)
  /\ UNCHANGED <<tasks, link, votes, history>>
CloseCase(p) ==
  /\ HasRead(p) /\ ~Asked(p)
  /\ LET c == call[p].case IN
       IF call[p].live /\ ~call[p].open /\ cases[c].status = "open"
         THEN /\ cases' = [cases EXCEPT ![c].status = "done"]
              /\ Announce(c, "done")
         ELSE UNCHANGED <<cases, announced>>
  /\ AfterSettle(p)
  /\ UNCHANGED <<tasks, link, votes, history>>
-----------------------------------------------------------------------------
(* EndCase *)

EndCase(p, c, s) ==
  /\ "end" \in Ops
  /\ cases[c].status = "open"
  /\ Start(p, [NoCall EXCEPT !.at = "links", !.case = c, !.ends = s])

\* Done is refused while a task it read is open; the write is refused when the
\* case was ended since. A case that is cancelled still has its tasks to cancel.
MoveCase_NoCheck(p) ==
  /\ HasRead(p) /\ Asked(p)
  /\ LET c == call[p].case  s == call[p].ends IN
       IF cases[c].status # "open"
         THEN Return(p) /\ UNCHANGED <<cases, announced>>
         ELSE /\ cases' = [cases EXCEPT ![c].status = s]
              /\ Goes(p, [call[p] EXCEPT !.at = "cancel", !.cascades = TRUE])
              /\ UNCHANGED announced
  /\ UNCHANGED <<tasks, link, votes, history>>
MoveCase(p) ==
  /\ HasRead(p) /\ Asked(p)
  /\ LET c == call[p].case  s == call[p].ends IN
       IF cases[c].status # "open" \/ (s = "done" /\ call[p].open)
         THEN Return(p) /\ UNCHANGED cases
         ELSE /\ cases' = [cases EXCEPT ![c].status = s]
              /\ Goes(p, [call[p] EXCEPT !.at = "cancel", !.cascades = TRUE])
  /\ UNCHANGED <<tasks, link, votes, announced, history>>

\* A cascade is over; EndCase's ends with case.closed.
CascadeDone(p) ==
  /\ At(p, "cancel") /\ call[p].todo = {}
  /\ IF call[p].ends # "open"
       THEN Announce(call[p].case, call[p].ends)
       ELSE UNCHANGED announced
  /\ Return(p)
  /\ UNCHANGED <<cases, tasks, link, votes, history>>
-----------------------------------------------------------------------------
(* Votes *)

\* VoteCase: the case must be open. The requester's vote is never stored.
VoteCase(p, c, m, by) ==
  /\ "vote" \in Ops
  /\ cases[c].status = "open"
  /\ m # cases[c].requester
  /\ Start(p, [NoCall EXCEPT !.at = "look", !.case = c, !.member = m, !.by = by])

\* recordVote: a vote that is found stands,
LookForVote(p) ==
  /\ At(p, "look")
  /\ IF votes[call[p].case][call[p].member] = Nobody
       THEN Goes(p, [call[p] EXCEPT !.at = "vote"])
       ELSE Return(p)
  /\ UNCHANGED <<tables, history>>

\* and so does one that another caller inserted since: its key is taken.
InsertVote_Upsert(p) ==
  /\ At(p, "vote")
  /\ votes' = [votes EXCEPT ![call[p].case][call[p].member] = call[p].by]
  /\ Return(p)
  /\ UNCHANGED <<cases, tasks, link, announced, history>>
InsertVote(p) ==
  /\ At(p, "vote")
  /\ votes' = [votes EXCEPT ![call[p].case][call[p].member] =
                 IF @ = Nobody THEN call[p].by ELSE @]
  /\ Return(p)
  /\ UNCHANGED <<cases, tasks, link, announced, history>>

\* TakeBackVote: the same checks, then a delete.
TakeBackVote(p, c, m) ==
  /\ "takeBack" \in Ops
  /\ cases[c].status = "open"
  /\ m # cases[c].requester
  /\ Start(p, [NoCall EXCEPT !.at = "takeBack", !.case = c, !.member = m])

DeleteVote(p) ==
  /\ At(p, "takeBack")
  /\ votes' = [votes EXCEPT ![call[p].case][call[p].member] = Nobody]
  /\ Return(p)
  /\ UNCHANGED <<cases, tasks, link, announced, history>>
-----------------------------------------------------------------------------
\* An EndCase that has ended c and not told it yet.
Owes(p, c) == /\ call[p].ends # "open" /\ call[p].cascades /\ call[p].case = c

\* A call that wrote a task and has not found out whether its case is settled.
Asks(p) == call[p].at \in {"ofTask", "links", "read"} /\ ~Asked(p)

\* The server stops: every call under way is lost, the tables stay.
Crash ==
  /\ "crash" \in Ops
  /\ call' = [p \in Procs |-> NoCall]
  /\ unasked' = unasked \cup {call[p].task : p \in {q \in Procs : Asks(q)}}
  /\ untold' = untold \cup {c \in Cases : \E p \in Procs : Owes(p, c)}
  /\ UNCHANGED tables

Begin(p) ==
  \/ \E c \in Cases, m \in Members : OpenCase(p, c, m)
  \/ \E c \in Cases, t \in Tasks : LinkCaseTask(p, c, t)
  \/ \E t \in Tasks, s \in Moves : UpdateTask(p, t, s)
  \/ \E t \in Tasks : DeleteTask(p, t)
  \/ \E S \in SUBSET Tasks : Cascade(p, S)
  \/ \E t \in Tasks : ResetTask(p, t)
  \/ \E c \in Cases, s \in Ended : EndCase(p, c, s)
  \/ \E c \in Cases, m, by \in Members : VoteCase(p, c, m, by)
  \/ \E c \in Cases, m \in Members : TakeBackVote(p, c, m)

Step(p) ==
  \/ CheckTask(p)
  \/ InsertLink(p)
  \/ WriteTask(p)
  \/ DropTask(p)
  \/ \E t \in Tasks : CancelTask(p, t)
  \/ CaseOfTask(p)
  \/ CaseLinks(p)
  \/ \E t \in Tasks : ReadTask(p, t)
  \/ CloseCase(p)
  \/ MoveCase(p)
  \/ CascadeDone(p)
  \/ LookForVote(p)
  \/ InsertVote(p)
  \/ DeleteVote(p)

Next == (\E p \in Procs : Begin(p) \/ Step(p)) \/ Crash

Spec == Init /\ [][Next]_vars
-----------------------------------------------------------------------------
(* Properties *)

\* The tables and every call under way hold values of their type.
TypeOK ==
  /\ cases     \in [Cases -> CaseRow]
  /\ tasks     \in [Tasks -> TaskRow]
  /\ link      \in [Tasks -> Cases \cup {NoCase}]
  /\ unasked   \in SUBSET Tasks
  /\ votes     \in [Cases -> [Members -> Members \cup {Nobody}]]
  /\ announced \in [Cases -> [Ended -> Nat]]
  /\ untold    \in SUBSET Cases
  /\ call      \in [Procs -> Call]

\* A case that has ended stays as it ended, whichever calls race to end it:
\* both writes carry the condition that it is open (case.go:197, 259).
EndedStaysEnded ==
  [][\A c \in Cases : cases[c].status \in Ended => cases'[c] = cases[c]]_cases

\* "Two tasks settling together publish once": case.closed is published at most
\* once for a case, after it ended and with the status it ended in, and only one
\* call at a time owes it; crashes included.
AnnouncedOnce ==
  \A c \in Cases :
    /\ \A p \in Procs : Owes(p, c) =>
         /\ call[p].ends = cases[c].status
         /\ \A s \in Ended : announced[c][s] = 0
         /\ \A q \in Procs : Owes(q, c) => q = p
    /\ \A s \in Ended :
         announced[c][s] \in {0, 1} /\ (announced[c][s] = 1 => cases[c].status = s)

\* Every case that ended is announced or still owed, or a crash came between.
EndIsTold ==
  \A c \in Cases : cases[c].status \in Ended =>
    \/ announced[c][cases[c].status] = 1
    \/ c \in untold
    \/ \E p \in Procs : Owes(p, c)

\* "When every task linked to that task's case is completed or cancelled, the
\* case moves to done": once no call is under way, an open case with live tasks
\* has one that is not settled, or the settling of one of its tasks was never
\* followed by a check. However the writes and the checks of concurrent calls
\* fall, the last task to settle finds the others settled.
SettledCaseIsClosed ==
  (\A p \in Procs : Idle(p)) =>
    \A c \in Cases :
      cases[c].status = "open" /\ LiveTasks(c) # {} /\ AllSettled(c) =>
        \E t \in unasked : link[t] = c

\* A case whose last task settled is closed, and a case that ended is told. What
\* is excepted: a task that was settled when it was linked, or was settled by an
\* edit over a status it had not read, or whose check a crash cut off; and an
\* end that a crash cut off before it was told.
NothingLeftOpen == SettledCaseIsClosed /\ EndIsTold

\* "`done` is refused while any live linked task is open" and `cancelled` cancels
\* every open linked task: with one caller, a case that has ended, and whose end
\* was told, has no live task that is not settled (EndCase, closeCaseIfSettled).
\* An end that a crash cut off is the exception.
EndedHasNoOpenTask ==
  \A c \in Cases :
    cases[c].status \in Ended /\ c \notin untold /\ ~(\E p \in Procs : Owes(p, c)) => AllSettled(c)

\* "Voting again changes nothing and the first cast_by stands": a stored vote is
\* taken back or stays as it was cast, also when two callers cast it at once.
FirstVoteStands ==
  [][\A c \in Cases, m \in Members :
       votes[c][m] # Nobody => votes'[c][m] \in {votes[c][m], Nobody}]_votes

-----------------------------------------------------------------------------
(* Why a case is announced once *)

\* What a call holds: the tasks it reads serve its case, and so do those that
\* an EndCase cancels.
Fits(x) ==
  /\ x.at = "idle" => x = NoCall
  /\ x.at \in {"check", "insert", "write", "drop", "look", "vote", "takeBack"} =>
       x.ends = "open"
  /\ x.at \in {"check", "insert", "write", "drop", "ofTask"} => x.task \in Tasks
  /\ x.at \in {"check", "insert", "links", "read", "look", "vote", "takeBack"} =>
       x.case \in Cases
  /\ x.at \in {"look", "vote", "takeBack"} => x.member \in Members
  /\ x.at \in {"links", "read"} /\ (x.ends = "open" \/ x.cascades) =>
       x.task \in Tasks /\ link[x.task] = x.case
  /\ x.at = "read" => \A t \in x.left : link[t] = x.case
  /\ x.ends # "open" =>
       /\ x.case \in Cases
       /\ x.at \in {"links", "read", "cancel", "ofTask"}
       /\ x.at \in {"cancel", "ofTask"} => x.cascades
       /\ \A t \in x.todo : link[t] = x.case
       /\ x.at = "ofTask" => link[x.task] = x.case

\* The inductive invariant.
IInv == TypeOK /\ AnnouncedOnce /\ \A p \in Procs : Fits(call[p])

(* Why the last task to settle closes its case *)

\* Tasks serve cases that were opened.
LinksOfCases ==
  /\ \A t \in Tasks : link[t] # NoCase => cases[link[t]].status # "absent"
  /\ \A p \in Procs : call[p].at \in {"check", "insert"} => cases[call[p].case].status # "absent"

\* The check of p reaches c, and so far has found a settled case.
Checks(p, c) ==
  /\ Asks(p)
  /\ \/ At(p, "ofTask") /\ link[call[p].task] = c
     \/ At(p, "links") /\ call[p].case = c
     \/ /\ At(p, "read") /\ call[p].case = c /\ ~call[p].open
        /\ call[p].live \/ call[p].left \cap LiveTasks(c) # {}

\* A case that is ready to close has a check on the way that will close it.
Settling ==
  \A c \in Cases :
    cases[c].status = "open" /\ LiveTasks(c) # {} /\ AllSettled(c) =>
      (\E t \in unasked : link[t] = c) \/ \E p \in Procs : Checks(p, c)

(* Why one caller leaves no task of an ended case open *)

Unsettled(c) == {t \in LiveTasks(c) : tasks[t].status \notin Settled}

\* What a call has read of the tables still holds: the case it links to is open,
\* the status it moves a task from is the task's, the open tasks among those it
\* has read made it note one, and those an EndCase read as open are to be
\* cancelled until they are.
Steady(p) ==
  /\ call[p].at \in {"check", "insert"} => cases[call[p].case].status = "open"
  /\ At(p, "write") =>
       /\ call[p].was = tasks[call[p].task].status
       /\ call[p].to \in TaskNext[call[p].was] \cup {call[p].was}
  /\ At(p, "read") => \A t \in Unsettled(call[p].case) \ call[p].left :
       call[p].open /\ (call[p].ends = "cancelled" /\ ~call[p].cascades => t \in call[p].todo)
  /\ \A c \in Cases : Owes(p, c) => Unsettled(c) \subseteq call[p].todo

Undisturbed == EndedHasNoOpenTask /\ \A p \in Procs : Steady(p)
=============================================================================
