----------------------------- MODULE CasesProofs -----------------------------
(***************************************************************************)
(* Proofs about Cases, for any number of callers, cases, tasks and         *)
(* members, with crashes: a case ends once and is announced once, a first  *)
(* vote stands, and a case whose tasks have all settled is closed, or one  *)
(* of the few that may close it did not ask; and, for calls that do not    *)
(* overlap, an ended case has no open task left.                           *)
(***************************************************************************)
EXTENDS MCCases, TLAPS

-----------------------------------------------------------------------------
(* Calls *)

LEMMA NoCallType == NoCall \in Call /\ Fits(NoCall) /\ NoCall.ends = "open"
BY NotIds DEF NoCall, Call, Fits, TaskStatus

\* A link that was made stays.
LinksStay == /\ link' \in [Tasks -> Cases \cup {NoCase}]
             /\ \A t \in Tasks : link[t] \in Cases => link'[t] = link[t]

\* The links a call relies on stay, so what it holds still fits.
LEMMA FitsStays ==
  ASSUME NEW x \in Call, Fits(x), LinksStay
  PROVE Fits(x)'
<1>1. /\ x.todo \subseteq Tasks /\ x.left \subseteq Tasks
      /\ x.at = "ofTask" => x.task \in Tasks
      /\ x.ends # "open" => x.case \in Cases
  BY DEF Call, Fits
<1> QED
  BY <1>1 DEF Fits, LinksStay

\* The call of p goes on with x, while no case ends and none is announced.
LEMMA GoesKeeps ==
  ASSUME IInv, NEW p \in Procs, NEW x \in Call, Goes(p, x), Fits(x)',
         UNCHANGED <<cases, announced>>, LinksStay,
         tasks' \in [Tasks -> TaskRow], unasked' \in SUBSET Tasks /\ untold' \in SUBSET Cases,
         votes' \in [Cases -> [Members -> Members \cup {Nobody}]],
         x.ends # "open" /\ x.cascades =>
           /\ call[p].ends = x.ends
           /\ call[p].cascades
           /\ call[p].case = x.case
  PROVE IInv'
<1>1. call \in [Procs -> Call] /\ call' = [call EXCEPT ![p] = x]
  BY DEF IInv, TypeOK, Goes
<1>2. call'[p] = x /\ \A q \in Procs \ {p} : call'[q] = call[q]
  BY <1>1
<1>3. TypeOK'
  BY <1>1 DEF IInv, TypeOK, LinksStay
<1>4. \A q \in Procs, c \in Cases : Owes(q, c)' => Owes(q, c) /\ call'[q].ends = call[q].ends
  BY <1>2 DEF Owes
<1>5. AnnouncedOnce'
  BY <1>4 DEF IInv, AnnouncedOnce
<1>6. \A q \in Procs : Fits(call[q])'
  <2> SUFFICES ASSUME NEW q \in Procs PROVE Fits(call[q])'
    OBVIOUS
  <2>1. CASE q = p
    BY <1>2, <2>1 DEF Fits
  <2>2. CASE q # p
    <3>1. Fits(call[q]) /\ call[q] \in Call
      BY DEF IInv, TypeOK
    <3> DEFINE y == call[q]
    <3>2. Fits(y)'
      BY <1>2, <2>2, <3>1, FitsStays DEF Fits
    <3> QED
      BY <3>2
  <2> QED
    BY <2>1, <2>2
<1> QED
  BY <1>3, <1>5, <1>6 DEF IInv

\* The same of a call that writes no table.
LEMMA ReadKeeps ==
  ASSUME IInv, NEW p \in Procs, NEW x \in Call, Goes(p, x), Fits(x), UNCHANGED <<tables, history>>,
         x.ends # "open" /\ x.cascades =>
           /\ call[p].ends = x.ends
           /\ call[p].cascades
           /\ call[p].case = x.case
  PROVE IInv'
<1>1. Fits(x)'
  BY DEF tables, history, Fits
<1>2. /\ UNCHANGED <<cases, announced>> /\ LinksStay
      /\ tasks' \in [Tasks -> TaskRow] /\ unasked' \in SUBSET Tasks /\ untold' \in SUBSET Cases
      /\ votes' \in [Cases -> [Members -> Members \cup {Nobody}]]
  BY DEF IInv, TypeOK, tables, history, LinksStay
<1> QED
  BY <1>1, <1>2, GoesKeeps

\* A call that returns, whatever rows of tasks, links and votes it wrote.
LEMMA ReturnKeeps ==
  ASSUME IInv, NEW p \in Procs, Return(p), UNCHANGED <<cases, announced>>, LinksStay,
         tasks' \in [Tasks -> TaskRow], unasked' \in SUBSET Tasks /\ untold' \in SUBSET Cases,
         votes' \in [Cases -> [Members -> Members \cup {Nobody}]]
  PROVE IInv'
<1>1. PICK x \in Call : x = NoCall /\ Fits(x) /\ x.ends = "open"
  BY NoCallType
<1>2. Fits(x)'
  BY <1>1, FitsStays
<1>3. Goes(p, x)
  BY <1>1 DEF Return
<1> QED
  BY <1>1, <1>2, <1>3, GoesKeeps

\* A call that only begins: it asked for no end, and cascades over no case.
LEMMA StartKeeps ==
  ASSUME IInv, NEW p \in Procs, NEW x \in Call, Start(p, x), Fits(x),
         x.ends = "open" \/ ~x.cascades
  PROVE IInv'
BY ReadKeeps DEF Start
-----------------------------------------------------------------------------
(* Every call begins well *)

LEMMA BeginKeeps ==
  ASSUME IInv, NEW p \in Procs, Begin(p)
  PROVE IInv'
<1> USE NoCallType
<1>1. ASSUME NEW c \in Cases, NEW m \in Members, OpenCase(p, c, m) PROVE IInv'
  <2>1. /\ cases' = [cases EXCEPT ![c] = [status |-> "open", requester |-> m]]
        /\ cases[c].status = "absent"
        /\ UNCHANGED <<tasks, link, votes, announced, history, call>>
    BY <1>1 DEF OpenCase
  <2>2. TypeOK'
    BY <2>1 DEF IInv, TypeOK, CaseRow, CaseStatus, history
  <2>3. \A q \in Procs : ~Owes(q, c)
    BY <2>1, ZenonT(60) DEF IInv, TypeOK, AnnouncedOnce, Owes, Call
  <2>4. \A s \in Ended : announced[c][s] = 0
    BY <2>1 DEF IInv, AnnouncedOnce, Ended
  <2>5. \A d \in Cases \ {c} : cases'[d] = cases[d]
    BY <2>1 DEF IInv, TypeOK
  <2>6. \A q \in Procs, d \in Cases : Owes(q, d)' <=> Owes(q, d)
    BY <2>1 DEF Owes
  <2>7. AnnouncedOnce'
    BY <2>1, <2>3, <2>4, <2>5, <2>6 DEF IInv, AnnouncedOnce
  <2>8. \A q \in Procs : Fits(call[q])'
    BY <2>1 DEF IInv, Fits
  <2> QED
    BY <2>2, <2>7, <2>8 DEF IInv
<1>2. ASSUME NEW c \in Cases, NEW t \in Tasks, LinkCaseTask(p, c, t) PROVE IInv'
  <2>1. PICK x : x = [NoCall EXCEPT !.at = "check", !.case = c, !.task = t]
    OBVIOUS
  <2>2. x \in Call /\ Fits(x) /\ x.ends = "open"
    BY <2>1 DEF NoCall, Call, Fits, TaskStatus
  <2> QED
    BY <1>2, <2>1, <2>2, StartKeeps DEF LinkCaseTask
<1>3. ASSUME NEW t \in Tasks, NEW s \in Moves, UpdateTask(p, t, s) PROVE IInv'
  <2>1. tasks[t].status \in TaskStatus /\ s \in TaskStatus
    BY Bounds DEF IInv, TypeOK, TaskRow
  <2>2. PICK x : x = [NoCall EXCEPT !.at = "write", !.task = t,
                                    !.was = tasks[t].status, !.to = s]
    OBVIOUS
  <2>3. x \in Call /\ Fits(x) /\ x.ends = "open"
    BY <2>1, <2>2 DEF NoCall, Call, Fits
  <2> QED
    BY <1>3, <2>2, <2>3, StartKeeps DEF UpdateTask
<1>4. ASSUME NEW t \in Tasks, DeleteTask(p, t) PROVE IInv'
  <2>1. PICK x : x = [NoCall EXCEPT !.at = "drop", !.task = t]
    OBVIOUS
  <2>2. x \in Call /\ Fits(x) /\ x.ends = "open"
    BY <2>1 DEF NoCall, Call, Fits, TaskStatus
  <2> QED
    BY <1>4, <2>1, <2>2, StartKeeps DEF DeleteTask
<1>5. ASSUME NEW S \in SUBSET Tasks, Cascade(p, S) PROVE IInv'
  <2>1. PICK x : x = [NoCall EXCEPT !.at = "cancel", !.todo = S, !.cascades = TRUE]
    OBVIOUS
  <2>2. x \in Call
    BY <2>1 DEF Call
  <2>3. x.at = "cancel" /\ x.ends = "open"
    BY <2>1 DEF NoCall
  <2>4. Fits(x)
    BY <2>3 DEF Fits
  <2> QED
    BY <2>3, <2>4, <1>5, <2>1, <2>2, StartKeeps DEF Cascade
<1>6. ASSUME NEW t \in Tasks, ResetTask(p, t) PROVE IInv'
  <2>1. /\ tasks' = [tasks EXCEPT ![t].status = "pending"]
        /\ UNCHANGED <<cases, link, votes, announced, history, call>>
    BY <1>6 DEF ResetTask
  <2>2. TypeOK'
    BY <2>1 DEF IInv, TypeOK, TaskRow, TaskStatus, history
  <2> QED
    BY <2>1, <2>2 DEF IInv, AnnouncedOnce, Owes, Fits
<1>7. ASSUME NEW c \in Cases, NEW s \in Ended, EndCase(p, c, s) PROVE IInv'
  <2>1. PICK x : x = [NoCall EXCEPT !.at = "links", !.case = c, !.ends = s]
    OBVIOUS
  <2>2. x \in Call /\ Fits(x) /\ ~x.cascades
    BY <2>1, ZenonT(60) DEF NoCall, Call, Fits, Ended, TaskStatus
  <2> QED
    BY <1>7, <2>1, <2>2, StartKeeps DEF EndCase
<1>8. ASSUME NEW c \in Cases, NEW m \in Members, NEW b \in Members, VoteCase(p, c, m, b)
      PROVE IInv'
  <2>1. PICK x : x = [NoCall EXCEPT !.at = "look", !.case = c, !.member = m, !.by = b]
    OBVIOUS
  <2>2. x \in Call
    BY <2>1 DEF Call
  <2>3. x.at = "look" /\ x.ends = "open" /\ x.case = c /\ x.member = m
    BY <2>1 DEF NoCall
  <2>4. Fits(x)
    BY <2>3 DEF Fits
  <2> QED
    BY <2>3, <2>4, <1>8, <2>1, <2>2, StartKeeps DEF VoteCase
<1>9. ASSUME NEW c \in Cases, NEW m \in Members, TakeBackVote(p, c, m) PROVE IInv'
  <2>1. PICK x : x = [NoCall EXCEPT !.at = "takeBack", !.case = c, !.member = m]
    OBVIOUS
  <2>2. x \in Call /\ Fits(x) /\ x.ends = "open"
    BY <2>1 DEF NoCall, Call, Fits, TaskStatus
  <2> QED
    BY <1>9, <2>1, <2>2, StartKeeps DEF TakeBackVote
<1> QED
  BY <1>1, <1>2, <1>3, <1>4, <1>5, <1>6, <1>7, <1>8, <1>9 DEF Begin
-----------------------------------------------------------------------------
(* Every statement keeps IInv *)

\* What IInv says of the call of p.
LEMMA CallOf ==
  ASSUME IInv, NEW p \in Procs
  PROVE call[p] \in Call /\ Fits(call[p])
BY DEF IInv, TypeOK

LEMMA CheckTaskKeeps ==
  ASSUME IInv, NEW p \in Procs, CheckTask(p)
  PROVE IInv'
<1>1. CASE Return(p)
  BY <1>1, ReturnKeeps DEF CheckTask, tables, history, LinksStay, IInv, TypeOK
<1>2. CASE Goes(p, [call[p] EXCEPT !.at = "insert"])
  <2>1. PICK y : y = call[p]
    OBVIOUS
  <2>2. PICK x : x = [y EXCEPT !.at = "insert"]
    OBVIOUS
  <2>3. y \in Call /\ Fits(y) /\ y.at = "check"
    BY <2>1, CallOf DEF CheckTask, At
  <2>4. x \in Call /\ Fits(x) /\ x.ends = "open"
    BY <2>2, <2>3 DEF Call, Fits
  <2> QED
    BY <1>2, <2>1, <2>2, <2>4, ReadKeeps DEF CheckTask
<1> QED
  BY <1>1, <1>2 DEF CheckTask

LEMMA InsertLinkKeeps ==
  ASSUME IInv, NEW p \in Procs, InsertLink(p)
  PROVE IInv'
<1>1. /\ call[p].task \in Tasks /\ call[p].case \in Cases
      /\ link \in [Tasks -> Cases \cup {NoCase}] /\ unasked \in SUBSET Tasks
  BY CallOf DEF InsertLink, At, Fits, IInv, TypeOK
<1>2. LinksStay /\ unasked' \in SUBSET Tasks /\ untold' \in SUBSET Cases
  <2>1. CASE link[call[p].task] = NoCase
    BY <1>1, <2>1, NotIds DEF InsertLink, LinksStay, IInv, TypeOK
  <2>2. CASE link[call[p].task] # NoCase
    BY <1>1, <2>2 DEF InsertLink, LinksStay, IInv, TypeOK
  <2> QED
    BY <2>1, <2>2
<1> QED
  BY <1>2, ReturnKeeps DEF InsertLink, IInv, TypeOK

LEMMA WriteTaskKeeps ==
  ASSUME IInv, NEW p \in Procs, WriteTask(p)
  PROVE IInv'
<1>1. call[p].task \in Tasks /\ call[p].to \in TaskStatus
  BY CallOf DEF WriteTask, At, Fits, Call
<1>2. tasks' \in [Tasks -> TaskRow]
  <2>1. CASE UNCHANGED tasks
    BY <2>1 DEF IInv, TypeOK
  <2>2. CASE tasks' = [tasks EXCEPT ![call[p].task].status = call[p].to]
    <3>1. tasks[call[p].task] \in TaskRow
      BY <1>1 DEF IInv, TypeOK
    <3>2. [tasks[call[p].task] EXCEPT !.status = call[p].to] \in TaskRow
      BY <1>1, <3>1 DEF TaskRow
    <3> QED
      BY <2>2, <3>2 DEF IInv, TypeOK
  <2> QED
    BY <2>1, <2>2 DEF WriteTask
<1>3. /\ UNCHANGED <<cases, announced>> /\ LinksStay /\ unasked' \in SUBSET Tasks /\ untold' \in SUBSET Cases
      /\ votes' \in [Cases -> [Members -> Members \cup {Nobody}]]
  BY <1>1 DEF WriteTask, LinksStay, IInv, TypeOK
<1>4. CASE Return(p)
  BY <1>2, <1>3, <1>4, ReturnKeeps
<1>5. CASE Goes(p, [NoCall EXCEPT !.at = "ofTask", !.task = call[p].task])
  <2>1. PICK t : t = call[p].task
    OBVIOUS
  <2>2. PICK x : x = [NoCall EXCEPT !.at = "ofTask", !.task = t]
    OBVIOUS
  <2>3. x \in Call /\ Fits(x) /\ x.ends = "open"
    BY <1>1, <2>1, <2>2, NoCallType, ZenonT(60) DEF NoCall, Call, Fits, TaskStatus
  <2>4. Fits(x)'
    BY <1>3, <2>3, FitsStays
  <2> QED
    BY <1>2, <1>3, <1>5, <2>1, <2>2, <2>3, <2>4, GoesKeeps
<1> QED
  BY <1>4, <1>5 DEF WriteTask

LEMMA DropTaskKeeps ==
  ASSUME IInv, NEW p \in Procs, DropTask(p)
  PROVE IInv'
<1>1. PICK y : y = call[p]
  OBVIOUS
<1>2. PICK x : x = [y EXCEPT !.at = "ofTask"]
  OBVIOUS
<1>3. y \in Call /\ Fits(y) /\ y.at = "drop"
  BY <1>1, CallOf DEF DropTask, At
<1>4. x \in Call /\ Fits(x) /\ x.ends = "open"
  BY <1>2, <1>3 DEF Call, Fits
<1>5. y.task \in Tasks /\ tasks[y.task] \in TaskRow
  BY <1>3 DEF Fits, IInv, TypeOK
<1>6. [tasks[y.task] EXCEPT !.deleted = TRUE] \in TaskRow
  BY <1>5 DEF TaskRow
<1>7. tasks' \in [Tasks -> TaskRow]
  BY <1>1, <1>5, <1>6 DEF DropTask, IInv, TypeOK
<1>8. /\ UNCHANGED <<cases, announced>> /\ LinksStay /\ unasked' \in SUBSET Tasks /\ untold' \in SUBSET Cases
      /\ votes' \in [Cases -> [Members -> Members \cup {Nobody}]]
      /\ Goes(p, x)
  BY <1>1, <1>2 DEF DropTask, LinksStay, IInv, TypeOK
<1>9. Fits(x)'
  BY <1>4, <1>8, FitsStays
<1> QED
  BY <1>4, <1>7, <1>8, <1>9, GoesKeeps

LEMMA CancelTaskKeeps ==
  ASSUME IInv, NEW p \in Procs, NEW t \in Tasks, CancelTask(p, t)
  PROVE IInv'
<1>1. PICK y : y = call[p]
  OBVIOUS
<1>2. PICK x : x = [y EXCEPT !.at = "ofTask", !.task = t, !.todo = y.todo \ {t}]
  OBVIOUS
<1>3. y \in Call /\ Fits(y) /\ y.at = "cancel" /\ t \in y.todo
  BY <1>1, CallOf DEF CancelTask, At
<1>4. /\ x \in Call /\ x.ends = y.ends /\ x.cascades = y.cascades /\ x.case = y.case
      /\ x.at = "ofTask" /\ x.task = t /\ x.todo \subseteq y.todo
  BY <1>2, <1>3 DEF Call
<1>5. Fits(x)
  BY <1>3, <1>4 DEF Fits
<1>6. tasks' \in [Tasks -> TaskRow]
  BY DEF CancelTask, IInv, TypeOK, TaskRow, TaskStatus
<1>7. /\ UNCHANGED <<cases, announced>> /\ LinksStay /\ unasked' \in SUBSET Tasks /\ untold' \in SUBSET Cases
      /\ votes' \in [Cases -> [Members -> Members \cup {Nobody}]]
  BY DEF CancelTask, LinksStay, IInv, TypeOK
<1>8. Goes(p, x)
  BY <1>1, <1>2, <1>3 DEF CancelTask, Goes, IInv, TypeOK
<1>9. Fits(x)'
  BY <1>4, <1>5, <1>7, FitsStays
<1> QED
  BY <1>1, <1>4, <1>6, <1>7, <1>8, <1>9, GoesKeeps

LEMMA AfterSettleKeeps ==
  ASSUME IInv, NEW p \in Procs, AfterSettle(p), UNCHANGED <<tables, history>>,
         call[p].ends = "open" \/ call[p].cascades
  PROVE IInv'
<1>1. CASE ~call[p].cascades
  BY <1>1, ReturnKeeps DEF AfterSettle, tables, history, LinksStay, IInv, TypeOK
<1>2. CASE call[p].cascades
  <2>1. PICK y : y = call[p]
    OBVIOUS
  <2>2. PICK x : x = [y EXCEPT !.at = "cancel"]
    OBVIOUS
  <2>3. y \in Call /\ Fits(y)
    BY <2>1, CallOf
  <2>4. /\ x \in Call /\ Fits(x)
        /\ x.ends = y.ends /\ x.cascades = y.cascades /\ x.case = y.case
    BY <1>2, <2>1, <2>2, <2>3 DEF Call, Fits
  <2> QED
    BY <1>2, <2>1, <2>2, <2>4, ReadKeeps DEF AfterSettle
<1> QED
  BY <1>1, <1>2

LEMMA CaseOfTaskKeeps ==
  ASSUME IInv, NEW p \in Procs, CaseOfTask(p)
  PROVE IInv'
<1>1. PICK y : y = call[p]
  OBVIOUS
<1>2. y \in Call /\ Fits(y) /\ y.at = "ofTask" /\ y.task \in Tasks /\ UNCHANGED <<tables, history>>
  BY <1>1, CallOf DEF CaseOfTask, At, Fits
<1>3. CASE AfterSettle(p)
  BY <1>1, <1>2, <1>3, AfterSettleKeeps DEF Fits
<1>4. CASE link[y.task] # NoCase /\ Goes(p, [y EXCEPT !.at = "links", !.case = link[y.task]])
  <2>1. PICK c : c = link[y.task]
    OBVIOUS
  <2>2. PICK x : x = [y EXCEPT !.at = "links", !.case = c]
    OBVIOUS
  <2>3. c \in Cases
    BY <1>2, <1>4, <2>1 DEF IInv, TypeOK
  <2>4. y.ends # "open" => y.case = c
    BY <1>2, <2>1 DEF Fits
  <2>5. /\ x \in Call /\ x.at = "links" /\ x.case = c /\ x.ends = y.ends
        /\ x.cascades = y.cascades /\ x.todo = y.todo /\ x.task = y.task
    BY <1>2, <2>2, <2>3 DEF Call
  <2>6. Fits(x)
    BY <1>2, <2>1, <2>3, <2>4, <2>5 DEF Fits
  <2> QED
    BY <1>1, <1>2, <1>4, <2>1, <2>2, <2>4, <2>5, <2>6, ReadKeeps
<1> QED
  BY <1>1, <1>3, <1>4 DEF CaseOfTask

LEMMA CaseLinksKeeps ==
  ASSUME IInv, NEW p \in Procs, CaseLinks(p)
  PROVE IInv'
<1>1. PICK y : y = call[p]
  OBVIOUS
<1>2. PICK L : L = {t \in Tasks : link[t] = y.case}
  OBVIOUS
<1>3. PICK x : x = [y EXCEPT !.at = "read", !.left = L, !.live = FALSE, !.open = FALSE]
  OBVIOUS
<1>4. y \in Call /\ Fits(y) /\ y.at = "links" /\ UNCHANGED <<tables, history>>
  BY <1>1, CallOf DEF CaseLinks, At
<1>5. /\ x \in Call /\ x.at = "read" /\ x.left = L /\ x.case = y.case /\ x.ends = y.ends
      /\ x.cascades = y.cascades /\ x.todo = y.todo /\ x.task = y.task
  BY <1>2, <1>3, <1>4 DEF Call
<1>6. Fits(x)
  BY <1>2, <1>4, <1>5 DEF Fits
<1>7. Goes(p, x)
  BY <1>1, <1>2, <1>3 DEF CaseLinks
<1> QED
  BY <1>1, <1>4, <1>5, <1>6, <1>7, ReadKeeps

\* What ReadTask makes of a call: t is no longer left, and a live t is noted.
Reads(y, x, t) ==
  /\ x.at = "read" /\ x.left = y.left \ {t} /\ x.case = y.case /\ x.task = y.task
  /\ x.ends = y.ends /\ x.cascades = y.cascades
  /\ x.live = (y.live \/ Live(t))
  /\ x.open = (y.open \/ (Live(t) /\ tasks[t].status \notin Settled))
  /\ x.todo = IF /\ Live(t) /\ y.ends = "cancelled" /\ ~y.cascades
                 /\ "cancelled" \in TaskNext[tasks[t].status]
                THEN y.todo \cup {t} ELSE y.todo

LEMMA ReadIs ==
  ASSUME IInv, NEW p \in Procs, NEW t \in Tasks, ReadTask(p, t)
  PROVE \E x \in Call : Goes(p, x) /\ Reads(call[p], x, t)
<1>1. PICK y : y = call[p]
  OBVIOUS
<1>2. y \in Call /\ y.at = "read" /\ t \in y.left
  BY <1>1, CallOf DEF ReadTask, At
<1>3. PICK z : z = [y EXCEPT !.left = y.left \ {t}]
  OBVIOUS
<1>4. /\ z \in Call /\ z.at = "read" /\ z.left = y.left \ {t} /\ z.case = y.case
      /\ z.ends = y.ends /\ z.cascades = y.cascades /\ z.todo = y.todo
      /\ z.open = y.open /\ z.live = y.live /\ z.task = y.task
  BY <1>2, <1>3 DEF Call
<1>5. CASE ~Live(t)
  <2>1. Goes(p, z)
    BY <1>1, <1>3, <1>5 DEF ReadTask, Goes
  <2>2. z.live \in BOOLEAN /\ z.open \in BOOLEAN
    BY <1>4 DEF Call
  <2>3. Reads(y, z, t)
    BY <1>4, <1>5, <2>2 DEF Reads
  <2> QED
    BY <1>1, <1>4, <2>1, <2>3
<1>6. CASE Live(t)
  <2>1. PICK o \in BOOLEAN : o = (z.open \/ tasks[t].status \notin Settled)
    OBVIOUS
  <2>2. PICK d : d = IF (y.ends = "cancelled" /\ ~y.cascades)
                          /\ "cancelled" \in TaskNext[tasks[t].status]
                       THEN z.todo \cup {t} ELSE z.todo
    OBVIOUS
  <2>3. PICK x : x = [z EXCEPT !.live = TRUE, !.open = o, !.todo = d]
    OBVIOUS
  <2>4. d \in SUBSET Tasks
    BY <1>4, <2>2 DEF Call
  <2>5. /\ x \in Call /\ x.at = "read" /\ x.left = z.left /\ x.case = z.case
        /\ x.ends = z.ends /\ x.cascades = z.cascades /\ x.todo = d /\ x.task = z.task
        /\ x.live = TRUE /\ x.open = o
    BY <1>4, <2>3, <2>4 DEF Call
  <2>6. Goes(p, x)
    BY <1>1, <1>3, <1>6, <2>1, <2>2, <2>3 DEF ReadTask, Goes
  <2>7. Reads(y, x, t)
    BY <1>4, <1>6, <2>1, <2>2, <2>5 DEF Reads
  <2> QED
    BY <1>1, <2>5, <2>6, <2>7
<1> QED
  BY <1>5, <1>6

LEMMA ReadTaskKeeps ==
  ASSUME IInv, NEW p \in Procs, NEW t \in Tasks, ReadTask(p, t)
  PROVE IInv'
<1>1. PICK y : y = call[p]
  OBVIOUS
<1>2. /\ y \in Call /\ Fits(y) /\ y.at = "read" /\ t \in y.left /\ UNCHANGED <<tables, history>>
  BY <1>1, CallOf DEF ReadTask, At
<1>3. PICK x \in Call : Goes(p, x) /\ Reads(y, x, t)
  BY <1>1, ReadIs
<1>4. Fits(x)
  BY <1>2, <1>3 DEF Fits, Reads
<1> QED
  BY <1>1, <1>2, <1>3, <1>4, ReadKeeps DEF Reads

LEMMA LookForVoteKeeps ==
  ASSUME IInv, NEW p \in Procs, LookForVote(p)
  PROVE IInv'
<1>1. PICK y : y = call[p]
  OBVIOUS
<1>2. PICK x : x = [y EXCEPT !.at = "vote"]
  OBVIOUS
<1>3. y \in Call /\ Fits(y) /\ y.at = "look"
  BY <1>1, CallOf DEF LookForVote, At
<1>4. x \in Call /\ Fits(x) /\ x.ends = "open"
  BY <1>2, <1>3 DEF Call, Fits
<1>5. CASE Return(p)
  BY <1>5, ReturnKeeps DEF LookForVote, tables, history, LinksStay, IInv, TypeOK
<1>6. CASE Goes(p, [y EXCEPT !.at = "vote"])
  BY <1>2, <1>4, <1>6, ReadKeeps DEF LookForVote
<1> QED
  BY <1>1, <1>5, <1>6 DEF LookForVote

\* InsertVote and DeleteVote.
LEMMA WriteVoteKeeps ==
  ASSUME IInv, NEW p \in Procs, InsertVote(p) \/ DeleteVote(p)
  PROVE IInv'
<1>1. call[p].case \in Cases /\ call[p].member \in Members /\ call[p].by \in Members \cup {Nobody}
  BY CallOf DEF InsertVote, DeleteVote, At, Fits, Call
<1>2. votes[call[p].case] \in [Members -> Members \cup {Nobody}]
  BY <1>1 DEF IInv, TypeOK
<1>3. ASSUME NEW b \in Members \cup {Nobody},
             votes' = [votes EXCEPT ![call[p].case][call[p].member] = b]
      PROVE votes' \in [Cases -> [Members -> Members \cup {Nobody}]]
  <2>1. [votes[call[p].case] EXCEPT ![call[p].member] = b] \in [Members -> Members \cup {Nobody}]
    BY <1>1, <1>2
  <2> QED
    BY <1>3, <2>1 DEF IInv, TypeOK
<1>4. votes[call[p].case][call[p].member] \in Members \cup {Nobody}
  BY <1>1, <1>2
<1>5. votes' \in [Cases -> [Members -> Members \cup {Nobody}]]
  BY <1>1, <1>3, <1>4 DEF InsertVote, DeleteVote
<1> QED
  BY <1>5, ReturnKeeps DEF InsertVote, DeleteVote, LinksStay, IInv, TypeOK, history
-----------------------------------------------------------------------------
(* Ending a case and telling it *)

\* The call of p goes on with x after it changed the status or the announcements
\* of c alone; what other callers owe is what they owed.
LEMMA CaseKeeps ==
  ASSUME IInv, NEW p \in Procs, NEW c \in Cases, NEW x \in Call, Goes(p, x), Fits(x),
         UNCHANGED <<tasks, link, votes, history>>,
         cases' \in [Cases -> CaseRow], announced' \in [Cases -> [Ended -> Nat]],
         \A d \in Cases \ {c} : cases'[d] = cases[d] /\ announced'[d] = announced[d],
         \A d \in Cases \ {c} :
           x.ends # "open" /\ x.cascades /\ x.case = d => Owes(p, d) /\ call[p].ends = x.ends,
         \A q \in Procs \ {p} : ~Owes(q, c),
         x.ends # "open" /\ x.cascades /\ x.case = c =>
           x.ends = cases'[c].status /\ \A s \in Ended : announced'[c][s] = 0,
         \A s \in Ended : announced'[c][s] \in {0, 1}
                          /\ (announced'[c][s] = 1 => cases'[c].status = s)
  PROVE IInv'
<1>1. call'[p] = x /\ \A q \in Procs \ {p} : call'[q] = call[q]
  BY DEF Goes, IInv, TypeOK
<1>2. TypeOK'
  BY DEF Goes, IInv, TypeOK, history
<1>3. \A q \in Procs : Fits(call[q])'
  <2> SUFFICES ASSUME NEW q \in Procs PROVE Fits(call[q])'
    OBVIOUS
  <2>1. CASE q = p
    BY <1>1, <2>1 DEF Fits
  <2>2. CASE q # p
    BY <1>1, <2>2 DEF Fits, IInv
  <2> QED
    BY <2>1, <2>2
<1>4. \A q \in Procs, d \in Cases \ {c} :
        Owes(q, d)' => Owes(q, d) /\ call'[q].ends = call[q].ends
  BY <1>1 DEF Owes
<1>5. \A q \in Procs : Owes(q, c)' =>
        q = p /\ x.ends = cases'[c].status /\ \A s \in Ended : announced'[c][s] = 0
  BY <1>1 DEF Owes
<1>6. AnnouncedOnce'
  <2> SUFFICES ASSUME NEW d \in Cases
      PROVE /\ \A q \in Procs : Owes(q, d)' =>
                  /\ call'[q].ends = cases'[d].status
                  /\ \A s \in Ended : announced'[d][s] = 0
                  /\ \A r \in Procs : Owes(r, d)' => r = q
            /\ \A s \in Ended : announced'[d][s] \in {0, 1}
                  /\ (announced'[d][s] = 1 => cases'[d].status = s)
    BY DEF AnnouncedOnce
  <2>1. CASE d = c
    BY <1>1, <1>5, <2>1
  <2>2. CASE d # c
    BY <1>4, <2>2 DEF IInv, AnnouncedOnce
  <2> QED
    BY <2>1, <2>2
<1> QED
  BY <1>2, <1>3, <1>6 DEF IInv

LEMMA CloseCaseKeeps ==
  ASSUME IInv, NEW p \in Procs, CloseCase(p)
  PROVE IInv'
<1> DEFINE c == call[p].case
<1>1. PICK y : y = call[p]
  OBVIOUS
<1>2. /\ y \in Call /\ Fits(y) /\ y.at = "read" /\ y.case \in Cases
      /\ y.ends = "open" \/ y.cascades
  BY <1>1, CallOf DEF CloseCase, HasRead, Asked, At, Fits
<1>3. CASE UNCHANGED <<cases, announced>>
  BY <1>1, <1>2, <1>3, AfterSettleKeeps DEF CloseCase, tables, history
<1>4. CASE /\ cases[y.case].status = "open"
           /\ cases' = [cases EXCEPT ![y.case].status = "done"]
           /\ Announce(y.case, "done")
  <2>1. \A q \in Procs : ~Owes(q, y.case)
    BY <1>2, <1>4 DEF Owes, IInv, AnnouncedOnce
  <2>2. \A s \in Ended : announced[y.case][s] = 0
    BY <1>2, <1>4 DEF IInv, AnnouncedOnce, Ended
  <2>3. cases[y.case] \in CaseRow /\ announced[y.case] \in [Ended -> Nat]
    BY <1>2 DEF IInv, TypeOK
  <2>4. /\ cases' \in [Cases -> CaseRow]
        /\ cases'[y.case].status = "done"
        /\ \A d \in Cases \ {y.case} : cases'[d] = cases[d]
    <3>1. /\ [cases[y.case] EXCEPT !.status = "done"] \in CaseRow
          /\ [cases[y.case] EXCEPT !.status = "done"].status = "done"
      BY <2>3 DEF CaseRow, CaseStatus
    <3> QED
      BY <1>2, <1>4, <3>1 DEF IInv, TypeOK
  <2>5. PICK a : a = [announced[y.case] EXCEPT !["done"] = announced[y.case]["done"] + 1]
    OBVIOUS
  <2>6. a \in [Ended -> Nat] /\ a["done"] = 1 /\ a["cancelled"] = 0
    BY <2>2, <2>3, <2>5 DEF Ended
  <2>7. announced' = [announced EXCEPT ![y.case] = a]
    BY <1>4, <2>5 DEF Announce
  <2>8. /\ announced' \in [Cases -> [Ended -> Nat]] /\ announced'[y.case] = a
        /\ \A d \in Cases \ {y.case} : announced'[d] = announced[d]
    BY <1>2, <2>6, <2>7 DEF IInv, TypeOK
  <2>9. /\ AfterSettle(p) /\ UNCHANGED <<tasks, link, votes, history>>
    BY DEF CloseCase
  <2>10. ASSUME NEW x \in Call, Goes(p, x), Fits(x),
                x.ends # "open" /\ x.cascades =>
                  y.ends = x.ends /\ y.cascades /\ y.case = x.case
         PROVE IInv'
    <3>1. ~(x.ends # "open" /\ x.cascades)
      BY <1>1, <2>1, <2>10 DEF Owes
    <3>2. \A s \in Ended : announced'[y.case][s] \in {0, 1}
                          /\ (announced'[y.case][s] = 1 => cases'[y.case].status = s)
      BY <2>4, <2>6, <2>8 DEF Ended
    <3> QED
      BY <1>2, <2>1, <2>4, <2>8, <2>9, <2>10, <3>1, <3>2, CaseKeeps
  <2>11. CASE Return(p)
    BY <2>10, <2>11, NoCallType DEF Return
  <2>12. CASE y.cascades /\ Goes(p, [y EXCEPT !.at = "cancel"])
    <3>1. PICK x : x = [y EXCEPT !.at = "cancel"]
      OBVIOUS
    <3>2. /\ x \in Call /\ Fits(x)
          /\ x.ends = y.ends /\ x.cascades = y.cascades /\ x.case = y.case
      BY <1>2, <2>12, <3>1 DEF Call, Fits
    <3> QED
      BY <2>10, <2>12, <3>1, <3>2
  <2> QED
    BY <1>1, <2>9, <2>11, <2>12 DEF AfterSettle
<1> QED
  BY <1>1, <1>3, <1>4 DEF CloseCase

LEMMA MoveCaseKeeps ==
  ASSUME IInv, NEW p \in Procs, MoveCase(p)
  PROVE IInv'
<1>1. PICK y : y = call[p]
  OBVIOUS
<1>2. /\ y \in Call /\ Fits(y) /\ y.at = "read" /\ y.case \in Cases
      /\ y.ends # "open" /\ ~y.cascades
      /\ UNCHANGED <<tasks, link, votes, announced, history>>
  BY <1>1, CallOf DEF MoveCase, HasRead, Asked, At, Fits
<1>3. CASE Return(p) /\ UNCHANGED cases
  BY <1>2, <1>3, ReturnKeeps DEF LinksStay, IInv, TypeOK, history
<1>4. CASE /\ cases[y.case].status = "open"
           /\ cases' = [cases EXCEPT ![y.case].status = y.ends]
           /\ Goes(p, [y EXCEPT !.at = "cancel", !.cascades = TRUE])
  <2>1. PICK x : x = [y EXCEPT !.at = "cancel", !.cascades = TRUE]
    OBVIOUS
  <2>2. /\ x \in Call /\ x.at = "cancel" /\ x.cascades /\ x.ends = y.ends
        /\ x.case = y.case /\ x.todo = y.todo
    BY <1>2, <2>1 DEF Call
  <2>3. Fits(x)
    BY <1>2, <2>2 DEF Fits
  <2>4. \A q \in Procs : ~Owes(q, y.case)
    BY <1>2, <1>4 DEF Owes, IInv, AnnouncedOnce
  <2>5. \A s \in Ended : announced[y.case][s] = 0
    BY <1>2, <1>4 DEF IInv, AnnouncedOnce, Ended
  <2>6. /\ cases' \in [Cases -> CaseRow]
        /\ cases'[y.case].status = y.ends
        /\ \A d \in Cases \ {y.case} : cases'[d] = cases[d]
    <3>1. cases[y.case] \in CaseRow /\ y.ends \in CaseStatus
      BY <1>2 DEF IInv, TypeOK, Call, CaseStatus
    <3>2. /\ [cases[y.case] EXCEPT !.status = y.ends] \in CaseRow
          /\ [cases[y.case] EXCEPT !.status = y.ends].status = y.ends
      BY <3>1 DEF CaseRow
    <3> QED
      BY <1>2, <1>4, <3>2 DEF IInv, TypeOK
  <2>7. announced' \in [Cases -> [Ended -> Nat]]
    BY <1>2 DEF IInv, TypeOK
  <2>8. Goes(p, x)
    BY <1>4, <2>1
  <2>9. \A d \in Cases \ {y.case} : cases'[d] = cases[d] /\ announced'[d] = announced[d]
    BY <1>2, <2>6
  <2>10. \A s \in Ended : announced'[y.case][s] = 0
    BY <1>2, <2>5
  <2>11. x.ends = cases'[y.case].status /\ x.case = y.case
    BY <2>2, <2>6
  <2> QED
    BY <1>2, <2>2, <2>3, <2>4, <2>6, <2>7, <2>8, <2>9, <2>10, <2>11, CaseKeeps
<1> QED
  BY <1>1, <1>3, <1>4 DEF MoveCase

LEMMA CascadeDoneKeeps ==
  ASSUME IInv, NEW p \in Procs, CascadeDone(p)
  PROVE IInv'
<1>1. PICK y : y = call[p]
  OBVIOUS
<1>2. /\ y \in Call /\ Fits(y) /\ y.at = "cancel"
      /\ Return(p) /\ UNCHANGED <<cases, tasks, link, votes, history>>
  BY <1>1, CallOf DEF CascadeDone, At
<1>3. CASE UNCHANGED announced
  BY <1>2, <1>3, ReturnKeeps DEF LinksStay, IInv, TypeOK, history
<1>4. CASE y.ends # "open" /\ Announce(y.case, y.ends)
  <2>1. y.case \in Cases /\ y.cascades /\ y.ends \in Ended
    BY <1>2, <1>4 DEF Fits, Call, Ended
  <2>2. Owes(p, y.case)
    BY <1>1, <1>4, <2>1 DEF Owes
  <2>3. /\ y.ends = cases[y.case].status
        /\ \A s \in Ended : announced[y.case][s] = 0
        /\ \A q \in Procs \ {p} : ~Owes(q, y.case)
    BY <1>1, <2>1, <2>2 DEF IInv, AnnouncedOnce
  <2>4. PICK a : a = [announced[y.case] EXCEPT ![y.ends] = announced[y.case][y.ends] + 1]
    OBVIOUS
  <2>5. announced[y.case] \in [Ended -> Nat]
    BY <2>1 DEF IInv, TypeOK
  <2>6. a \in [Ended -> Nat] /\ a[y.ends] = 1 /\ \A s \in Ended \ {y.ends} : a[s] = 0
    BY <2>1, <2>3, <2>4, <2>5
  <2>7. announced' = [announced EXCEPT ![y.case] = a]
    BY <1>4, <2>4 DEF Announce
  <2>8. /\ announced' \in [Cases -> [Ended -> Nat]] /\ announced'[y.case] = a
        /\ \A d \in Cases \ {y.case} : announced'[d] = announced[d]
    BY <2>1, <2>6, <2>7 DEF IInv, TypeOK
  <2>9. \A s \in Ended : announced'[y.case][s] \in {0, 1}
                        /\ (announced'[y.case][s] = 1 => cases'[y.case].status = s)
    BY <1>2, <2>3, <2>6, <2>8
  <2>10. PICK x \in Call : x = NoCall /\ Fits(x) /\ x.ends = "open"
    BY NoCallType
  <2>11. Goes(p, x)
    BY <1>2, <2>10 DEF Return
  <2>12. cases' \in [Cases -> CaseRow] /\ \A d \in Cases : cases'[d] = cases[d]
    BY <1>2 DEF IInv, TypeOK
  <2> QED
    BY <1>2, <2>1, <2>3, <2>8, <2>9, <2>10, <2>11, <2>12, CaseKeeps
<1> QED
  BY <1>1, <1>3, <1>4 DEF CascadeDone
-----------------------------------------------------------------------------
(* The invariant and what follows from it *)

LEMMA InitOK == Init => IInv
<1> SUFFICES ASSUME Init PROVE IInv
  OBVIOUS
<1>1. TypeOK
  BY NoCallType DEF Init, TypeOK, CaseRow, CaseStatus, TaskRow, TaskStatus
<1>2. AnnouncedOnce
  BY NoCallType DEF Init, AnnouncedOnce, Owes
<1>3. \A p \in Procs : Fits(call[p])
  BY NoCallType DEF Init
<1> QED
  BY <1>1, <1>2, <1>3 DEF IInv

LEMMA CrashKeeps ==
  ASSUME IInv, Crash
  PROVE IInv'
<1>1. call' = [p \in Procs |-> NoCall] /\ UNCHANGED tables
  BY DEF Crash
<1>2. TypeOK'
  <2>1. ASSUME NEW p \in Procs, Asks(p) PROVE call[p].task \in Tasks
    BY <2>1, CallOf DEF Asks, Asked, Fits
  <2>2. unasked' \in SUBSET Tasks /\ untold' \in SUBSET Cases
    BY <2>1 DEF Crash, IInv, TypeOK
  <2> QED
    BY <1>1, <2>2, NoCallType DEF IInv, TypeOK, tables
<1>3. \A p \in Procs, c \in Cases : ~Owes(p, c)'
  BY <1>1, NoCallType DEF Owes
<1>4. AnnouncedOnce'
  BY <1>1, <1>3 DEF IInv, AnnouncedOnce, tables, history
<1>5. \A p \in Procs : Fits(call[p])'
  <2>1. PICK x : x = NoCall /\ Fits(x) /\ x.ends = "open" /\ x.at = "idle"
    BY NoCallType DEF NoCall
  <2>2. \A p \in Procs : call'[p] = x
    BY <1>1, <2>1
  <2> SUFFICES ASSUME NEW p \in Procs PROVE Fits(call[p])'
    OBVIOUS
  <2>3. call'[p] = NoCall /\ call'[p].ends = "open" /\ call'[p].at = "idle"
    BY <2>1, <2>2
  <2> QED
    BY <2>3 DEF Fits
<1> QED
  BY <1>2, <1>4, <1>5 DEF IInv

LEMMA NextKeeps == IInv /\ [Next]_vars => IInv'
<1> SUFFICES ASSUME IInv, [Next]_vars PROVE IInv'
  OBVIOUS
<1>1. CASE UNCHANGED vars
  BY <1>1 DEF vars, IInv, TypeOK, AnnouncedOnce, Owes, Fits
<1>2. ASSUME NEW p \in Procs, Step(p) PROVE IInv'
  BY <1>2, CheckTaskKeeps, InsertLinkKeeps, WriteTaskKeeps, DropTaskKeeps, CancelTaskKeeps,
     CaseOfTaskKeeps, CaseLinksKeeps, ReadTaskKeeps, CloseCaseKeeps, MoveCaseKeeps,
     CascadeDoneKeeps, LookForVoteKeeps, WriteVoteKeeps
  DEF Step
<1> QED
  BY <1>1, <1>2, BeginKeeps, CrashKeeps DEF Next

\* IInv holds in every reachable state, crashes included.
LEMMA Invariant == Spec => []IInv
<1> QED
  BY InitOK, NextKeeps, PTL DEF Spec

\* The tables and every call under way keep their types.
THEOREM TypeCorrect == Spec => []TypeOK
<1>1. IInv => TypeOK
  BY DEF IInv
<1> QED
  BY <1>1, Invariant, PTL

\* However many calls race to settle or end a case (UpdateTask, DeleteTask,
\* cancelTask, EndCase), case.closed is published at most once for it, with the
\* status the case ended in.
THEOREM CaseAnnouncedOnce == Spec => []AnnouncedOnce
<1>1. IInv => AnnouncedOnce
  BY DEF IInv
<1> QED
  BY <1>1, Invariant, PTL

\* What a step does to the case table: nothing, or it opens one case, or it ends
\* one that is open.
Opens(c) == /\ cases[c].status = "absent" /\ cases'[c].status = "open"
            /\ UNCHANGED <<tasks, link, votes, announced, history, call>>
Ends(c)  == cases[c].status = "open" /\ cases'[c].status \in Ended

LEMMA CaseStep ==
  ASSUME IInv, [Next]_vars
  PROVE  \/ UNCHANGED cases
         \/ \E c \in Cases : /\ Opens(c) \/ Ends(c)
                             /\ \A d \in Cases \ {c} : cases'[d] = cases[d]
<1>1. ASSUME NEW c \in Cases, NEW s \in CaseStatus, cases' = [cases EXCEPT ![c].status = s]
      PROVE cases'[c].status = s /\ \A d \in Cases \ {c} : cases'[d] = cases[d]
  <2>1. PICK r \in CaseRow : r = cases[c]
    BY DEF IInv, TypeOK
  <2>2. PICK z : z = [r EXCEPT !.status = s]
    OBVIOUS
  <2>3. z.status = s
    BY <2>1, <2>2 DEF CaseRow
  <2> QED
    BY <1>1, <2>1, <2>2, <2>3 DEF IInv, TypeOK
<1>2. ASSUME NEW p \in Procs, CloseCase(p) \/ MoveCase(p)
      PROVE \/ UNCHANGED cases
            \/ \E c \in Cases : Ends(c) /\ \A d \in Cases \ {c} : cases'[d] = cases[d]
  <2>1. call[p] \in Call /\ call[p].case \in Cases
    BY <1>2, CallOf DEF CloseCase, MoveCase, HasRead, At, Fits
  <2>2. CASE CloseCase(p)
    <3>1. \/ UNCHANGED cases
          \/ /\ cases[call[p].case].status = "open"
             /\ cases' = [cases EXCEPT ![call[p].case].status = "done"]
      BY <2>2 DEF CloseCase
    <3> QED
      BY <1>1, <2>1, <3>1 DEF Ends, Ended, CaseStatus
  <2>3. CASE MoveCase(p)
    <3>1. \/ UNCHANGED cases
          \/ /\ cases[call[p].case].status = "open"
             /\ cases' = [cases EXCEPT ![call[p].case].status = call[p].ends]
      BY <2>3 DEF MoveCase
    <3>2. call[p].ends \in Ended
      BY <2>1, <2>3 DEF MoveCase, Asked, Ended, Call
    <3> QED
      BY <1>1, <2>1, <3>1, <3>2 DEF Ends, Ended, CaseStatus
  <2> QED
    BY <1>2, <2>2, <2>3
<1>3. ASSUME NEW p \in Procs, Begin(p)
      PROVE \/ UNCHANGED cases
            \/ \E c \in Cases : Opens(c) /\ \A d \in Cases \ {c} : cases'[d] = cases[d]
  <2>1. ASSUME NEW c \in Cases, NEW m \in Members, OpenCase(p, c, m)
        PROVE Opens(c) /\ \A d \in Cases \ {c} : cases'[d] = cases[d]
    BY <2>1 DEF OpenCase, Opens, IInv, TypeOK
  <2>2. ASSUME NEW x, Start(p, x) PROVE UNCHANGED cases
    BY <2>2 DEF Start, tables
  <2>3. ASSUME NEW t \in Tasks, ResetTask(p, t) PROVE UNCHANGED cases
    BY <2>3 DEF ResetTask
  <2>4. CASE \E c \in Cases, m \in Members : OpenCase(p, c, m)
    BY <2>1, <2>4
  <2>5. CASE ~\E c \in Cases, m \in Members : OpenCase(p, c, m)
    BY <1>3, <2>2, <2>3, <2>5 DEF Begin, LinkCaseTask, UpdateTask, DeleteTask, Cascade, EndCase,
                                  VoteCase, TakeBackVote
  <2> QED
    BY <2>4, <2>5
<1>4. ASSUME NEW p \in Procs, Step(p), ~CloseCase(p), ~MoveCase(p) PROVE UNCHANGED cases
  <2>1. CASE CheckTask(p) \/ CaseOfTask(p) \/ CaseLinks(p) \/ LookForVote(p)
             \/ \E t \in Tasks : ReadTask(p, t)
    BY <2>1 DEF CheckTask, CaseOfTask, CaseLinks, LookForVote, ReadTask, tables
  <2>2. CASE \/ InsertLink(p) \/ WriteTask(p) \/ DropTask(p) \/ CascadeDone(p)
             \/ InsertVote(p) \/ DeleteVote(p) \/ \E t \in Tasks : CancelTask(p, t)
    BY <2>2 DEF InsertLink, WriteTask, DropTask, CascadeDone, InsertVote, DeleteVote, CancelTask
  <2> QED
    BY <1>4, <2>1, <2>2 DEF Step
<1>5. Crash \/ UNCHANGED vars => UNCHANGED cases
  BY DEF Crash, tables, vars
<1> QED
  BY <1>2, <1>3, <1>4, <1>5 DEF Next

\* A case that ended stays as it ended: EndCase and closeCaseIfSettled write it
\* WHERE status = 'open', and nothing else writes it.
THEOREM CasesEndOnce == Spec => EndedStaysEnded
<1>1. IInv /\ [Next]_vars
        => [\A c \in Cases : cases[c].status \in Ended => cases'[c] = cases[c]]_cases
  BY CaseStep DEF Opens, Ends, Ended
<1> QED
  BY <1>1, Invariant, PTL DEF Spec, EndedStaysEnded
-----------------------------------------------------------------------------
(* A case that ended is told *)

\* The call of p goes on with x, owing what it owed.
LEMMA OweKeeps ==
  ASSUME IInv, EndIsTold, NEW p \in Procs, NEW x \in Call, Goes(p, x),
         UNCHANGED <<cases, announced, untold>>,
         call[p].ends # "open" /\ call[p].cascades =>
           x.ends = call[p].ends /\ x.cascades /\ x.case = call[p].case
  PROVE EndIsTold'
<1>1. call'[p] = x /\ \A q \in Procs \ {p} : call'[q] = call[q]
  BY DEF Goes, IInv, TypeOK
<1>2. \A q \in Procs, c \in Cases : Owes(q, c) => Owes(q, c)'
  BY <1>1 DEF Owes
<1> QED
  BY <1>2 DEF EndIsTold

\* The same of a call that asked for no end.
LEMMA OweNothing ==
  ASSUME IInv, EndIsTold, NEW p \in Procs, NEW x, Goes(p, x),
         UNCHANGED <<cases, announced, untold>>,
         call[p].ends = "open" \/ ~call[p].cascades
  PROVE EndIsTold'
<1>1. \A q \in Procs, c \in Cases : Owes(q, c) => Owes(q, c)'
  BY DEF Owes, Goes, IInv, TypeOK
<1> QED
  BY <1>1 DEF EndIsTold

LEMMA BeginTells ==
  ASSUME IInv, EndIsTold, NEW p \in Procs, Begin(p)
  PROVE EndIsTold'
<1>1. ASSUME UNCHANGED <<announced, untold, call>>,
             \A c \in Cases : cases'[c].status \in Ended => cases'[c] = cases[c]
      PROVE EndIsTold'
  BY <1>1 DEF EndIsTold, Owes
<1>2. ASSUME NEW c \in Cases, NEW m \in Members, OpenCase(p, c, m) PROVE EndIsTold'
  <2>1. \A d \in Cases : cases'[d].status \in Ended => cases'[d] = cases[d]
    BY <1>2 DEF OpenCase, Ended, IInv, TypeOK
  <2> QED
    BY <1>1, <1>2, <2>1 DEF OpenCase, history
<1>3. ASSUME NEW t \in Tasks, ResetTask(p, t) PROVE EndIsTold'
  BY <1>1, <1>3 DEF ResetTask, history
<1>4. ASSUME NEW x, Start(p, x) PROVE EndIsTold'
  <2>1. call[p].ends = "open"
    BY <1>4, CallOf, NoCallType DEF Start, Idle, At, Fits
  <2> QED
    BY <1>4, <2>1, OweNothing DEF Start, tables, history
<1> QED
  BY <1>2, <1>3, <1>4 DEF Begin, LinkCaseTask, UpdateTask, DeleteTask, Cascade, EndCase,
                          VoteCase, TakeBackVote

LEMMA CloseTells ==
  ASSUME IInv, EndIsTold, NEW p \in Procs, CloseCase(p)
  PROVE EndIsTold'
<1>1. PICK y : y = call[p]
  OBVIOUS
<1>2. /\ y \in Call /\ Fits(y) /\ y.case \in Cases /\ UNCHANGED untold
  BY <1>1, CallOf DEF CloseCase, HasRead, At, Fits, history
<1>3. PICK x : Goes(p, x) /\ (y.cascades => x = [y EXCEPT !.at = "cancel"])
  BY <1>1 DEF CloseCase, AfterSettle, Return
<1>4. y.ends # "open" /\ y.cascades => x.ends = y.ends /\ x.cascades /\ x.case = y.case
  BY <1>2, <1>3 DEF Call
<1>5. call'[p] = x /\ \A q \in Procs \ {p} : call'[q] = call[q]
  BY <1>3 DEF Goes, IInv, TypeOK
<1>6. \A q \in Procs, c \in Cases : Owes(q, c) => Owes(q, c)'
  BY <1>1, <1>4, <1>5 DEF Owes
<1>7. CASE UNCHANGED <<cases, announced>>
  BY <1>2, <1>6, <1>7 DEF EndIsTold
<1>8. CASE /\ cases[y.case].status = "open"
           /\ cases' = [cases EXCEPT ![y.case].status = "done"]
           /\ Announce(y.case, "done")
  <2>1. announced[y.case] \in [Ended -> Nat] /\ announced[y.case]["done"] = 0 /\ "done" \in Ended
    BY <1>2, <1>8 DEF IInv, TypeOK, AnnouncedOnce, Ended
  <2>2. PICK a : a = [announced[y.case] EXCEPT !["done"] = announced[y.case]["done"] + 1]
    OBVIOUS
  <2>3. a["done"] = 1
    BY <2>1, <2>2
  <2>4. announced'[y.case] = a /\ \A d \in Cases \ {y.case} : announced'[d] = announced[d]
    BY <1>2, <1>8, <2>2 DEF Announce, IInv, TypeOK
  <2>5. PICK r \in CaseRow : r = cases[y.case]
    BY <1>2 DEF IInv, TypeOK
  <2>6. PICK z : z = [r EXCEPT !.status = "done"]
    OBVIOUS
  <2>7. z.status = "done"
    BY <2>5, <2>6 DEF CaseRow
  <2>8. cases'[y.case].status = "done" /\ \A d \in Cases \ {y.case} : cases'[d] = cases[d]
    BY <1>2, <1>8, <2>5, <2>6, <2>7 DEF IInv, TypeOK
  <2> QED
    BY <1>2, <1>6, <2>3, <2>4, <2>8 DEF EndIsTold
<1> QED
  BY <1>1, <1>7, <1>8 DEF CloseCase

LEMMA MoveTells ==
  ASSUME IInv, EndIsTold, NEW p \in Procs, MoveCase(p)
  PROVE EndIsTold'
<1>1. PICK y : y = call[p]
  OBVIOUS
<1>2. /\ y \in Call /\ y.case \in Cases /\ y.ends # "open" /\ ~y.cascades
      /\ UNCHANGED <<announced, untold>>
  BY <1>1, CallOf DEF MoveCase, HasRead, Asked, At, Fits, history
<1>3. CASE Return(p) /\ UNCHANGED cases
  BY <1>1, <1>2, <1>3, OweNothing DEF Return
<1>4. CASE /\ cases' = [cases EXCEPT ![y.case].status = y.ends]
           /\ Goes(p, [y EXCEPT !.at = "cancel", !.cascades = TRUE])
  <2>1. PICK x : x = [y EXCEPT !.at = "cancel", !.cascades = TRUE]
    OBVIOUS
  <2>2. x.ends = y.ends /\ x.cascades /\ x.case = y.case
    BY <1>2, <2>1 DEF Call
  <2>3. call'[p] = x /\ \A q \in Procs \ {p} : call'[q] = call[q]
    BY <1>4, <2>1 DEF Goes, IInv, TypeOK
  <2>4. Owes(p, y.case)'
    BY <1>2, <2>2, <2>3 DEF Owes
  <2>5. \A q \in Procs, c \in Cases : Owes(q, c) => Owes(q, c)'
    BY <1>1, <1>2, <2>3 DEF Owes
  <2>6. \A d \in Cases \ {y.case} : cases'[d] = cases[d]
    BY <1>2, <1>4 DEF IInv, TypeOK
  <2> QED
    BY <1>2, <2>4, <2>5, <2>6 DEF EndIsTold
<1> QED
  BY <1>1, <1>3, <1>4 DEF MoveCase

LEMMA CascadeDoneTells ==
  ASSUME IInv, EndIsTold, NEW p \in Procs, CascadeDone(p)
  PROVE EndIsTold'
<1>1. PICK y : y = call[p]
  OBVIOUS
<1>2. /\ y \in Call /\ Fits(y) /\ y.at = "cancel" /\ Return(p) /\ UNCHANGED <<cases, untold>>
  BY <1>1, CallOf DEF CascadeDone, At, history
<1>3. CASE y.ends = "open"
  BY <1>1, <1>2, <1>3, OweNothing DEF CascadeDone, Return
<1>4. CASE y.ends # "open"
  <2>1. y.case \in Cases /\ y.cascades /\ y.ends \in Ended
    BY <1>2, <1>4 DEF Fits, Call, Ended
  <2>2. /\ y.ends = cases[y.case].status
        /\ announced[y.case][y.ends] = 0
    BY <1>1, <1>4, <2>1 DEF IInv, AnnouncedOnce, Owes
  <2>3. PICK a : a = [announced[y.case] EXCEPT ![y.ends] = announced[y.case][y.ends] + 1]
    OBVIOUS
  <2>4. announced[y.case] \in [Ended -> Nat]
    BY <2>1 DEF IInv, TypeOK
  <2>5. a[y.ends] = 1
    BY <2>1, <2>2, <2>3, <2>4
  <2>6. announced'[y.case] = a /\ \A d \in Cases \ {y.case} : announced'[d] = announced[d]
    BY <1>1, <1>4, <2>1, <2>3 DEF CascadeDone, Announce, IInv, TypeOK
  <2>7. \A q \in Procs \ {p} : call'[q] = call[q]
    BY <1>2 DEF Return, Goes, IInv, TypeOK
  <2>8. \A q \in Procs, d \in Cases \ {y.case} : Owes(q, d) => Owes(q, d)'
    BY <1>1, <2>7 DEF Owes
  <2> QED
    BY <1>2, <2>1, <2>2, <2>5, <2>6, <2>8 DEF EndIsTold
<1> QED
  BY <1>3, <1>4

LEMMA StepTells ==
  ASSUME IInv, EndIsTold, NEW p \in Procs, Step(p)
  PROVE EndIsTold'
<1>1. PICK y : y = call[p] /\ y \in Call /\ Fits(y)
  BY CallOf
<1>2. ASSUME NEW x, Goes(p, x), UNCHANGED <<cases, announced, untold>>,
             y.at \in {"check", "insert", "write", "drop", "look", "vote", "takeBack"}
      PROVE EndIsTold'
  BY <1>1, <1>2, OweNothing DEF Fits
<1>3. ASSUME CheckTask(p) \/ InsertLink(p) \/ WriteTask(p) \/ DropTask(p)
             \/ LookForVote(p) \/ InsertVote(p) \/ DeleteVote(p)
      PROVE EndIsTold'
  <2>1. UNCHANGED <<cases, announced, untold>>
    BY <1>3 DEF CheckTask, InsertLink, WriteTask, DropTask, LookForVote, InsertVote, DeleteVote,
                tables, history
  <2>2. \E x : Goes(p, x)
    BY <1>3 DEF CheckTask, InsertLink, WriteTask, DropTask, LookForVote, InsertVote, DeleteVote,
                Return
  <2>3. y.at \in {"check", "insert", "write", "drop", "look", "vote", "takeBack"}
    BY <1>1, <1>3 DEF CheckTask, InsertLink, WriteTask, DropTask, LookForVote, InsertVote,
                      DeleteVote, At
  <2> QED
    BY <1>2, <2>1, <2>2, <2>3
<1>4. ASSUME NEW x, Goes(p, x), UNCHANGED <<cases, announced, untold>>,
             x.ends = y.ends, x.cascades = y.cascades, y.ends # "open" => x.case = y.case, x \in Call
      PROVE EndIsTold'
  BY <1>1, <1>4, OweKeeps
<1>5. ASSUME NEW t \in Tasks, CancelTask(p, t) PROVE EndIsTold'
  <2>1. PICK x : x = [y EXCEPT !.at = "ofTask", !.task = t, !.todo = y.todo \ {t}]
    OBVIOUS
  <2>2. x \in Call /\ x.ends = y.ends /\ x.cascades = y.cascades /\ x.case = y.case
    BY <1>1, <2>1 DEF Call
  <2>3. Goes(p, x) /\ UNCHANGED <<cases, announced, untold>>
    BY <1>1, <1>5, <2>1 DEF CancelTask, Goes, IInv, TypeOK
  <2> QED
    BY <1>4, <2>2, <2>3
<1>6. CASE CaseOfTask(p)
  <2>1. UNCHANGED <<cases, announced, untold>> /\ y.at = "ofTask" /\ y.task \in Tasks
    BY <1>1, <1>6 DEF CaseOfTask, tables, history, At, Fits
  <2>2. PICK c : c = link[y.task]
    OBVIOUS
  <2>3. CASE c = NoCase /\ AfterSettle(p)
    <3>1. y.ends = "open"
      BY <1>1, <2>1, <2>2, <2>3, NotIds DEF Fits
    <3> QED
      BY <1>1, <2>1, <2>3, <3>1, OweNothing DEF AfterSettle, Return
  <2>4. CASE c # NoCase /\ Goes(p, [y EXCEPT !.at = "links", !.case = c])
    <3>1. PICK x : x = [y EXCEPT !.at = "links", !.case = c]
      OBVIOUS
    <3>2. c \in Cases
      BY <2>1, <2>2, <2>4 DEF IInv, TypeOK
    <3>3. x \in Call /\ x.ends = y.ends /\ x.cascades = y.cascades /\ x.case = c
      BY <1>1, <3>1, <3>2 DEF Call
    <3>4. y.ends # "open" => y.case = c
      BY <1>1, <2>1, <2>2 DEF Fits
    <3> QED
      BY <1>4, <2>1, <2>4, <3>1, <3>3, <3>4
  <2> QED
    BY <1>1, <1>6, <2>2, <2>3, <2>4 DEF CaseOfTask
<1>7. CASE CaseLinks(p)
  <2>1. PICK L : L = {t \in Tasks : link[t] = y.case}
    OBVIOUS
  <2>2. PICK x : x = [y EXCEPT !.at = "read", !.left = L, !.live = FALSE, !.open = FALSE]
    OBVIOUS
  <2>3. x \in Call /\ x.ends = y.ends /\ x.cascades = y.cascades /\ x.case = y.case
    <3>0. y \in Call /\ L \in SUBSET Tasks
      BY <1>1, <2>1
    <3>1. x \in Call
      BY <3>0, <2>2 DEF Call
    <3>2. x.ends = y.ends
      BY <1>1, <2>2, ZenonT(30) DEF Call
    <3>3. x.cascades = y.cascades
      BY <1>1, <2>2, ZenonT(30) DEF Call
    <3>4. x.case = y.case
      BY <1>1, <2>2, ZenonT(30) DEF Call
    <3> QED
      BY <3>1, <3>2, <3>3, <3>4
  <2>4. Goes(p, x) /\ UNCHANGED <<cases, announced, untold>>
    BY <1>1, <1>7, <2>1, <2>2 DEF CaseLinks, tables, history
  <2> QED
    BY <1>4, <2>3, <2>4
<1>8. ASSUME NEW t \in Tasks, ReadTask(p, t) PROVE EndIsTold'
  <2>1. UNCHANGED <<cases, announced, untold>>
    BY <1>8 DEF ReadTask, tables, history
  <2>2. PICK x \in Call : Goes(p, x) /\ Reads(y, x, t)
    BY <1>1, <1>8, ReadIs
  <2> QED
    BY <1>4, <2>1, <2>2 DEF Reads
<1> QED
  BY <1>3, <1>5, <1>6, <1>7, <1>8, CloseTells, MoveTells, CascadeDoneTells DEF Step

LEMMA NextTells == IInv /\ EndIsTold /\ [Next]_vars => EndIsTold'
<1> SUFFICES ASSUME IInv, EndIsTold, [Next]_vars PROVE EndIsTold'
  OBVIOUS
<1>1. CASE UNCHANGED vars
  BY <1>1 DEF vars, EndIsTold, Owes
<1>2. CASE Crash
  <2>1. UNCHANGED <<cases, announced>>
    BY <1>2 DEF Crash, tables
  <2>2. /\ untold \subseteq untold'
        /\ \A c \in Cases : (\E p \in Procs : Owes(p, c)) => c \in untold'
    BY <1>2 DEF Crash
  <2> QED
    BY <2>1, <2>2 DEF EndIsTold
<1> QED
  BY <1>1, <1>2, BeginTells, StepTells DEF Next
-----------------------------------------------------------------------------
(* A case has links only once it was opened *)

LEMMA LinksKept == IInv /\ LinksOfCases /\ [Next]_vars => LinksOfCases'
<1> SUFFICES ASSUME IInv, LinksOfCases, [Next]_vars PROVE LinksOfCases'
  OBVIOUS
<1>1. \A c \in Cases : cases[c].status # "absent" => cases'[c].status # "absent"
  BY CaseStep DEF Opens, Ends, Ended
<1>2. \A t \in Tasks : link[t] \in Cases \cup {NoCase}
  BY DEF IInv, TypeOK
<1>3. \A q \in Procs : call[q].at \in {"check", "insert"} => call[q].case \in Cases
  BY CallOf DEF Fits
<1>4. \A t \in Tasks : link[t] # NoCase => cases'[link[t]].status # "absent"
  BY <1>1, <1>2 DEF LinksOfCases
<1>5. ASSUME NEW p \in Procs, NEW x, Goes(p, x), UNCHANGED link,
             x.at \in {"check", "insert"} => /\ x.case \in Cases
                                             /\ cases[x.case].status # "absent"
      PROVE LinksOfCases'
  <2>1. call'[p] = x /\ \A q \in Procs \ {p} : call'[q] = call[q]
    BY <1>5 DEF Goes, IInv, TypeOK
  <2> QED
    BY <1>1, <1>3, <1>4, <1>5, <2>1 DEF LinksOfCases
<1>6. CASE UNCHANGED <<link, call>>
  BY <1>1, <1>3, <1>4, <1>6 DEF LinksOfCases
<1>7. NoCall.at = "idle"
  BY DEF NoCall
<1>8. ASSUME NEW p \in Procs, Begin(p) PROVE LinksOfCases'
  <2>1. ASSUME NEW c \in Cases, NEW t \in Tasks, LinkCaseTask(p, c, t) PROVE LinksOfCases'
    <3>1. PICK x : x = [NoCall EXCEPT !.at = "check", !.case = c, !.task = t]
      OBVIOUS
    <3>2. x.case = c
      BY <3>1 DEF NoCall
    <3> QED
      BY <1>5, <2>1, <3>1, <3>2 DEF LinkCaseTask, Start, tables
  <2>2. ASSUME NEW x, Start(p, x), x.at \notin {"check", "insert"} PROVE LinksOfCases'
    BY <1>5, <2>2 DEF Start, tables
  <2>3. ASSUME NEW t \in Tasks, NEW s \in Moves, UpdateTask(p, t, s) PROVE LinksOfCases'
    BY <2>2, <2>3 DEF UpdateTask, NoCall
  <2>4. ASSUME NEW t \in Tasks, DeleteTask(p, t) PROVE LinksOfCases'
    BY <2>2, <2>4 DEF DeleteTask, NoCall
  <2>5. ASSUME NEW S \in SUBSET Tasks, Cascade(p, S) PROVE LinksOfCases'
    BY <2>2, <2>5 DEF Cascade, NoCall
  <2>6. ASSUME NEW c \in Cases, NEW s \in Ended, EndCase(p, c, s) PROVE LinksOfCases'
    BY <2>2, <2>6 DEF EndCase, NoCall
  <2>7. ASSUME NEW c \in Cases, NEW m \in Members, NEW b \in Members, VoteCase(p, c, m, b)
        PROVE LinksOfCases'
    BY <2>2, <2>7 DEF VoteCase, NoCall
  <2>8. ASSUME NEW c \in Cases, NEW m \in Members, TakeBackVote(p, c, m) PROVE LinksOfCases'
    BY <2>2, <2>8 DEF TakeBackVote, NoCall
  <2>9. CASE (\E c \in Cases, m \in Members : OpenCase(p, c, m)) \/ \E t \in Tasks : ResetTask(p, t)
    BY <1>6, <2>9 DEF OpenCase, ResetTask
  <2> QED
    BY <1>8, <2>1, <2>3, <2>4, <2>5, <2>6, <2>7, <2>8, <2>9 DEF Begin
<1>9. ASSUME NEW p \in Procs, Step(p) PROVE LinksOfCases'
  <2>1. PICK y : y = call[p] /\ y \in Call /\ Fits(y)
    BY CallOf
  <2>2. CASE CheckTask(p)
    <3>1. y.at = "check" /\ y.case \in Cases /\ UNCHANGED link
      BY <2>1, <2>2 DEF CheckTask, At, Fits, tables
    <3>2. [y EXCEPT !.at = "insert"].case = y.case
      BY <2>1 DEF Call
    <3> QED
      BY <1>5, <1>7, <2>1, <2>2, <3>1, <3>2 DEF CheckTask, Return, LinksOfCases
  <2>3. CASE InsertLink(p)
    <3>1. y.at = "insert" /\ y.case \in Cases /\ y.task \in Tasks
      BY <2>1, <2>3 DEF InsertLink, At, Fits
    <3>2. cases'[y.case].status # "absent"
      BY <1>1, <2>1, <3>1 DEF LinksOfCases
    <3>3. \A t \in Tasks : link'[t] = link[t] \/ link'[t] = y.case
      BY <2>1, <2>3, <3>1 DEF InsertLink, IInv, TypeOK
    <3>4. call'[p] = NoCall /\ \A q \in Procs \ {p} : call'[q] = call[q]
      BY <2>3 DEF InsertLink, Return, Goes, IInv, TypeOK
    <3> QED
      BY <1>1, <1>3, <1>4, <1>7, <3>2, <3>3, <3>4 DEF LinksOfCases
  <2>4. ASSUME NEW x, Goes(p, x), UNCHANGED link, x.at \notin {"check", "insert"} PROVE LinksOfCases'
    BY <1>5, <2>4
  <2>5. \A a \in {"ofTask", "cancel"} : [NoCall EXCEPT !.at = a, !.task = y.task].at = a
    BY DEF NoCall
  <2>6. \A a \in {"ofTask", "links", "read", "cancel", "vote"} : [y EXCEPT !.at = a].at = a
    BY <2>1 DEF Call
  <2>7. CASE WriteTask(p)
    BY <1>7, <2>1, <2>4, <2>5, <2>7 DEF WriteTask, Return
  <2>8. CASE DropTask(p)
    BY <2>1, <2>4, <2>6, <2>8 DEF DropTask
  <2>9. ASSUME NEW t \in Tasks, CancelTask(p, t) PROVE LinksOfCases'
    <3>1. [y EXCEPT !.at = "ofTask", !.task = t, !.todo = @ \ {t}].at = "ofTask"
      BY <2>1 DEF Call
    <3> QED
      BY <2>1, <2>4, <2>9, <3>1 DEF CancelTask
  <2>10. ASSUME AfterSettle(p), UNCHANGED link PROVE LinksOfCases'
    BY <1>7, <2>1, <2>4, <2>6, <2>10 DEF AfterSettle, Return
  <2>11. CASE CaseOfTask(p)
    <3>1. \A c : [y EXCEPT !.at = "links", !.case = c].at = "links"
      BY <2>1 DEF Call
    <3> QED
      BY <2>1, <2>4, <2>10, <2>11, <3>1 DEF CaseOfTask, tables
  <2>12. CASE CaseLinks(p)
    <3>1. PICK L : L = {t \in Tasks : link[t] = y.case}
      OBVIOUS
    <3>2. [y EXCEPT !.at = "read", !.left = L, !.live = FALSE, !.open = FALSE].at = "read"
      BY <2>1 DEF Call
    <3> QED
      BY <2>1, <2>4, <2>12, <3>1, <3>2 DEF CaseLinks, tables
  <2>13. ASSUME NEW t \in Tasks, ReadTask(p, t) PROVE LinksOfCases'
    <3>1. UNCHANGED link
      BY <2>13 DEF ReadTask, tables
    <3> QED
      BY <2>4, <2>13, <3>1, ReadIs DEF Reads
  <2>14. CASE CloseCase(p)
    BY <2>10, <2>14 DEF CloseCase
  <2>15. CASE MoveCase(p)
    <3>1. [y EXCEPT !.at = "cancel", !.cascades = TRUE].at = "cancel"
      BY <2>1 DEF Call
    <3> QED
      BY <1>7, <2>1, <2>4, <2>15, <3>1 DEF MoveCase, Return
  <2>16. CASE CascadeDone(p) \/ InsertVote(p) \/ DeleteVote(p)
    BY <1>7, <2>4, <2>16 DEF CascadeDone, InsertVote, DeleteVote, Return
  <2>17. CASE LookForVote(p)
    BY <1>7, <2>1, <2>4, <2>6, <2>17 DEF LookForVote, Return, tables
  <2> QED
    BY <1>9, <2>2, <2>3, <2>7, <2>8, <2>9, <2>11, <2>12, <2>13, <2>14, <2>15, <2>16, <2>17 DEF Step
<1>10. CASE Crash
  BY <1>1, <1>4, <1>7, <1>10 DEF Crash, tables, LinksOfCases
<1> QED
  BY <1>6, <1>8, <1>9, <1>10 DEF Next, vars
-----------------------------------------------------------------------------
(* The last task to settle finds its case settled *)

\* A case that is ready to be closed.
Ready(c) == cases[c].status = "open" /\ LiveTasks(c) # {} /\ AllSettled(c)

\* A step that leaves the tasks and links alone, opens no case that has links,
\* and keeps the check of its caller.
LEMMA SettlingQuiet ==
  ASSUME IInv, Settling, NEW p \in Procs, NEW x, Goes(p, x),
         UNCHANGED <<tasks, link, unasked>>,
         \A c \in Cases : cases'[c].status = "open" => cases[c].status = "open",
         \A c \in Cases : cases'[c].status = "open" /\ Ready(c) /\ Checks(p, c) => Checks(p, c)'
  PROVE Settling'
<1> SUFFICES ASSUME NEW c \in Cases, Ready(c)', \A t \in unasked : link[t] # c
             PROVE \E q \in Procs : Checks(q, c)'
  BY DEF Settling, Ready
<1>1. Ready(c)
  BY DEF Ready, LiveTasks, AllSettled, Live
<1>2. PICK q \in Procs : Checks(q, c)
  BY <1>1 DEF Settling, Ready
<1>3. CASE q = p
  BY <1>1, <1>2, <1>3 DEF Ready
<1>4. CASE q # p
  <2>1. call'[q] = call[q]
    BY <1>4 DEF Goes, IInv, TypeOK
  <2> QED
    BY <1>2, <2>1 DEF Checks, Asks, Asked, At, LiveTasks, Live
<1> QED
  BY <1>3, <1>4

\* The other callers' checks of c go on, when no live task of c is lost.
LEMMA ChecksStay ==
  ASSUME NEW q \in Procs, NEW c \in Cases, Checks(q, c), call'[q] = call[q],
         LiveTasks(c) \subseteq LiveTasks(c)',
         link[call[q].task] = c => link'[call[q].task] = c
  PROVE Checks(q, c)'
BY DEF Checks, Asks, Asked, At

\* The write of a task whose call goes on to its check.
LEMMA SettlingAsks ==
  ASSUME IInv, Settling, NEW p \in Procs, NEW t \in Tasks, NEW x, Goes(p, x), ~Asks(p),
         x.at = "ofTask", x.task = t, x.ends = "open" \/ x.cascades,
         UNCHANGED <<cases, link>>, unasked' = unasked \ {t},
         \A u \in Tasks \ {t} : tasks'[u] = tasks[u]
  PROVE Settling'
<1> SUFFICES ASSUME NEW c \in Cases, Ready(c)', \A u \in unasked' : link[u] # c
             PROVE \E q \in Procs : Checks(q, c)'
  BY DEF Settling, Ready
<1>1. call'[p] = x /\ \A q \in Procs \ {p} : call'[q] = call[q]
  BY DEF Goes, IInv, TypeOK
<1>2. CASE link[t] = c
  <2>1. Checks(p, c)'
    BY <1>1, <1>2 DEF Checks, Asks, Asked, At
  <2> QED
    BY <2>1
<1>3. CASE link[t] # c
  <2>1. LiveTasks(c)' = LiveTasks(c) /\ \A u \in LiveTasks(c) : tasks'[u] = tasks[u]
    BY <1>3 DEF LiveTasks, Live
  <2>2. Ready(c) /\ \A u \in unasked : link[u] # c
    BY <1>3, <2>1 DEF Ready, AllSettled
  <2>3. PICK q \in Procs : Checks(q, c)
    BY <2>2 DEF Settling, Ready
  <2>4. q # p
    BY <2>3 DEF Checks
  <2>5. Checks(q, c)'
    BY <1>1, <2>1, <2>3, <2>4, ChecksStay
  <2> QED
    BY <2>5
<1> QED
  BY <1>2, <1>3

\* A write of the status of a live task that no check follows.
LEMMA SettlingUnasked ==
  ASSUME IInv, Settling, NEW p \in Procs, NEW t \in Tasks, NEW s \in TaskStatus,
         \A q \in Procs : Asks(q) => call'[q] = call[q],
         UNCHANGED <<cases, link>>, Live(t),
         tasks' = [tasks EXCEPT ![t].status = s],
         unasked \subseteq unasked',
         s \in Settled /\ tasks[t].status \notin Settled => t \in unasked'
  PROVE Settling'
<1> SUFFICES ASSUME NEW c \in Cases, Ready(c)', \A u \in unasked' : link[u] # c
             PROVE \E q \in Procs : Checks(q, c)'
  BY DEF Settling, Ready
<1>1. /\ \A u \in Tasks \ {t} : tasks'[u] = tasks[u]
      /\ tasks'[t].status = s /\ tasks'[t].deleted = tasks[t].deleted
  <2>1. PICK r \in TaskRow : r = tasks[t]
    BY DEF IInv, TypeOK
  <2>2. PICK z : z = [r EXCEPT !.status = s]
    OBVIOUS
  <2>3. z.status = s /\ z.deleted = r.deleted
    BY <2>1, <2>2 DEF TaskRow
  <2> QED
    BY <2>1, <2>2, <2>3 DEF IInv, TypeOK
<1>2. \A d \in Cases : LiveTasks(d)' = LiveTasks(d)
  BY <1>1 DEF LiveTasks, Live
<1>3. AllSettled(c)
  <2>1. \A u \in LiveTasks(c) : tasks'[u].status \in Settled
    BY <1>2 DEF Ready, AllSettled
  <2>2. t \in LiveTasks(c) => s \in Settled /\ t \notin unasked'
    BY <1>1, <2>1 DEF LiveTasks
  <2> QED
    BY <1>1, <2>1, <2>2 DEF AllSettled
<1>4. Ready(c) /\ \A u \in unasked : link[u] # c
  BY <1>2, <1>3 DEF Ready
<1>5. PICK q \in Procs : Checks(q, c)
  BY <1>4 DEF Settling, Ready
<1>6. Checks(q, c)'
  BY <1>2, <1>5, ChecksStay DEF Checks
<1> QED
  BY <1>6

LEMMA BeginSettles ==
  ASSUME IInv, LinksOfCases, Settling, NEW p \in Procs, Begin(p)
  PROVE Settling'
<1>1. \A q \in Procs : Idle(q) => ~Asks(q)
  BY DEF Idle, At, Asks
<1>2. ASSUME NEW x, Start(p, x) PROVE Settling'
  BY <1>1, <1>2, SettlingQuiet DEF Start, tables, history, Checks
<1>3. ASSUME NEW c \in Cases, NEW m \in Members, OpenCase(p, c, m) PROVE Settling'
  <2>1. /\ cases[c].status = "absent" /\ UNCHANGED <<tasks, link, unasked, call>>
        /\ \A d \in Cases \ {c} : cases'[d] = cases[d]
    BY <1>3 DEF OpenCase, history, IInv, TypeOK
  <2>2. LiveTasks(c) = {}
    BY <2>1, NotIds DEF LiveTasks, LinksOfCases
  <2> QED
    BY <2>1, <2>2 DEF Settling, LiveTasks, AllSettled, Live, Checks, Asks, Asked, At
<1>4. ASSUME NEW t \in Tasks, ResetTask(p, t) PROVE Settling'
  <2>1. "pending" \in TaskStatus /\ "pending" \notin Settled
    BY DEF TaskStatus, Settled
  <2> QED
    BY <1>4, <2>1, SettlingUnasked DEF ResetTask, history
<1> QED
  BY <1>2, <1>3, <1>4 DEF Begin, LinkCaseTask, UpdateTask, DeleteTask, Cascade, EndCase,
                          VoteCase, TakeBackVote

LEMMA InsertLinkSettles ==
  ASSUME IInv, Settling, NEW p \in Procs, InsertLink(p)
  PROVE Settling'
<1>1. PICK y : y = call[p]
  OBVIOUS
<1>2. y \in Call /\ y.at = "insert" /\ y.task \in Tasks /\ y.case \in Cases
  BY <1>1, CallOf DEF InsertLink, At, Fits
<1>3. /\ UNCHANGED <<cases, tasks>> /\ ~Asks(p)
      /\ \A q \in Procs \ {p} : call'[q] = call[q]
  BY <1>1, <1>2 DEF InsertLink, Return, Goes, Asks, IInv, TypeOK
<1>4. CASE UNCHANGED <<link, unasked>>
  BY <1>3, <1>4, SettlingQuiet DEF InsertLink, Return, Checks
<1>5. CASE link[y.task] = NoCase
  <2>1. /\ link' = [link EXCEPT ![y.task] = y.case]
        /\ unasked \subseteq unasked'
        /\ tasks[y.task].status \in Settled => y.task \in unasked'
    BY <1>1, <1>5 DEF InsertLink
  <2>2. link'[y.task] = y.case /\ \A u \in Tasks \ {y.task} : link'[u] = link[u]
    BY <1>2, <2>1 DEF IInv, TypeOK
  <2> SUFFICES ASSUME NEW c \in Cases, Ready(c)', \A u \in unasked' : link'[u] # c
               PROVE \E q \in Procs : Checks(q, c)'
    BY DEF Settling, Ready
  <2>3. LiveTasks(c)' = LiveTasks(c)
    <3>1. CASE y.case # c
      BY <1>3, <1>5, <2>2, <3>1, NotIds DEF LiveTasks, Live
    <3>2. CASE y.case = c
      <4>1. y.task \notin LiveTasks(c)'
        BY <1>3, <2>1, <2>2, <3>2 DEF Ready, AllSettled
      <4>2. y.task \notin LiveTasks(c)
        BY <1>5, NotIds DEF LiveTasks
      <4> QED
        BY <1>3, <2>2, <4>1, <4>2 DEF LiveTasks, Live
    <3> QED
      BY <3>1, <3>2
  <2>4. Ready(c)
    BY <1>3, <2>3 DEF Ready, AllSettled
  <2>5. \A u \in unasked : link[u] # c
    BY <1>5, <2>1, <2>2, NotIds DEF IInv, TypeOK
  <2>6. PICK q \in Procs : Checks(q, c)
    BY <2>4, <2>5 DEF Settling, Ready
  <2>7. q # p
    BY <1>3, <2>6 DEF Checks
  <2>8. link[call[q].task] = c /\ At(q, "ofTask") => link'[call[q].task] = c
    <3>1. At(q, "ofTask") => call[q].task \in Tasks
      BY CallOf DEF At, Fits
    <3> QED
      BY <1>5, <2>2, <3>1, NotIds
  <2>9. Checks(q, c)'
    BY <1>3, <2>3, <2>6, <2>7, <2>8 DEF Checks, Asks, Asked, At
  <2> QED
    BY <2>9
<1> QED
  BY <1>1, <1>4, <1>5 DEF InsertLink

LEMMA WritesSettle ==
  ASSUME IInv, Settling, NEW p \in Procs,
         WriteTask(p) \/ DropTask(p) \/ \E t \in Tasks : CancelTask(p, t)
  PROVE Settling'
<1>1. PICK y : y = call[p] /\ y \in Call /\ Fits(y)
  BY CallOf
<1>2. y.at \in {"write", "drop", "cancel"} /\ ~Asks(p) /\ UNCHANGED <<cases, link>>
  BY <1>1 DEF WriteTask, DropTask, CancelTask, At, Asks
<1>3. CASE WriteTask(p)
  <2>1. y.task \in Tasks /\ y.to \in TaskStatus /\ y.at = "write"
    BY <1>1, <1>3 DEF WriteTask, At, Fits, Call
  <2>2. CASE ~Live(y.task)
    BY <1>1, <1>2, <1>3, <2>2, SettlingQuiet DEF WriteTask, Return, Checks
  <2>3. CASE Live(y.task) /\ y.was # y.to /\ y.to \in Settled
    <3>1. PICK x : x = [NoCall EXCEPT !.at = "ofTask", !.task = y.task]
      OBVIOUS
    <3>2. x.at = "ofTask" /\ x.task = y.task /\ x.ends = "open"
      BY <3>1 DEF NoCall
    <3>3. /\ Goes(p, x) /\ unasked' = unasked \ {y.task}
          /\ tasks' = [tasks EXCEPT ![y.task].status = y.to]
      BY <1>1, <1>3, <2>3, <3>1 DEF WriteTask
    <3>4. \A u \in Tasks \ {y.task} : tasks'[u] = tasks[u]
      BY <3>3 DEF IInv, TypeOK
    <3> QED
      BY <1>2, <2>1, <3>2, <3>3, <3>4, SettlingAsks
  <2>4. CASE Live(y.task) /\ ~(y.was # y.to /\ y.to \in Settled)
    <3>1. /\ Return(p) /\ tasks' = [tasks EXCEPT ![y.task].status = y.to]
          /\ unasked' = IF y.to \in Settled /\ tasks[y.task].status \notin Settled
                          THEN unasked \cup {y.task} ELSE unasked
      BY <1>1, <1>3, <2>4 DEF WriteTask
    <3>2. /\ unasked \subseteq unasked'
          /\ y.to \in Settled /\ tasks[y.task].status \notin Settled => y.task \in unasked'
      BY <3>1
    <3>3. \A q \in Procs : Asks(q) => call'[q] = call[q]
      BY <1>2, <3>1 DEF Return, Goes, IInv, TypeOK
    <3> QED
      BY <1>2, <2>1, <2>4, <3>1, <3>2, <3>3, SettlingUnasked
  <2> QED
    BY <2>2, <2>3, <2>4
<1>4. CASE DropTask(p)
  <2>1. y.at = "drop" /\ y.task \in Tasks /\ y.ends = "open"
    BY <1>1, <1>4 DEF DropTask, At, Fits
  <2>2. PICK x : x = [y EXCEPT !.at = "ofTask"]
    OBVIOUS
  <2>3. x.at = "ofTask" /\ x.task = y.task /\ x.ends = "open"
    BY <1>1, <2>1, <2>2 DEF Call
  <2>4. Goes(p, x) /\ unasked' = unasked \ {y.task}
        /\ \A u \in Tasks \ {y.task} : tasks'[u] = tasks[u]
    BY <1>1, <1>4, <2>1, <2>2 DEF DropTask, IInv, TypeOK
  <2> QED
    BY <1>2, <2>1, <2>3, <2>4, SettlingAsks
<1>5. ASSUME NEW t \in Tasks, CancelTask(p, t) PROVE Settling'
  <2>1. y.at = "cancel" /\ (y.ends = "open" \/ y.cascades)
    BY <1>1, <1>5 DEF CancelTask, At, Fits
  <2>2. PICK x : x = [y EXCEPT !.at = "ofTask", !.task = t, !.todo = y.todo \ {t}]
    OBVIOUS
  <2>3. x.at = "ofTask" /\ x.task = t /\ x.ends = y.ends /\ x.cascades = y.cascades
    BY <1>1, <2>2 DEF Call
  <2>4. Goes(p, x) /\ unasked' = unasked \ {t} /\ \A u \in Tasks \ {t} : tasks'[u] = tasks[u]
    BY <1>1, <1>5, <2>2 DEF CancelTask, Goes, IInv, TypeOK
  <2> QED
    BY <1>2, <2>1, <2>3, <2>4, SettlingAsks
<1> QED
  BY <1>3, <1>4, <1>5
\* The steps of a check: what it has found of a settled case is that it is.
LEMMA ChecksSettle ==
  ASSUME IInv, Settling, NEW p \in Procs,
         CaseOfTask(p) \/ CaseLinks(p) \/ (\E t \in Tasks : ReadTask(p, t)) \/ CloseCase(p)
  PROVE Settling'
<1>1. PICK y : y = call[p] /\ y \in Call /\ Fits(y)
  BY CallOf
<1>2. ASSUME NEW x, Goes(p, x), UNCHANGED <<cases, tasks, link, unasked>>,
             \A c \in Cases : Ready(c) /\ Checks(p, c) =>
               /\ x.ends = "open" \/ x.cascades
               /\ \/ x.at = "links" /\ x.case = c
                  \/ /\ x.at = "read" /\ x.case = c /\ ~x.open
                     /\ x.live \/ x.left \cap LiveTasks(c) # {}
      PROVE Settling'
  <2>1. call'[p] = x
    BY <1>2 DEF Goes, IInv, TypeOK
  <2>2. \A c \in Cases : LiveTasks(c)' = LiveTasks(c)
    BY <1>2 DEF LiveTasks, Live
  <2>3. \A c \in Cases : Ready(c) /\ Checks(p, c) => Checks(p, c)'
    BY <1>2, <2>1, <2>2 DEF Checks, Asks, Asked, At
  <2> QED
    BY <1>2, <2>3, SettlingQuiet
<1>3. CASE CaseOfTask(p)
  <2>1. y.at = "ofTask" /\ y.task \in Tasks /\ UNCHANGED <<cases, tasks, link, unasked>>
    BY <1>1, <1>3 DEF CaseOfTask, At, Fits, tables, history
  <2>2. \A c \in Cases : Checks(p, c) => link[y.task] = c /\ (y.ends = "open" \/ y.cascades)
    BY <1>1, <2>1 DEF Checks, Asks, Asked, At
  <2>3. PICK d : d = link[y.task]
    OBVIOUS
  <2>4. CASE d = NoCase /\ AfterSettle(p)
    BY <1>2, <2>1, <2>2, <2>3, <2>4, NotIds DEF AfterSettle, Return
  <2>5. CASE Goes(p, [y EXCEPT !.at = "links", !.case = d])
    <3>1. PICK x : x = [y EXCEPT !.at = "links", !.case = d]
      OBVIOUS
    <3>2. x.at = "links" /\ x.case = d /\ x.ends = y.ends /\ x.cascades = y.cascades
      BY <1>1, <3>1 DEF Call
    <3> QED
      BY <1>2, <2>1, <2>2, <2>3, <2>5, <3>1, <3>2
  <2> QED
    BY <1>1, <1>3, <2>3, <2>4, <2>5 DEF CaseOfTask
<1>4. CASE CaseLinks(p)
  <2>1. y.at = "links" /\ UNCHANGED <<cases, tasks, link, unasked>>
    BY <1>1, <1>4 DEF CaseLinks, At, tables, history
  <2>2. \A c \in Cases : Checks(p, c) => y.case = c /\ (y.ends = "open" \/ y.cascades)
    BY <1>1, <2>1 DEF Checks, Asks, Asked, At
  <2>3. PICK L : L = {t \in Tasks : link[t] = y.case}
    OBVIOUS
  <2>4. PICK x : x = [y EXCEPT !.at = "read", !.left = L, !.live = FALSE, !.open = FALSE]
    OBVIOUS
  <2>5. /\ x.at = "read" /\ x.case = y.case /\ x.ends = y.ends /\ x.cascades = y.cascades
        /\ x.left = L /\ ~x.open
    BY <1>1, <2>4 DEF Call
  <2>6. \A c \in Cases : Ready(c) /\ y.case = c => L \cap LiveTasks(c) # {}
    BY <2>3 DEF Ready, LiveTasks
  <2>7. Goes(p, x)
    BY <1>1, <1>4, <2>3, <2>4 DEF CaseLinks
  <2> QED
    BY <1>2, <2>1, <2>2, <2>5, <2>6, <2>7
<1>5. ASSUME NEW t \in Tasks, ReadTask(p, t) PROVE Settling'
  <2>1. y.at = "read" /\ t \in y.left /\ UNCHANGED <<cases, tasks, link, unasked>>
    BY <1>1, <1>5 DEF ReadTask, At, tables, history
  <2>2. PICK x \in Call : Goes(p, x) /\ Reads(y, x, t)
    BY <1>1, <1>5, ReadIs
  <2>3. ASSUME NEW c \in Cases, Ready(c), Checks(p, c)
        PROVE /\ x.ends = "open" \/ x.cascades
              /\ x.at = "read" /\ x.case = c /\ ~x.open
              /\ x.live \/ x.left \cap LiveTasks(c) # {}
    <3>1. /\ y.case = c /\ ~y.open /\ (y.ends = "open" \/ y.cascades)
          /\ y.live \/ y.left \cap LiveTasks(c) # {}
      BY <1>1, <2>1, <2>3 DEF Checks, Asks, Asked, At
    <3>2. link[t] = c
      BY <1>1, <2>1, <3>1 DEF Fits
    <3>3. Live(t) => t \in LiveTasks(c) /\ tasks[t].status \in Settled
      BY <2>3, <3>2 DEF LiveTasks, Ready, AllSettled
    <3>4. ~Live(t) => t \notin LiveTasks(c)
      BY DEF LiveTasks
    <3> QED
      BY <2>2, <3>1, <3>3, <3>4 DEF Reads
  <2> QED
    BY <1>2, <2>1, <2>2, <2>3
<1>6. CASE CloseCase(p)
  <2>1. y.at = "read" /\ y.left = {} /\ y.case \in Cases /\ UNCHANGED <<tasks, link, unasked>>
    BY <1>1, <1>6 DEF CloseCase, HasRead, At, Fits, history
  <2>2. \E x : Goes(p, x)
    BY <1>6 DEF CloseCase, AfterSettle, Return
  <2>3. \A c \in Cases : cases'[c].status = "open" => cases[c].status = "open"
    BY <1>1, <1>6, <2>1 DEF CloseCase, IInv, TypeOK
  <2>4. ASSUME NEW c \in Cases, Ready(c), Checks(p, c) PROVE cases'[c].status # "open"
    <3>1. y.case = c /\ ~y.open /\ y.live
      BY <1>1, <2>1, <2>4 DEF Checks, At
    <3>2. cases' = [cases EXCEPT ![c].status = "done"]
      BY <1>1, <1>6, <2>4, <3>1 DEF CloseCase, Ready
    <3>3. cases[c] \in CaseRow
      BY DEF IInv, TypeOK
    <3> QED
      BY <3>2, <3>3 DEF CaseRow, IInv, TypeOK
  <2> QED
    BY <2>1, <2>2, <2>3, <2>4, SettlingQuiet
<1> QED
  BY <1>3, <1>4, <1>5, <1>6

LEMMA StepSettles ==
  ASSUME IInv, Settling, NEW p \in Procs, Step(p)
  PROVE Settling'
<1>1. PICK y : y = call[p] /\ y \in Call /\ Fits(y)
  BY CallOf
<1>2. ASSUME NEW x, Goes(p, x), UNCHANGED <<tasks, link, unasked>>, ~Asks(p),
             \A c \in Cases : cases'[c].status = "open" => cases[c].status = "open"
      PROVE Settling'
  BY <1>2, SettlingQuiet DEF Checks
<1>3. CASE CheckTask(p) \/ CascadeDone(p) \/ LookForVote(p) \/ InsertVote(p) \/ DeleteVote(p)
  <2>1. UNCHANGED <<cases, tasks, link, unasked>> /\ \E x : Goes(p, x)
    BY <1>3 DEF CheckTask, CascadeDone, LookForVote, InsertVote, DeleteVote, Return, tables, history
  <2>2. ~Asks(p)
    BY <1>3 DEF CheckTask, CascadeDone, LookForVote, InsertVote, DeleteVote, At, Asks
  <2> QED
    BY <1>2, <2>1, <2>2
<1>4. CASE MoveCase(p)
  <2>1. UNCHANGED <<tasks, link, unasked>> /\ ~Asks(p) /\ \E x : Goes(p, x)
    BY <1>4 DEF MoveCase, Return, Asks, history
  <2>2. \A c \in Cases : cases'[c].status = "open" => cases[c].status = "open"
    <3>1. y.case \in Cases /\ y.ends \in Ended
      BY <1>1, <1>4 DEF MoveCase, HasRead, Asked, At, Fits, Call, Ended
    <3>2. ASSUME cases' = [cases EXCEPT ![y.case].status = y.ends]
          PROVE cases'[y.case].status = y.ends
                /\ \A d \in Cases \ {y.case} : cases'[d] = cases[d]
      <4>1. cases[y.case] \in CaseRow
        BY <3>1 DEF IInv, TypeOK
      <4> QED
        BY <3>1, <3>2, <4>1 DEF CaseRow, IInv, TypeOK
    <3>3. UNCHANGED cases \/ cases' = [cases EXCEPT ![y.case].status = y.ends]
      BY <1>1, <1>4 DEF MoveCase
    <3> QED
      BY <3>1, <3>2, <3>3 DEF Ended
  <2> QED
    BY <1>2, <2>1, <2>2
<1> QED
  BY <1>3, <1>4, InsertLinkSettles, WritesSettle, ChecksSettle DEF Step

LEMMA CrashSettles ==
  ASSUME IInv, Settling, Crash
  PROVE Settling'
<1>1. /\ UNCHANGED <<cases, tasks, link>> /\ unasked \subseteq unasked'
      /\ \A p \in Procs : Asks(p) => call[p].task \in unasked'
  BY DEF Crash, tables
<1>2. ASSUME NEW p \in Procs, NEW c \in Cases, Checks(p, c)
      PROVE call[p].task \in unasked' /\ link[call[p].task] = c
  BY <1>1, <1>2, CallOf DEF Checks, Asks, Asked, At, Fits
<1> SUFFICES ASSUME NEW c \in Cases, Ready(c)' PROVE \E t \in unasked' : link[t] = c
  BY <1>1 DEF Settling, Ready
<1>3. Ready(c)
  BY <1>1 DEF Ready, LiveTasks, AllSettled, Live
<1> QED
  BY <1>1, <1>2, <1>3 DEF Settling, Ready

LEMMA NextSettles == IInv /\ LinksOfCases /\ Settling /\ [Next]_vars => Settling'
<1> SUFFICES ASSUME IInv, LinksOfCases, Settling, [Next]_vars PROVE Settling'
  OBVIOUS
<1>1. CASE UNCHANGED vars
  BY <1>1 DEF vars, Settling, LiveTasks, AllSettled, Live, Checks, Asks, Asked, At
<1> QED
  BY <1>1, BeginSettles, StepSettles, CrashSettles DEF Next

\* "When every task linked to that task's case is completed or cancelled, the
\* case moves to done" (closeCaseIfSettled), and a case that ended is told:
\* whichever calls race to settle, delete, link and end, and wherever a crash
\* falls, no case is left open or untold but for the exceptions the property
\* names.
THEOREM NoCaseLeftOpen == Spec => []NothingLeftOpen
<1>1. Init => LinksOfCases /\ Settling /\ EndIsTold
  BY NoCallType DEF Init, LinksOfCases, Settling, EndIsTold, Ended, NoCall
<1>2. IInv /\ LinksOfCases /\ [Next]_vars => LinksOfCases'
  BY LinksKept
<1>3. IInv /\ LinksOfCases /\ Settling /\ [Next]_vars => Settling'
  BY NextSettles
<1>4. IInv /\ EndIsTold /\ [Next]_vars => EndIsTold'
  BY NextTells
<1>5. Settling => SettledCaseIsClosed
  BY DEF Settling, SettledCaseIsClosed, Idle, Checks, Asks, At
<1>6. EndIsTold /\ SettledCaseIsClosed => NothingLeftOpen
  BY DEF NothingLeftOpen
<1> QED
  BY <1>1, <1>2, <1>3, <1>4, <1>5, <1>6, Invariant, PTL DEF Spec
-----------------------------------------------------------------------------
(* Votes *)

\* "Voting again changes nothing and the first cast_by stands": whoever casts
\* the same member's vote at once, the vote that is stored is the first (VoteCase,
\* recordVote), until it is taken back.
THEOREM VotesStand == Spec => FirstVoteStands
<1>1. ASSUME IInv, [Next]_vars
      PROVE [\A c \in Cases, m \in Members :
               votes[c][m] # Nobody => votes'[c][m] \in {votes[c][m], Nobody}]_votes
  <2>1. ASSUME NEW p \in Procs, InsertVote(p) \/ DeleteVote(p)
        PROVE \A c \in Cases, m \in Members :
                votes[c][m] # Nobody => votes'[c][m] \in {votes[c][m], Nobody}
    <3>1. /\ call[p].case \in Cases /\ call[p].member \in Members
          /\ votes \in [Cases -> [Members -> Members \cup {Nobody}]]
      BY <1>1, <2>1, CallOf DEF InsertVote, DeleteVote, At, Fits, IInv, TypeOK
    <3>2. PICK b : /\ votes' = [votes EXCEPT ![call[p].case][call[p].member] = b]
                   /\ votes[call[p].case][call[p].member] # Nobody =>
                        b \in {votes[call[p].case][call[p].member], Nobody}
      BY <2>1, <3>1 DEF InsertVote, DeleteVote
    <3> QED
      BY <3>1, <3>2
  <2>2. ASSUME NEW p \in Procs, Begin(p) PROVE UNCHANGED votes
    BY <2>2 DEF Begin, OpenCase, ResetTask, LinkCaseTask, UpdateTask, DeleteTask, Cascade,
                EndCase, VoteCase, TakeBackVote, Start, tables
  <2>3. ASSUME NEW p \in Procs, Step(p), ~InsertVote(p), ~DeleteVote(p) PROVE UNCHANGED votes
    BY <2>3 DEF Step, CheckTask, InsertLink, WriteTask, DropTask, CancelTask, CaseOfTask,
                CaseLinks, ReadTask, CloseCase, MoveCase, CascadeDone, LookForVote, tables
  <2>4. Crash \/ UNCHANGED vars => UNCHANGED votes
    BY DEF Crash, tables, vars
  <2> QED
    BY <1>1, <2>1, <2>2, <2>3, <2>4 DEF Next
<1> QED
  BY <1>1, Invariant, PTL DEF Spec, FirstVoteStands
-----------------------------------------------------------------------------
(* Calls that do not overlap leave no task of an ended case open *)

\* p is the only caller with a call under way.
Alone(p) == \A q \in Procs \ {p} : Idle(q)

LEMMA NoCallSteady ==
  ASSUME NEW q, call'[q] = NoCall
  PROVE Steady(q)' /\ \A c : ~Owes(q, c)'
BY DEF NoCall, Steady, Owes, At

\* A call of p that keeps what it owes, and a step that opens no task of a case
\* that has ended.
LEMMA SteadyStep ==
  ASSUME IInv, Undisturbed, NEW p \in Procs, Alone(p), NEW x, Goes(p, x), Steady(p)',
         UNCHANGED untold,
         \A c \in Cases : cases'[c].status \in Ended =>
           \/ cases[c].status \in Ended /\ Unsettled(c)' \subseteq Unsettled(c)
           \/ Unsettled(c)' = {}
           \/ Owes(p, c)',
         \A c \in Cases : Owes(p, c) => Owes(p, c)' \/ Unsettled(c)' = {}
  PROVE Undisturbed'
<1>1. \A q \in Procs \ {p} : call[q] = NoCall /\ call'[q] = NoCall
  BY CallOf DEF Alone, Idle, At, Fits, Goes, IInv, TypeOK
<1>2. \A q \in Procs : Steady(q)'
  BY <1>1, NoCallSteady
<1>3. \A q \in Procs \ {p} : \A c : ~Owes(q, c)
  BY <1>1 DEF NoCall, Owes
<1>4. ASSUME NEW c \in Cases, cases'[c].status \in Ended, c \notin untold', ~Owes(p, c)'
      PROVE Unsettled(c)' = {}
  <2>1. CASE Unsettled(c)' = {}
    BY <2>1
  <2>2. CASE Unsettled(c)' # {}
    <3>1. cases[c].status \in Ended /\ Unsettled(c)' \subseteq Unsettled(c) /\ ~Owes(p, c)
      BY <1>4, <2>2
    <3>2. AllSettled(c)
      BY <1>3, <1>4, <3>1 DEF Undisturbed, EndedHasNoOpenTask
    <3> QED
      BY <3>1, <3>2 DEF AllSettled, Unsettled
  <2> QED
    BY <2>1, <2>2
<1>5. EndedHasNoOpenTask'
  BY <1>4 DEF EndedHasNoOpenTask, AllSettled, Unsettled
<1> QED
  BY <1>2, <1>5 DEF Undisturbed

\* A statement that writes no table, of a call that keeps what it owes.
LEMMA SteadyRead ==
  ASSUME IInv, Undisturbed, NEW p \in Procs, Alone(p), NEW x, Goes(p, x), Steady(p)',
         UNCHANGED <<cases, tasks, link, untold>>,
         call[p].ends # "open" /\ call[p].cascades =>
           x.ends = call[p].ends /\ x.cascades /\ x.case = call[p].case
  PROVE Undisturbed'
<1>1. \A c \in Cases : Unsettled(c)' = Unsettled(c)
  BY DEF Unsettled, LiveTasks, Live
<1>2. call'[p] = x
  BY DEF Goes, IInv, TypeOK
<1>3. \A c \in Cases : Owes(p, c) => Owes(p, c)'
  BY <1>2 DEF Owes
<1> QED
  BY <1>1, <1>3, SteadyStep

\* A call that owes nothing, at a statement that uses nothing it read.
LEMMA PlainSteady ==
  ASSUME NEW p, call'[p].ends = "open" \/ ~call'[p].cascades,
         call'[p].at \notin {"check", "insert", "write", "read"}
  PROVE Steady(p)'
BY DEF Steady, Owes, At

LEMMA BeginSteady ==
  ASSUME IInv, Undisturbed, NEW p \in Procs, Alone(p), Begin(p),
         \A t \in Tasks : tasks'[t].status = "pending" => tasks[t].status = "pending"
  PROVE Undisturbed'
<1>1. ASSUME NEW x, Start(p, x), x.ends = "open" \/ ~x.cascades, Steady(p)'
      PROVE Undisturbed'
  <2>1. call[p].ends = "open"
    BY <1>1, CallOf DEF Start, Idle, At, Fits, NoCall
  <2> QED
    BY <1>1, <2>1, SteadyRead DEF Start, tables, history
<1>2. ASSUME NEW x, Start(p, x), x.ends = "open" \/ ~x.cascades,
             x.at \notin {"check", "insert", "write", "read"}
      PROVE Undisturbed'
  <2>1. call'[p] = x
    BY <1>2 DEF Start, Goes, IInv, TypeOK
  <2> QED
    BY <1>1, <1>2, <2>1, PlainSteady
<1>3. ASSUME UNCHANGED <<tasks, link, untold, call>>, Idle(p),
             \A c \in Cases : cases'[c].status \in Ended => cases'[c] = cases[c]
      PROVE Undisturbed'
  <2>1. Goes(p, NoCall) /\ call'[p] = NoCall
    BY <1>3, CallOf DEF Idle, At, Fits, Goes, IInv, TypeOK
  <2>2. \A c \in Cases : Unsettled(c)' = Unsettled(c)
    BY <1>3 DEF Unsettled, LiveTasks, Live
  <2>3. \A c : ~Owes(p, c)
    BY <1>3, <2>1 DEF NoCall, Owes
  <2> QED
    BY <1>3, <2>1, <2>2, <2>3, NoCallSteady, SteadyStep
<1>4. ASSUME NEW c \in Cases, NEW m \in Members, OpenCase(p, c, m) PROVE Undisturbed'
  <2>1. \A d \in Cases : cases'[d].status \in Ended => cases'[d] = cases[d]
    BY <1>4 DEF OpenCase, Ended, IInv, TypeOK
  <2> QED
    BY <1>3, <1>4, <2>1 DEF OpenCase, history
<1>5. ASSUME NEW c \in Cases, NEW t \in Tasks, LinkCaseTask(p, c, t) PROVE Undisturbed'
  <2>1. PICK x : x = [NoCall EXCEPT !.at = "check", !.case = c, !.task = t]
    OBVIOUS
  <2>2. x.at = "check" /\ x.case = c /\ x.ends = "open"
    BY <2>1 DEF NoCall
  <2>3. Start(p, x) /\ cases'[c].status = "open" /\ call'[p] = x
    BY <1>5, <2>1 DEF LinkCaseTask, Start, Goes, tables, IInv, TypeOK
  <2>4. Steady(p)'
    BY <2>2, <2>3 DEF Steady, Owes, At
  <2> QED
    BY <1>1, <2>2, <2>3, <2>4
<1>6. ASSUME NEW t \in Tasks, NEW s \in Moves, UpdateTask(p, t, s) PROVE Undisturbed'
  <2>1. PICK x : x = [NoCall EXCEPT !.at = "write", !.task = t, !.was = tasks[t].status, !.to = s]
    OBVIOUS
  <2>2. /\ x.at = "write" /\ x.task = t /\ x.was = tasks[t].status /\ x.to = s
        /\ x.ends = "open"
    BY <2>1 DEF NoCall
  <2>3. /\ Start(p, x) /\ tasks' = tasks /\ call'[p] = x
        /\ s \in TaskNext[tasks[t].status] \cup {tasks[t].status}
    BY <1>6, <2>1 DEF UpdateTask, Start, Goes, tables, IInv, TypeOK
  <2>4. Steady(p)'
    BY <2>2, <2>3 DEF Steady, Owes, At
  <2> QED
    BY <1>1, <2>2, <2>3, <2>4
<1>7. ASSUME NEW t \in Tasks, DeleteTask(p, t) PROVE Undisturbed'
  <2>1. PICK x : x = [NoCall EXCEPT !.at = "drop", !.task = t]
    OBVIOUS
  <2>2. x.at = "drop" /\ x.ends = "open"
    BY <2>1 DEF NoCall
  <2> QED
    BY <1>2, <1>7, <2>1, <2>2 DEF DeleteTask
<1>8. ASSUME NEW S \in SUBSET Tasks, Cascade(p, S) PROVE Undisturbed'
  <2>1. PICK x : x = [NoCall EXCEPT !.at = "cancel", !.todo = S, !.cascades = TRUE]
    OBVIOUS
  <2>2. x.at = "cancel" /\ x.ends = "open"
    BY <2>1 DEF NoCall
  <2> QED
    BY <1>2, <1>8, <2>1, <2>2 DEF Cascade
<1>9. ASSUME NEW t \in Tasks, ResetTask(p, t) PROVE Undisturbed'
  <2>1. tasks \in [Tasks -> TaskRow] /\ tasks[t] \in TaskRow
    BY DEF IInv, TypeOK
  <2>2. tasks' = [tasks EXCEPT ![t].status = "pending"]
    BY <1>9 DEF ResetTask
  <2>3. tasks'[t].status = "pending"
    BY <2>1, <2>2 DEF TaskRow
  <2>4. [tasks[t] EXCEPT !.status = "pending"] = tasks[t]
    BY <2>1, <2>3 DEF TaskRow
  <2>5. tasks' = tasks
    BY <2>1, <2>2, <2>4
  <2> QED
    BY <1>3, <1>9, <2>5 DEF ResetTask, history
<1>10. ASSUME NEW c \in Cases, NEW s \in Ended, EndCase(p, c, s) PROVE Undisturbed'
  <2>1. PICK x : x = [NoCall EXCEPT !.at = "links", !.case = c, !.ends = s]
    OBVIOUS
  <2>2. x.at = "links" /\ ~x.cascades
    BY <2>1 DEF NoCall
  <2> QED
    BY <1>2, <1>10, <2>1, <2>2 DEF EndCase
<1>11. ASSUME NEW c \in Cases, NEW m \in Members, NEW b \in Members, VoteCase(p, c, m, b)
       PROVE Undisturbed'
  <2>1. PICK x : x = [NoCall EXCEPT !.at = "look", !.case = c, !.member = m, !.by = b]
    OBVIOUS
  <2>2. x.at = "look" /\ x.ends = "open"
    BY <2>1 DEF NoCall
  <2> QED
    BY <1>2, <1>11, <2>1, <2>2 DEF VoteCase
<1>12. ASSUME NEW c \in Cases, NEW m \in Members, TakeBackVote(p, c, m) PROVE Undisturbed'
  <2>1. PICK x : x = [NoCall EXCEPT !.at = "takeBack", !.case = c, !.member = m]
    OBVIOUS
  <2>2. x.at = "takeBack" /\ x.ends = "open"
    BY <2>1 DEF NoCall
  <2> QED
    BY <1>2, <1>12, <2>1, <2>2 DEF TakeBackVote
<1> QED
  BY <1>4, <1>5, <1>6, <1>7, <1>8, <1>9, <1>10, <1>11, <1>12 DEF Begin

\* A statement after which p uses nothing it read, but for what it owes.
LEMMA OweSteady ==
  ASSUME Undisturbed, NEW p \in Procs, NEW x, call'[p] = x, UNCHANGED <<tasks, link>>,
         x.at \notin {"check", "insert", "write", "read"},
         x.ends # "open" /\ x.cascades =>
           /\ x.ends = call[p].ends /\ call[p].cascades /\ x.case = call[p].case
           /\ call[p].todo \subseteq x.todo
  PROVE Steady(p)'
<1>1. \A c : Unsettled(c)' = Unsettled(c)
  BY DEF Unsettled, LiveTasks, Live
<1>2. \A c \in Cases : Owes(p, c)' => Owes(p, c) /\ call[p].todo \subseteq x.todo
  BY DEF Owes
<1>3. \A c \in Cases : Owes(p, c) => Unsettled(c) \subseteq call[p].todo
  BY DEF Undisturbed, Steady
<1>4. \A c \in Cases : Owes(p, c)' => Unsettled(c)' \subseteq call'[p].todo
  BY <1>1, <1>2, <1>3
<1> QED
  BY <1>4 DEF Steady, At

\* A task that is not settled can be cancelled; a settled one moves nowhere.
LEMMA Settles ==
  \A s \in TaskStatus : IF s \in Settled THEN TaskNext[s] = {} ELSE "cancelled" \in TaskNext[s]
BY DEF TaskStatus, TaskNext, Settled

LEMMA WritesSteady ==
  ASSUME IInv, Undisturbed, NEW p \in Procs, Alone(p),
         WriteTask(p) \/ DropTask(p) \/ InsertLink(p)
  PROVE Undisturbed'
<1>1. PICK y : y = call[p] /\ y \in Call /\ Fits(y)
  BY CallOf
<1>2. /\ y.at \in {"write", "drop", "insert"} /\ y.task \in Tasks /\ y.ends = "open"
      /\ UNCHANGED <<cases, untold>>
  BY <1>1 DEF WriteTask, DropTask, InsertLink, At, Fits
<1>3. \A c : ~Owes(p, c)
  BY <1>1, <1>2 DEF Owes
<1>4. PICK x : /\ Goes(p, x) /\ x.ends = "open" /\ x.at \in {"idle", "ofTask"}
  <2>1. CASE DropTask(p)
    <3>1. PICK x : x = [y EXCEPT !.at = "ofTask"]
      OBVIOUS
    <3>2. x.at = "ofTask" /\ x.ends = "open"
      BY <1>1, <1>2, <3>1 DEF Call
    <3> QED
      BY <1>1, <2>1, <3>1, <3>2 DEF DropTask
  <2>2. CASE WriteTask(p) \/ InsertLink(p)
    <3>1. \A t : /\ [NoCall EXCEPT !.at = "ofTask", !.task = t].at = "ofTask"
                 /\ [NoCall EXCEPT !.at = "ofTask", !.task = t].ends = "open"
      BY DEF NoCall
    <3>2. NoCall.at = "idle" /\ NoCall.ends = "open"
      BY DEF NoCall
    <3> QED
      BY <2>2, <3>1, <3>2 DEF WriteTask, InsertLink, Return
  <2> QED
    BY <2>1, <2>2
<1>5. call'[p] = x
  BY <1>4 DEF Goes, IInv, TypeOK
<1>6. Steady(p)'
  BY <1>4, <1>5, PlainSteady
<1>7. ASSUME \A c \in Cases : cases[c].status \in Ended => Unsettled(c)' \subseteq Unsettled(c)
      PROVE Undisturbed'
  BY <1>2, <1>3, <1>4, <1>6, <1>7, SteadyStep
<1>8. tasks[y.task] \in TaskRow
  BY <1>2 DEF IInv, TypeOK
<1>9. CASE InsertLink(p)
  <2>1. y.at = "insert" /\ y.case \in Cases /\ UNCHANGED tasks
    BY <1>1, <1>9 DEF InsertLink, At, Fits
  <2>2. cases[y.case].status = "open"
    BY <1>1, <2>1 DEF Undisturbed, Steady
  <2>3. \A t \in Tasks : link'[t] = link[t] \/ link'[t] = y.case
    BY <1>1, <1>2, <1>9 DEF InsertLink, IInv, TypeOK
  <2>4. ASSUME NEW c \in Cases, cases[c].status \in Ended
        PROVE Unsettled(c)' \subseteq Unsettled(c)
    <3>1. c # y.case
      BY <2>2, <2>4 DEF Ended
    <3> QED
      BY <2>1, <2>3, <3>1 DEF Unsettled, LiveTasks, Live
  <2> QED
    BY <1>7, <2>4
<1>10. ASSUME UNCHANGED link, \A t \in Tasks \ {y.task} : tasks'[t] = tasks[t],
              /\ ~tasks'[y.task].deleted /\ tasks'[y.task].status \notin Settled
                   => Live(y.task) /\ tasks[y.task].status \notin Settled
       PROVE Undisturbed'
  <2>1. \A c \in Cases : Unsettled(c)' \subseteq Unsettled(c)
    BY <1>10 DEF Unsettled, LiveTasks, Live
  <2> QED
    BY <1>7, <2>1
<1>11. CASE DropTask(p)
  <2>1. PICK r : r = [tasks[y.task] EXCEPT !.deleted = TRUE]
    OBVIOUS
  <2>2. r.deleted
    BY <1>8, <2>1 DEF TaskRow
  <2>3. /\ UNCHANGED link /\ tasks'[y.task] = r
        /\ \A t \in Tasks \ {y.task} : tasks'[t] = tasks[t]
    BY <1>1, <1>2, <1>11, <2>1 DEF DropTask, IInv, TypeOK
  <2> QED
    BY <1>10, <2>2, <2>3
<1>12. CASE WriteTask(p)
  <2>1. UNCHANGED link
    BY <1>12 DEF WriteTask
  <2>2. CASE ~Live(y.task)
    <3>1. UNCHANGED tasks
      BY <1>1, <1>12, <2>2 DEF WriteTask
    <3> QED
      BY <1>10, <2>1, <3>1 DEF Live
  <2>3. CASE Live(y.task)
    <3>1. tasks' = [tasks EXCEPT ![y.task].status = y.to] /\ y.at = "write"
      BY <1>1, <1>12, <2>3 DEF WriteTask, At
    <3>2. PICK r : r = [tasks[y.task] EXCEPT !.status = y.to]
      OBVIOUS
    <3>3. r.status = y.to
      BY <1>8, <3>2 DEF TaskRow
    <3>4. tasks'[y.task] = r /\ \A t \in Tasks \ {y.task} : tasks'[t] = tasks[t]
      BY <1>2, <3>1, <3>2 DEF IInv, TypeOK
    <3>5. y.was = tasks[y.task].status /\ y.to \in TaskNext[y.was] \cup {y.was}
      BY <1>1, <3>1 DEF Undisturbed, Steady, At
    <3>6. tasks[y.task].status \in TaskStatus
      BY <1>8 DEF TaskRow
    <3>7. y.to \notin Settled => tasks[y.task].status \notin Settled
      BY <3>5, <3>6, Settles
    <3> QED
      BY <1>10, <2>1, <2>3, <3>3, <3>4, <3>7
  <2> QED
    BY <2>2, <2>3
<1> QED
  BY <1>9, <1>11, <1>12

LEMMA CancelSteady ==
  ASSUME IInv, Undisturbed, NEW p \in Procs, Alone(p), NEW t \in Tasks, CancelTask(p, t)
  PROVE Undisturbed'
<1>1. PICK y : y = call[p] /\ y \in Call
  BY CallOf
<1>2. PICK x : x = [y EXCEPT !.at = "ofTask", !.task = t, !.todo = y.todo \ {t}]
  OBVIOUS
<1>3. /\ x.at = "ofTask" /\ x.ends = y.ends /\ x.cascades = y.cascades /\ x.case = y.case
      /\ x.todo = y.todo \ {t}
  BY <1>1, <1>2 DEF Call
<1>4. Goes(p, x) /\ call'[p] = x /\ UNCHANGED <<cases, link, untold>>
  BY <1>1, <1>2 DEF CancelTask, Goes, IInv, TypeOK
<1>5. tasks'[t].status = "cancelled" /\ \A u \in Tasks \ {t} : tasks'[u] = tasks[u]
  BY DEF CancelTask, IInv, TypeOK
<1>6. \A c \in Cases : Unsettled(c)' \subseteq Unsettled(c) \ {t}
  BY <1>4, <1>5 DEF Unsettled, LiveTasks, Live, Settled
<1>7. \A c \in Cases : (Owes(p, c) <=> Owes(p, c)')
  BY <1>1, <1>3, <1>4 DEF Owes
<1>8. \A c \in Cases : Owes(p, c) => Unsettled(c) \subseteq y.todo
  BY <1>1 DEF Undisturbed, Steady
<1>9. Steady(p)'
  BY <1>3, <1>4, <1>6, <1>7, <1>8 DEF Steady, At
<1> QED
  BY <1>4, <1>6, <1>7, <1>9, SteadyStep

\* The reads of a check, and the statements that only go on.
LEMMA ReadsSteady ==
  ASSUME IInv, Undisturbed, NEW p \in Procs, Alone(p),
         \/ CheckTask(p) \/ CaseOfTask(p) \/ CaseLinks(p) \/ (\E t \in Tasks : ReadTask(p, t))
         \/ LookForVote(p) \/ InsertVote(p) \/ DeleteVote(p)
  PROVE Undisturbed'
<1>1. PICK y : y = call[p] /\ y \in Call /\ Fits(y)
  BY CallOf
<1>2. UNCHANGED <<cases, tasks, link, untold>>
  BY DEF CheckTask, CaseOfTask, CaseLinks, ReadTask, LookForVote, InsertVote, DeleteVote,
         tables, history
<1>3. \A x : Goes(p, x) => call'[p] = x
  BY DEF Goes, IInv, TypeOK
<1>4. ASSUME NEW x, Goes(p, x), x.at \notin {"check", "insert", "write", "read"},
             y.ends # "open" /\ y.cascades =>
               x.ends = y.ends /\ x.cascades /\ x.case = y.case,
             x.ends # "open" /\ x.cascades =>
               x.ends = y.ends /\ y.cascades /\ x.case = y.case /\ y.todo \subseteq x.todo
      PROVE Undisturbed'
  <2>1. Steady(p)'
    BY <1>1, <1>2, <1>3, <1>4, OweSteady
  <2> QED
    BY <1>1, <1>2, <1>4, <2>1, SteadyRead
<1>5. NoCall.at = "idle" /\ NoCall.ends = "open"
  BY DEF NoCall
<1>6. CASE Return(p) /\ (y.ends = "open" \/ ~y.cascades)
  BY <1>4, <1>5, <1>6 DEF Return
<1>7. CASE CheckTask(p)
  <2>1. y.at = "check" /\ y.ends = "open" /\ cases[y.case].status = "open"
    BY <1>1, <1>7 DEF CheckTask, At, Fits, Undisturbed, Steady
  <2>2. CASE Goes(p, [y EXCEPT !.at = "insert"])
    <3>1. PICK x : x = [y EXCEPT !.at = "insert"]
      OBVIOUS
    <3>2. x.at = "insert" /\ x.ends = "open" /\ x.case = y.case
      BY <1>1, <2>1, <3>1 DEF Call
    <3>3. Goes(p, x) /\ call'[p] = x
      BY <1>3, <2>2, <3>1
    <3>4. Steady(p)'
      BY <1>2, <2>1, <3>2, <3>3 DEF Steady, Owes, At
    <3> QED
      BY <1>1, <1>2, <2>1, <3>3, <3>4, SteadyRead
  <2> QED
    BY <1>1, <1>6, <1>7, <2>1, <2>2 DEF CheckTask
<1>8. CASE CaseOfTask(p)
  <2>1. y.at = "ofTask"
    BY <1>1, <1>8 DEF CaseOfTask, At
  <2>2. PICK d : d = link[y.task]
    OBVIOUS
  <2>3. y.ends # "open" => y.case = d /\ y.cascades /\ d # NoCase
    BY <1>1, <2>1, <2>2, NotIds DEF Fits
  <2>4. CASE d = NoCase /\ AfterSettle(p)
    <3>1. y.ends = "open"
      BY <2>3, <2>4
    <3>2. CASE Goes(p, [y EXCEPT !.at = "cancel"])
      <4>1. PICK x : x = [y EXCEPT !.at = "cancel"]
        OBVIOUS
      <4>2. x.at = "cancel" /\ x.ends = y.ends
        BY <1>1, <4>1 DEF Call
      <4> QED
        BY <1>4, <3>1, <3>2, <4>1, <4>2
    <3> QED
      BY <1>1, <1>6, <2>4, <3>1, <3>2 DEF AfterSettle
  <2>5. CASE Goes(p, [y EXCEPT !.at = "links", !.case = d])
    <3>1. PICK x : x = [y EXCEPT !.at = "links", !.case = d]
      OBVIOUS
    <3>2. /\ x.at = "links" /\ x.case = d /\ x.ends = y.ends /\ x.cascades = y.cascades
          /\ x.todo = y.todo
      BY <1>1, <3>1 DEF Call
    <3>3. Goes(p, x)
      BY <2>5, <3>1
    <3> QED
      BY <1>4, <2>3, <3>2, <3>3
  <2> QED
    BY <1>1, <1>8, <2>2, <2>4, <2>5 DEF CaseOfTask
<1>9. CASE CaseLinks(p)
  <2>1. PICK L : L = {t \in Tasks : link[t] = y.case}
    OBVIOUS
  <2>2. PICK x : x = [y EXCEPT !.at = "read", !.left = L, !.live = FALSE, !.open = FALSE]
    OBVIOUS
  <2>3. /\ x.at = "read" /\ x.case = y.case /\ x.ends = y.ends /\ x.cascades = y.cascades
        /\ x.left = L /\ x.todo = y.todo
    BY <1>1, <2>2 DEF Call
  <2>4. Goes(p, x) /\ call'[p] = x
    BY <1>1, <1>3, <1>9, <2>1, <2>2 DEF CaseLinks
  <2>5. \A c : Unsettled(c)' = Unsettled(c)
    BY <1>2 DEF Unsettled, LiveTasks, Live
  <2>6. Unsettled(x.case)' \ x.left = {}
    BY <2>1, <2>3, <2>5 DEF Unsettled, LiveTasks
  <2>7. \A c \in Cases : Owes(p, c)' => Unsettled(c)' \subseteq x.todo
    BY <1>1, <2>3, <2>4, <2>5 DEF Undisturbed, Steady, Owes
  <2>8. Steady(p)'
    BY <2>3, <2>4, <2>6, <2>7 DEF Steady, At
  <2> QED
    BY <1>1, <1>2, <2>3, <2>4, <2>8, SteadyRead
<1>10. ASSUME NEW t \in Tasks, ReadTask(p, t) PROVE Undisturbed'
  <2>1. y.at = "read"
    BY <1>1, <1>10 DEF ReadTask, At
  <2>2. PICK x \in Call : Goes(p, x) /\ Reads(y, x, t)
    BY <1>1, <1>10, ReadIs
  <2>3. call'[p] = x
    BY <1>3, <2>2
  <2>4. \A c : Unsettled(c)' = Unsettled(c)
    BY <1>2 DEF Unsettled, LiveTasks, Live
  <2>5. y.todo \subseteq x.todo
    BY <2>2 DEF Reads
  <2>6. \A c \in Cases : Owes(p, c)' => Unsettled(c)' \subseteq x.todo
    BY <1>1, <2>2, <2>3, <2>4, <2>5 DEF Reads, Undisturbed, Steady, Owes
  <2>7. ASSUME NEW u \in Unsettled(x.case) \ x.left
        PROVE x.open /\ (x.ends = "cancelled" /\ ~x.cascades => u \in x.todo)
    <3>1. CASE u = t
      <4> t \in Unsettled(x.case)
        BY <2>7, <3>1
      <4>3. Live(t) /\ tasks[t].status \notin Settled
        BY DEF Unsettled, LiveTasks
      <4>1. Live(t) /\ tasks[t].status \notin Settled /\ tasks[t].status \in TaskStatus
        BY <4>3 DEF IInv, TypeOK, TaskRow
      <4>2. "cancelled" \in TaskNext[tasks[t].status]
        BY <4>1, Settles
      <4> QED
        BY <2>2, <3>1, <4>1, <4>2 DEF Reads
    <3>2. CASE u # t
      <4>1. u \in Unsettled(y.case) \ y.left
        BY <2>2, <2>7, <3>2 DEF Reads
      <4>2. y.open /\ (y.ends = "cancelled" /\ ~y.cascades => u \in y.todo)
        BY <1>1, <2>1, <4>1 DEF Undisturbed, Steady, At
      <4> QED
        BY <2>2, <2>5, <4>2 DEF Reads
    <3> QED
      BY <3>1, <3>2
  <2>8. x.at = "read"
    BY <2>2 DEF Reads
  <2>9. Steady(p)'
    BY <2>3, <2>4, <2>6, <2>7, <2>8 DEF Steady, At
  <2> QED
    BY <1>1, <1>2, <2>2, <2>9, SteadyRead DEF Reads
<1>11. CASE LookForVote(p)
  <2>1. y.at = "look" /\ y.ends = "open"
    BY <1>1, <1>11 DEF LookForVote, At, Fits
  <2>2. CASE Goes(p, [y EXCEPT !.at = "vote"])
    <3>1. PICK x : x = [y EXCEPT !.at = "vote"]
      OBVIOUS
    <3>2. x.at = "vote" /\ x.ends = "open"
      BY <1>1, <2>1, <3>1 DEF Call
    <3> QED
      BY <1>4, <2>1, <2>2, <3>1, <3>2
  <2> QED
    BY <1>1, <1>6, <1>11, <2>1, <2>2 DEF LookForVote
<1>12. CASE InsertVote(p) \/ DeleteVote(p)
  <2>1. y.ends = "open"
    BY <1>1, <1>12 DEF InsertVote, DeleteVote, At, Fits
  <2> QED
    BY <1>6, <1>12, <2>1 DEF InsertVote, DeleteVote
<1> QED
  BY <1>7, <1>8, <1>9, <1>10, <1>11, <1>12

\* The writes that end a case, and the end of a cascade.
LEMMA EndsSteady ==
  ASSUME IInv, Undisturbed, NEW p \in Procs, Alone(p),
         CloseCase(p) \/ MoveCase(p) \/ CascadeDone(p)
  PROVE Undisturbed'
<1>1. PICK y : y = call[p] /\ y \in Call /\ Fits(y)
  BY CallOf
<1>2. UNCHANGED <<tasks, link, untold>>
  BY DEF CloseCase, MoveCase, CascadeDone, history
<1>3. \A c : Unsettled(c)' = Unsettled(c)
  BY <1>2 DEF Unsettled, LiveTasks, Live
<1>4. \A x : Goes(p, x) => call'[p] = x
  BY DEF Goes, IInv, TypeOK
<1>5. NoCall.at = "idle" /\ NoCall.ends = "open"
  BY DEF NoCall
<1>6. y.at = "read" /\ y.left = {} =>
        \A t \in Unsettled(y.case) : y.open /\ (y.ends = "cancelled" /\ ~y.cascades => t \in y.todo)
  BY <1>1 DEF Undisturbed, Steady, At
<1>7. CASE CloseCase(p)
  <2>1. y.at = "read" /\ y.left = {} /\ y.case \in Cases /\ (y.ends = "open" \/ y.cascades)
    BY <1>1, <1>7 DEF CloseCase, HasRead, Asked, At, Fits
  <2>2. PICK x : /\ Goes(p, x) /\ x.at \in {"idle", "cancel"}
                 /\ IF y.ends # "open" /\ y.cascades
                      THEN x.ends = y.ends /\ x.cascades /\ x.case = y.case /\ x.todo = y.todo
                      ELSE x.ends = "open" \/ ~x.cascades
    <3>1. CASE ~y.cascades
      BY <1>1, <1>5, <1>7, <3>1 DEF CloseCase, AfterSettle, Return
    <3>2. CASE y.cascades
      <4>1. PICK x : x = [y EXCEPT !.at = "cancel"]
        OBVIOUS
      <4>2. /\ x.at = "cancel" /\ x.ends = y.ends /\ x.cascades = y.cascades
            /\ x.case = y.case /\ x.todo = y.todo
        BY <1>1, <4>1 DEF Call
      <4> QED
        BY <1>1, <1>7, <3>2, <4>1, <4>2 DEF CloseCase, AfterSettle
    <3> QED
      BY <3>1, <3>2
  <2>3. Steady(p)'
    BY <1>1, <1>2, <1>4, <2>2, OweSteady
  <2>4. \A c \in Cases : Owes(p, c) => Owes(p, c)'
    BY <1>1, <1>4, <2>2 DEF Owes
  <2>5. CASE UNCHANGED cases
    BY <1>3, <2>2, <2>3, <2>4, <2>5, <1>2, SteadyStep
  <2>6. CASE cases' = [cases EXCEPT ![y.case].status = "done"] /\ ~y.open
    <3>1. Unsettled(y.case) = {}
      BY <1>6, <2>1, <2>6
    <3>2. \A d \in Cases \ {y.case} : cases'[d] = cases[d]
      BY <2>1, <2>6 DEF IInv, TypeOK
    <3> QED
      BY <1>2, <1>3, <2>2, <2>3, <2>4, <3>1, <3>2, SteadyStep
  <2> QED
    BY <1>1, <1>7, <2>5, <2>6 DEF CloseCase
<1>8. CASE MoveCase(p)
  <2>1. /\ y.at = "read" /\ y.left = {} /\ y.case \in Cases /\ ~y.cascades
        /\ y.ends \in Ended
    BY <1>1, <1>8 DEF MoveCase, HasRead, Asked, At, Fits, Call, Ended
  <2>2. \A c : ~Owes(p, c)
    BY <1>1, <2>1 DEF Owes
  <2>3. CASE Return(p) /\ UNCHANGED cases
    <3>1. Goes(p, NoCall) /\ call'[p] = NoCall
      BY <1>4, <2>3 DEF Return
    <3>2. Steady(p)'
      BY <3>1, NoCallSteady
    <3> QED
      BY <1>2, <1>3, <2>2, <2>3, <3>1, <3>2, SteadyStep
  <2>4. CASE /\ ~(y.ends = "done" /\ y.open)
             /\ cases' = [cases EXCEPT ![y.case].status = y.ends]
             /\ Goes(p, [y EXCEPT !.at = "cancel", !.cascades = TRUE])
    <3>1. PICK x : x = [y EXCEPT !.at = "cancel", !.cascades = TRUE]
      OBVIOUS
    <3>2. /\ x.at = "cancel" /\ x.cascades /\ x.ends = y.ends /\ x.case = y.case
          /\ x.todo = y.todo
      BY <1>1, <3>1 DEF Call
    <3>3. Goes(p, x) /\ call'[p] = x
      BY <1>4, <2>4, <3>1
    <3>4. Unsettled(y.case) \subseteq y.todo
      BY <1>6, <2>1, <2>4 DEF Ended
    <3>5. \A c \in Cases : Owes(p, c)' <=> c = y.case
      BY <2>1, <3>2, <3>3 DEF Owes, Ended
    <3>6. Steady(p)'
      BY <1>3, <3>2, <3>3, <3>4, <3>5 DEF Steady, At
    <3>7. \A d \in Cases \ {y.case} : cases'[d] = cases[d]
      BY <2>1, <2>4 DEF IInv, TypeOK
    <3> QED
      BY <1>2, <1>3, <2>2, <3>3, <3>5, <3>6, <3>7, SteadyStep
  <2> QED
    BY <1>1, <1>8, <2>3, <2>4 DEF MoveCase
<1>9. CASE CascadeDone(p)
  <2>1. y.todo = {} /\ Goes(p, NoCall) /\ call'[p] = NoCall /\ UNCHANGED cases
    BY <1>1, <1>4, <1>9 DEF CascadeDone, Return
  <2>2. \A c \in Cases : Owes(p, c) => Unsettled(c) = {}
    BY <1>1, <2>1 DEF Undisturbed, Steady
  <2>3. Steady(p)'
    BY <2>1, NoCallSteady
  <2> QED
    BY <1>2, <1>3, <2>1, <2>2, <2>3, SteadyStep
<1> QED
  BY <1>7, <1>8, <1>9

LEMMA CrashSteady ==
  ASSUME Undisturbed, Crash
  PROVE Undisturbed'
<1>1. \A q \in Procs : Steady(q)'
  BY NoCallSteady DEF Crash
<1>2. \A c \in Cases : AllSettled(c)' <=> AllSettled(c)
  BY DEF Crash, tables, AllSettled, LiveTasks, Live
<1>3. \A c \in Cases : c \notin untold' => c \notin untold /\ ~\E q \in Procs : Owes(q, c)
  BY DEF Crash
<1>4. UNCHANGED cases
  BY DEF Crash, tables
<1>5. EndedHasNoOpenTask'
  BY <1>2, <1>3, <1>4 DEF Undisturbed, EndedHasNoOpenTask
<1> QED
  BY <1>1, <1>5 DEF Undisturbed

\* Undisturbed holds as long as no call begins while another is under way.
LEMMA AloneSteady ==
  ASSUME IInv, Undisturbed, NEW p \in Procs, Alone(p), Begin(p) \/ Step(p),
         Begin(p) => \A t \in Tasks : tasks'[t].status = "pending" => tasks[t].status = "pending"
  PROVE Undisturbed'
BY BeginSteady, WritesSteady, CancelSteady, ReadsSteady, EndsSteady DEF Step

LEMMA InitSteady == Init => Undisturbed
BY DEF Init, NoCall, Ended, Undisturbed, EndedHasNoOpenTask, Steady, Owes, At

\* "`done` is refused while any live linked task is open" and `cancelled` cancels
\* every open linked task (EndCase, closeCaseIfSettled): with one caller, a case
\* whose end was told has no live task that is not settled, wherever a crash
\* falls. The assumption leaves out the rollback that resets a settled task.
THEOREM EndedCasesHaveNoOpenTask ==
  ASSUME "reset" \notin Ops, \A p, q \in Procs : p = q
  PROVE Spec => []EndedHasNoOpenTask
<1>1. Init => Undisturbed
  BY InitSteady
<1>2. IInv /\ Undisturbed /\ [Next]_vars => Undisturbed'
  <2> SUFFICES ASSUME IInv, Undisturbed, [Next]_vars PROVE Undisturbed'
    OBVIOUS
  <2>1. ASSUME NEW p \in Procs, Begin(p) \/ Step(p) PROVE Undisturbed'
    <3>1. Begin(p) => UNCHANGED tasks
      BY DEF Begin, OpenCase, LinkCaseTask, UpdateTask, DeleteTask, Cascade, ResetTask, EndCase,
             VoteCase, TakeBackVote, Start, tables
    <3>2. Alone(p)
      BY DEF Alone
    <3> QED
      BY <2>1, <3>1, <3>2, AloneSteady
  <2>2. CASE UNCHANGED vars
    BY <2>2 DEF vars, Undisturbed, EndedHasNoOpenTask, Steady, Owes, At, Unsettled,
                LiveTasks, AllSettled, Live
  <2> QED
    BY <2>1, <2>2, CrashSteady DEF Next
<1>3. Undisturbed => EndedHasNoOpenTask
  BY DEF Undisturbed
<1> QED
  BY <1>1, <1>2, <1>3, Invariant, PTL DEF Spec

\* The same of the checked specification, for any cases, tasks and members: in
\* the scenario of one caller only p1 calls, and no rollback resets a task.
THEOREM OneCallerEndsCleanly ==
  ASSUME p1 \in Procs
  PROVE MCSpec => []OneCallerLeavesNoOpenTask
<1> DEFINE Others == \A q \in Procs \ {p1} : call[q] = NoCall
           One == scenario = "one" => Undisturbed /\ Others
<1>1. MCInit => IInv /\ One
  BY InitOK, InitSteady DEF MCInit, Init
<1>2. MCNext => Next
  BY DEF MCNext, Calm, Next
<1>3. IInv /\ [MCNext]_<<vars, scenario>> => IInv'
  <2>1. [MCNext]_<<vars, scenario>> => [Next]_vars
    BY <1>2
  <2> QED
    BY <2>1, NextKeeps
<1>4. IInv /\ One /\ [MCNext]_<<vars, scenario>> => One'
  <2> SUFFICES ASSUME IInv, scenario' = "one", One, [MCNext]_<<vars, scenario>>
               PROVE Undisturbed' /\ Others'
    OBVIOUS
  <2>1. CASE UNCHANGED <<vars, scenario>>
    BY <2>1 DEF vars, Undisturbed, EndedHasNoOpenTask, Steady, Owes, At, Unsettled,
                LiveTasks, AllSettled, Live
  <2>2. ASSUME scenario = "one", Begin(p1) \/ Step(p1),
               \A t \in Tasks : tasks'[t].status = "pending" => tasks[t].status = "pending"
        PROVE Undisturbed' /\ Others'
    <3>1. Alone(p1)
      BY <2>2 DEF Alone, Idle, At, NoCall
    <3>2. call' = call \/ \E x : Goes(p1, x)
      BY <2>2, ReadIs DEF Begin, OpenCase, LinkCaseTask, UpdateTask, DeleteTask, Cascade,
             ResetTask, EndCase, VoteCase, TakeBackVote, Start, Step, CheckTask, InsertLink,
             WriteTask, DropTask, CancelTask, CaseOfTask, CaseLinks, CloseCase,
             MoveCase, CascadeDone, LookForVote, InsertVote, DeleteVote, AfterSettle, Return
    <3>3. Others'
      BY <2>2, <3>2 DEF Goes, IInv, TypeOK
    <3> QED
      BY <2>2, <3>1, <3>3, AloneSteady
  <2>3. CASE Crash
    BY <2>3, CrashSteady DEF MCNext, Crash
  <2> QED
    BY <2>1, <2>2, <2>3 DEF MCNext, Calm
<1>5. IInv /\ One => OneCallerLeavesNoOpenTask
  BY DEF OneCallerLeavesNoOpenTask, Undisturbed
<1> QED
  BY <1>1, <1>3, <1>4, <1>5, PTL DEF MCSpec
=============================================================================
