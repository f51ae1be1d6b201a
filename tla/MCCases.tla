------------------------------ MODULE MCCases ------------------------------
(***************************************************************************)
(* Four scenarios of Cases, chosen at the start: two callers racing to     *)
(* settle and end one case, the same over one task with crashes, rollbacks *)
(* and edits, two callers racing to vote, and one caller with two cases.   *)
(***************************************************************************)
EXTENDS Cases

CONSTANTS p1, p2, c1, c2, t1, t2, m1, m2

VARIABLE scenario

\* A step of one of P without a rollback's reset or an edit that keeps a status.
Calm(P) ==
  /\ \E p \in P : Begin(p) \/ Step(p)
  /\ \A t \in Tasks : tasks'[t].status = "pending" => tasks[t].status = "pending"
  /\ \A p \in Procs : call'[p].at = "write" => call'[p].was # call'[p].to

OneCase == cases[c2].status = "absent" /\ cases[c1].requester \in {m1, Nobody}

NoVote == \A p \in Procs : call[p].member = Nobody

\* Two callers, one case.
SettleRace == OneCase /\ NoVote /\ \A p \in Procs : call[p].to # "failed"

\* Two callers, one case, one task.
Upset == SettleRace /\ \A p \in Procs : call[p].task # t2 /\ t2 \notin call[p].todo

\* Two callers, one case that m1 brought.
VoteRace ==
  /\ OneCase
  /\ \A t \in Tasks : tasks[t].status = "pending" /\ Live(t) /\ link[t] = NoCase
  /\ \A p \in Procs : call[p].task = NoTask /\ call[p].todo = {}

\* Two cases, no vote.
TwoCases == NoVote /\ \A c \in Cases : cases[c].requester \in {m1, Nobody}

MCInit == Init /\ scenario \in {"settle", "upset", "vote", "one"}

MCNext ==
  \/ scenario = "settle" /\ Calm(Procs) /\ SettleRace' /\ UNCHANGED scenario
  \/ scenario = "upset"  /\ Next        /\ Upset'      /\ UNCHANGED scenario
  \/ scenario = "vote"   /\ Calm(Procs) /\ VoteRace'   /\ UNCHANGED scenario
  \/ scenario = "one"    /\ (Calm({p1}) \/ Crash) /\ TwoCases' /\ UNCHANGED scenario

MCSpec == MCInit /\ [][MCNext]_<<vars, scenario>>

\* With one caller, no ended case whose end was told has an open task, wherever
\* a crash falls.
OneCallerLeavesNoOpenTask == scenario = "one" => EndedHasNoOpenTask
=============================================================================
