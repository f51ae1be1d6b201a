--------------------------- MODULE MCWorkflowRuns ---------------------------
(***************************************************************************)
(* Small instances of WorkflowRuns: one run, and the run its closing opens. *)
(***************************************************************************)
EXTENDS WorkflowRuns, TLC

CONSTANTS p1, p2, a, aClosed, b, t1, t2, w1, w2

\* Closing is modelled for a; the cancel run's own closing is out of bounds.
MCCancelName == a :> aClosed

\* No closing: the instances about other calls.
NoClosing == [r \in {} |-> r]

\* t2 depends on t1.
MCDependsOn == {<<t2, t1>>}

Callers == Permutations(Procs)
=============================================================================
