---------------------------- MODULE KeyRegistry ----------------------------
(***************************************************************************)
(* What creating things under a key promises: a key gets one thing, once   *)
(* and for good, and a call that names several keys gives all those that   *)
(* have none theirs in one step, or none.                                  *)
(***************************************************************************)
CONSTANTS
  Keys,     \* the natural keys
  Ids,      \* the ids of what is created
  NoId,     \* a key without a thing
  Requests  \* the sets of keys a call may name

VARIABLE reg  \* the thing each key has got

Free == {k \in Keys : reg[k] = NoId}

Init == reg = [k \in Keys |-> NoId]

\* One call takes every key of its request that is still free.
Claim(R) ==
  /\ R \cap Free # {}
  /\ \A k \in R \cap Free : reg'[k] \in Ids
  /\ \A k \in R \cap Free, j \in Keys : reg'[j] = reg'[k] => j = k
  /\ reg' = [k \in Keys |-> IF k \in R \cap Free THEN reg'[k] ELSE reg[k]]

Next == \E R \in Requests : Claim(R)

Spec == Init /\ [][Next]_reg
=============================================================================
