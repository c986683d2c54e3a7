---------------------------- MODULE MCPartitions ----------------------------
(* Two batches, of which a split cuts the first in two. *)
EXTENDS Partitions, TLC

CONSTANTS b1, b2

Batches == [b \in Batch |-> IF b = b1 THEN {1, 2} ELSE {MaxKey}]

\* No definition tells one processing loop from another.
Loops == Permutations(Worker)
=============================================================================
