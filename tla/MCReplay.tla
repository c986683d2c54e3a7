------------------------------ MODULE MCReplay ------------------------------
(* Two partitions; the rows go to them in turns. *)
EXTENDS Replay

CONSTANTS p1, p2

Turns == [s \in 1..MaxSeq |-> IF s % 2 = 1 THEN p1 ELSE p2]
=============================================================================
