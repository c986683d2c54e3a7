---------------------------- MODULE MCQueryQueue ----------------------------
(* Instances of QueryQueue: paths p1, p2; processes n1, n2; callers c1, c2. *)
EXTENDS QueryQueue, TLC

CONSTANTS p1, p2, n1, n2, c1, c2

\* p2 is persistent: its rows are exclusive to n1.
MCOwner == [p \in Path |-> IF p = p2 THEN n1 ELSE NoProcess]
MCPriority == [p \in Path |-> 0]
MCOrphanedAfter == [p \in Path |-> 0]
MCKeyOf == [c \in Client |-> IF c = c2 /\ p2 \in Path THEN p2 ELSE p1]
MCHandle == 1..MaxId
=============================================================================
