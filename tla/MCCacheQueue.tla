---------------------------- MODULE MCCacheQueue ----------------------------
(* One instance of CacheQueue: a common path and one exclusive to a process. *)
EXTENDS CacheQueue

CONSTANTS p1, p2, n1, n2

MCOwner == [p \in Path |-> IF p = p2 THEN n1 ELSE NoProcess]
MCPriority == [p \in Path |-> 0]
MCOrphanedAfter == [p \in Path |-> IF p = p1 THEN 1 ELSE 0]
=============================================================================
