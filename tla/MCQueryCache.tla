---------------------------- MODULE MCQueryCache ----------------------------
(* Instances of QueryCache. *)
EXTENDS QueryCache

CONSTANTS r1, r2

\* One client, with the tasks of its earlier attempts, or two that wait for results.
OneOrTwo == {
  [clients |-> {r1}, modes |-> {"must-revalidate", "stale-while-revalidate"}, tasks |-> 1, faults |-> 1],
  [clients |-> {r1, r2}, modes |-> {"must-revalidate"}, tasks |-> 0, faults |-> 0]}

OneClient == {[clients |-> {r1}, modes |-> {"stale-if-slow"}, tasks |-> 1, faults |-> 0]}
=============================================================================
