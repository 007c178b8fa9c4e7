---------------------------- MODULE MCRedisLog ----------------------------
(* Model checking of RedisLog: a long and a short saga, and two daemons.    *)
EXTENDS RedisLog

CONSTANTS n1, n2, d1, d2

MCSize == [n \in Nodes |-> IF n = n1 THEN 2 ELSE 1]
Symmetry == Permutations({d1, d2})
=============================================================================
