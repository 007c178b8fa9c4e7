--------------------------- MODULE MCSemanticLock ---------------------------
(* Model checking of SemanticLock: two sagas, on one node or on two, that    *)
(* contend for one key of Redis, or for two resources of a process.          *)
EXTENDS SemanticLock

CONSTANTS s1, s2, n1, n2, acct, card

MCHomes == {[s \in Sagas |-> n1], [s \in Sagas |-> IF s = s1 THEN n1 ELSE n2]}

MCReach == [process |-> {acct, card}, redis |-> {acct}]
=============================================================================
