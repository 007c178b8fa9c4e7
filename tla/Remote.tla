------------------------------- MODULE Remote -------------------------------
(***************************************************************************)
(* The outside world the tools act on: whether the forward call of a step  *)
(* landed, how often its inverse was applied and by whom, and whether the  *)
(* remote has seen the inverse's idempotency key.  None of it is code of   *)
(* this repository; it is what the sagas and the recovery daemons change.  *)
(***************************************************************************)
EXTENDS Integers

VARIABLES
    effect,    \* per step: "none", "running" or "landed"
    undone,    \* per step: times applied [saga |-> n, daemon |-> m]
    keySeen    \* per step: the remote knows the idempotency key

world == <<effect, undone, keySeen>>

\* What a compensation can be: absent; a closure of the process; a registered
\* handler that takes no idempotency key; one the recovery daemon hands a key;
\* one whose own arguments already carry the key.
CompKindsAll == {"none", "closure", "plain", "keyed", "ownkey"}

\* Compensation.recoverable: another process can run it from the log alone.
Recoverable(comp) == comp \in {"plain", "keyed", "ownkey"}

\* `who` applies the inverse of step i; a request with a key the remote has
\* already seen changes nothing.
Apply(who, i, keyed) ==
    /\ undone' = IF keyed /\ keySeen[i] THEN undone
                 ELSE [undone EXCEPT ![i][who] = @ + 1]
    /\ keySeen' = IF keyed THEN [keySeen EXCEPT ![i] = TRUE] ELSE keySeen

Undone(i) == undone[i].saga + undone[i].daemon > 0
=============================================================================
