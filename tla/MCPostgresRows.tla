-------------------------- MODULE MCPostgresRows --------------------------
(* Model checking of PostgresRows: one saga, one recovery daemon.           *)
EXTENDS PostgresRows

CONSTANTS d1
=============================================================================
