-------------------------- MODULE MCCrashRecovery --------------------------
(* Model checking of CrashRecovery: one saga, one or two daemons.           *)
EXTENDS CrashRecovery

\* Daemons are interchangeable (safety runs only).
DaemonSymmetry == Permutations(Daemons)
=============================================================================
