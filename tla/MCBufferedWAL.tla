--------------------------- MODULE MCBufferedWAL ---------------------------
(* Model checking of BufferedWAL: small sets of clients, every policy.      *)
EXTENDS BufferedWAL, TLC

\* Clients are interchangeable (safety runs only).
ClientSymmetry == Permutations(Clients)
=============================================================================
