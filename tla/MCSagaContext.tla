--------------------------- MODULE MCSagaContext ---------------------------
(* Model checking of SagaContext: a few calls, a few injected faults.       *)
EXTENDS SagaContext
=============================================================================
